# Verification of the streaming host

TLA+ models of the host in `src/`, the TLC runs that check them and the theorems
TLAPS proves about them. The code is a multi-threaded C++ program; what is hard in
it is not the arithmetic but who touches which session, event, timer, display or image
when, and what is left behind when one step of several fails. The project follows a
session from `/launch` to the moment its object is freed, and the machine's own state
(display, default audio device, driver settings, held keys) until it is given back.

Contents: [the system](#the-system), [modules](#modules),
[runs](#runs), [fairness](#fairness), [proofs](#proofs),
[findings](#findings), [not modelled](#not-modelled), [plan](#plan).

## The system

| Component | Sources | State | Operations | Modelled in |
|---|---|---|---|---|
| Streaming sessions | `stream.cpp`, `stream.h` | `session_t::state`, `shutdown_event`, `controlEnd`, two media threads, `control.peer` | alloc, start, stop, join | `StreamSessions` |
| Control server | `stream.cpp` | `_sessions`, `_peer_to_session`, the ENet host | the scan of `controlBroadcastThread`, `iterate`, `get_session`, message handlers | `StreamSessions` |
| Broadcast context | `stream.cpp`, `thread_safe.h` | `shared_t` of `broadcast_ctx_t`, `mail::broadcast_shutdown`, four threads | `start_broadcast`, `end_broadcast` | `StreamSessions` |
| Packets | `stream.cpp` | sequence numbers, FEC blocks, the four audio slots | `videoBroadcastThread`, `fec::encode`, `audioBroadcastThread` | `Wire` |
| RTSP server | `rtsp.cpp` | `_session_slots`, `launch_event`, `raised_timer`, sockets and their buffers | ANNOUNCE, insert, remove, clear, session_raise, session_clear, the clean-up loop, reading and answering a request | `StreamSessions`, `LaunchEvent`, `Rtsp` |
| HTTPS handlers | `nvhttp.cpp` | the handler in hand, the display it configured | launch, resume, cancel, serverinfo | `Handlers`, `StreamSessions` (slots), `Probe` (what serverinfo offers) |
| Sign-in | `nvhttp.cpp`, `nvhttp_token.cpp` | `client_tls`, the key bundle | handshake, take, verify, check_token | `Gate` |
| App process | `process.cpp` | the running app | execute, running, terminate | `Handlers`, `StreamSessions` (one flag) |
| Task pool | `task_pool.h`, `thread_pool.h` | `_tasks`, `_timer_tasks`, `_continue`, workers | push, pushDelayed, cancel, delay, pop, stop, `_main` | `TaskPool` |
| Mail | `thread_safe.h` | `event_t`, `queue_t`, `shared_t`, the mail registry | raise, pop, view, stop, `mail_raw_t::event/queue`, cleanup | `Mail`, `LaunchEvent` (`event_t`), `AudioSink` (`shared_t`) |
| Input | `input.cpp` | input queue, pressed keys, repeat and button timers | passthrough, batching, repeat, reset, alloc | `Input` |
| Display device | `display_device.cpp` | the settings to restore, the one task of the scheduler | configure, revert, reset_persistence, init | `DisplayDevice` |
| Video capture | `video.cpp`, `platform/windows/display_base.cpp`, `display_vram.cpp` | capture thread, contexts, list of displays, image pool | captureThread, capture_async, encode_run, refresh_displays, snapshot | `Capture`, `Displays`, `Snapshot` |
| Encoder | `video.cpp`, `nvenc/nvenc_base.cpp` | probed flags, reference frames | probe_encoders, validate_config, invalidate_ref_frames | `Probe`, `RefFrames` |
| Audio | `audio.cpp`, `platform/windows/audio.cpp` | shared context, the default device per role | capture, set_sink, restore_sink, reset_default_device | `AudioSink` |
| Driver settings | `platform/windows/nvprefs/` | the driver's setting, the undo file | load, modify, restore, unload | `NvPrefs` |
| Main | `main.cpp`, `entry_handler.cpp` | `mail::shutdown` | start, signal, the joins, restore command | `StreamSessions` (the event), `NvPrefs`, `DisplayDevice` |
| Everything else | `config.cpp`, `crypto.cpp`, `confighttp.cpp`, `logging.cpp`, `upnp.cpp`, ... | | | not modelled, see below |

How they interact. `/launch` and `/resume` put a *launch session* in an event; the
client connects over RTSP, is associated with what is in the event, and its ANNOUNCE
allocates a *session*, inserts its slot and starts it: a reference to the broadcast
context (created with the first), an entry in the control server's list, two media
threads. The client's control stream gives the session its ENet peer and takes the
launch session out of the event. From then on anybody may stop the session: the
control thread (ping timeout, disconnect, message it cannot decrypt), its own media
threads, `/cancel`, shutdown. A stop only marks; the object is joined, its slot
erased and its memory freed by whichever of three threads calls `clear`: the RTSP
thread after every `iterate`, an HTTPS handler, or the main thread at shutdown. The
release of the last reference tears the context down, which joins the control thread.
`join` arms a watchdog in the task pool that ends the process after ten seconds.

Around a session, four things are borrowed from the user and have to be given back: the
display (configured by `/launch` before it is known whether the launch succeeds,
reverted by `/cancel`, the end of the app or the last session, over a scheduler that
retries), the default audio device (taken by the first audio thread, given back when the
shared context dies, which a switched-off display may delay), the driver's settings
(taken at start, an undo file against a crash) and the keys and buttons that are down
(`input::reset` from `join`). One capture thread serves all encoding threads: they hand it
their image events, it owns the display, and when the display has to be made anew it
waits until every encoder has let go. Below, a frame is drawn into an image of a pool
that the encoder reads on another thread.

What is hard: three clearing threads that join with the mutex of the slots held; a
session object freed by one thread while four others have a raw pointer; a slot
inserted before its session runs; a control thread that leaves its loop on a stale
view; a timer whose handler is already queued when it is cancelled; a condition
variable between the emptiness check and the wait; a capture thread that ends while
a session hands it a context; a restoration that fails half way, or that a crash, an
unplugged device or a second launch interrupts; identifiers that are addresses, endpoints
or list positions and mean something else when they are used. `PROJECT.json` lists these hazards
line by line.

What makes each component correct:

- sessions: no thread reaches a freed session; a stop is final and leads to release;
  the counter of running sessions matches the slots; the platform hears "stop" last.
- control server: a mapped peer is the peer of a listed session; no listed session is
  left untold by a thread that exits; a silent client is dropped.
- broadcast context: up exactly while somebody holds it.
- launch event: one launch session waits at a time, is never overwritten, and always
  leaves; the ID compared by the control stream is the pending one.
- task pool: a task is in one place; not early; no lost wake-up; a stop drains.
- handlers and display: a display configured for a stream has somebody who will give it
  back; a revert goes on until it succeeded, whatever came between.
- sign-in: a request runs for the certificate of its own connection.
- capture: nobody waits on a capture thread that ended; every encoding thread lets go of a
  display that is to be replaced (a teardown thread need not: see findings); capture comes
  back to the display it was on; no picture goes back in time, but for the black one of a
  texture whose address came back.
- encoder: no frame refers to one the client lost; (violated, see findings:) a required
  codec that is missing is not used.
- packets: the blocks are the frame, and a client can rebuild what it gets.
- RTSP: a request is handled whole, however TCP cuts it.
- audio, driver settings: what the user had is restored or recoverable at every moment.
- input: a client that is gone leaves no key down that is sent by its own code, and no button
  but the left one, whose delayed release `reset` may cancel, and the fifth, which nothing
  tracks; a press or a release is passed where the client had the pointer, but for the
  exceptions of its property.
- mail: one object per name.

## Modules

**`StreamSessions`** is the core. Its variables are the fields of the code (named at
their declarations), a pc for each thread, and an activation record (`pc`, `want`,
`todo`, `cur`) for each thread that may run `clear`. One action is one statement
sequence that another thread cannot see inside: a critical section, an event raised, a
join that returned, the return of a callback. Decisions a reader should know:

- *Time.* `late` in the scan says that `pingTimeout` of the session has passed: any
  event of the peer moves it on, so any scan may or may not find it late.
- *References.* `shared_t` counts; the model keeps the set of holders, named by
  session and kind, so that a missing or a double release is visible.
- *join.* It returns once both media threads are done and `controlEnd` was raised.
  `HangKill` is the watchdog; the ten seconds are not measured, it may fire whenever
  the join is not ready. `ClearJoinThrows` is the join of a `std::thread` that `start`
  has not assigned yet: it throws, the HTTPS server catches, any other thread ends the
  process. The concurrent use of that `std::thread` object is otherwise not modelled.
- *STARTING* is in the enumeration and never stored, so the waits for it fall through;
  the model keeps the test and shows it has no effect.
- `awaiting`, `want` and `cur` are reset when their thread no longer reads them, which
  merges states and nothing else. `RtspCleanup` takes the return of `iterate` and the
  look at `broadcast_shutdown` in one step, as nothing can be told apart in between.
- Order inside `_sessions` and `_session_slots` is abstracted to sets: the loops visit
  the members in any order.
- `launched` gates ANNOUNCE: a client needs a launch session. How that session gets
  there is `LaunchEvent`'s matter; the two meet at `Announce`/`Push`/`Connect`.
- `Terminated` stutters when the process is gone, so that a deadlock of living threads
  is still an error of every run.

**`LaunchSlot`** is the abstract promise of `rtsp.cpp` for launch sessions: a one-place
slot, never overwritten, none waits twice. **`LaunchEvent`** is the code: `event_t`,
the steady timer with handlers that may already be queued when a wait is aborted, the
HTTPS thread in `session_raise`, the RTSP thread, and the control thread in
`session_clear` with the mutex of `_sessions` held. It implements the slot through
`ImplementsSlot` (`slot` is the event, `used` those that were ever in it). `waiting` is
the set of listed sessions without a peer, by launch session.

**`TaskPool`** is `task_pool.h` and `thread_pool.h`: the two containers, the worker loop
with its unlocked look, its locked look and its wait, and every call. The loops over
the containers are `SelectInSeq` and a fold; `ready`, `_continue` and `next` under the
lock are one step or two as the lock allows. The three calls that nobody in the
repository makes (`delay`, `pop(id)`, the `pushDelayed` that takes a pair) are modelled
as written and marked by the history variable `odd`: the properties that callers rely
on are stated for behaviours without them. Futures are left out: no caller reads one.
`_continue`, a plain `bool`, is read as if it were atomic. Tasks are unique objects;
that the address of a freed task may come back is a hazard of the input module.

**`Capture`** is the hand-over between `captureThread`, `capture_async` and `encode_run`.
A display is the number of its creation; who holds it (the capture thread, encoding
threads, encoder sessions on detached teardown threads) replaces the `shared_ptr` counts,
with `encode_session` holding the display as `d3d_base_encode_device` does. A teardown thread may
hang in the driver and never end, which the comment in `encode_run` reckons with. `capLock` is
the mutex of `capture_thread_async`, which the last reference holds while it joins. The
number of displays is bounded, which bounds reinitialisations.

**`Displays`** is the list behind it: `refresh_displays`, the index, the switch key, and
the frame groups of `display_base_t::capture` as a counter. `dspExcused` is a history
variable: the displays capture may leave by what the user or a listing did.

**`Snapshot`** is `display_vram_t::snapshot` with its state kept as in the code (the
`std::variant` of the last frame, the intermediate surface, the pending updates), the pool of
images and `convert`. A picture is a version of the desktop and of the cursor. Freedom
of an image is "only the pool holds it", the code's `use_count`. The encoder knows a texture it
has opened by its raw address; `complete_img` frees a texture before it makes the next, so
that a new texture may have the address of a freed one (`NewAddress`). `opened` keeps
that address, whether the image still has the texture, and what the texture showed when it was
replaced: this is what `Convert` shows when the address matches by accident.

**`RefFrames`** is one NVENC session: what the client reports, the one-slot event it is
reported through, `invalidate_ref_frames` with its unsigned arithmetic, and an external
driver that uses any reference it was not told to drop. **`Probe`** is `probe_encoders` and
`validate_encoder` with the flags as they are written one at a time while `/serverinfo`
reads them. **`Wire`** splits frames with the code's integer divisions and numbers packets
modulo `SeqNumbers`; the minimum of parity shards is any number, as the client names it.

**`Gate`** is the TLS handshake, the registry keyed by endpoint, the verification of a
token in its order of checks (tokens have at most one flaw) and `check_token`.
**`Handlers`** are launch, resume and cancel with every early return, statement by
statement as other threads can see them, and what they leave: app, pending launch, sessions,
display. `ConfigureDisplay` is a step of its own after the test of the session count, which a
session may overtake. `unclaimed` marks the one case where nobody is left to revert: `/launch` with app
0 that no client claims (nvhttp.cpp:706); the property names it.

**`Rtsp`** counts bytes: a request has a header, an empty line of four bytes and a
payload; a read delivers any number of them into the one buffer. The replies and their
early returns are `AnnounceReply` and its neighbours.

**`Input`** has a control thread that queues messages, the pool's one worker, timers whose
identifier is the address of their task (reused from `TaskId`), and the joining thread that
resets, with the watchdog that it pushed before (`JoinPush`) among those timers. Each loop over the
timers in `cancel` finds a task by that address, as in the code. Absolute and relative motions
move `pointer`; a motion without dimensions, or before the touch port is known, changes the delay of
the left button and moves nothing. `position` follows what the client sent, and each message
carries the position it was sent from. `astray` says that the two have parted: a sum of
deltas overflowed, or an absolute motion came before the touch port; the next absolute
motion ends it.

**`DisplayDevice`** keeps the scheduler's single slot; the settings library is external
and may fail at every call. **`AudioSink`** has the default device per role, the shared context
by references, devices that come and go, a user who picks another default, a restore that the
system makes for some roles or none, and a crash at every step. **`NvPrefs`** has one step per call of the driver and of the file system, each of which may
fail, and a crash between any two.

**`Mail`** is the registry of weak pointers with the two steps by which the last holder
destroys a post and tidies the registry, and `queue_t`/`event_t` with limit and stop.

**`MCParts`** puts thirteen of these side by side: they share no variable, and a behaviour
chooses one of them, so the state space is the sum of theirs and one run checks them all.
`PartsView` is the `VIEW` of that run: a state is told apart by the chosen component and its
variables, which leaves nothing out since the others never change and only saves TLC time.
Four of its `ASSUME`s evaluate pure functions over all their bounded inputs
(`parse_configuration`, the reply of ANNOUNCE to an encryption that DESCRIBE asked for, the
bitrate and the rotation of speakers, the frame rate).

**`MCStreamSessions`** adds the symmetry set.

The theorems are in eight modules: **`StreamSessions_proofs`**, **`LaunchEvent_proofs`**,
**`TaskPool_proofs`**, **`Video_proofs`** (of `Capture`, `RefFrames`, `Displays` and `Snapshot`),
**`Nvhttp_proofs`** (of `Gate` and `Handlers`, both of nvhttp.cpp), **`Client_proofs`** (of `Rtsp`,
`Input` and `Wire`, what passes between a client and the host), **`Host_proofs`** (of `NvPrefs`,
`DisplayDevice` and `AudioSink`, the settings of the host that are changed and given back), and
**`Parts_proofs`**, which extends the last four and `MCParts` (of `Mail`, `Probe` and the composition).

Definitions whose comment says *Altered
form* are never part of a specification: each is a plausible mistake in the operator
that follows it, used to confirm that a property notices the mistake.

## Runs

| Run | Instance | Checks |
|---|---|---|
| `sessions` | 2 sessions, 1 peer slot, video only, 2 requests, symmetric | `TypeOK`, `NoUseAfterFree`, `PeerMapSound`, `CountMatchesSlots`, `StopIsFinal` |
| `sessions_faults` | 1 session, audio and video, shutdown and a failing broadcast thread | `NoUseAfterFree`, `ContextHeld` |
| `sessions_live` | 1 session, fairness | `StopReleases`, `AwaitingResolved`, `RequestReturns` |
| `sessions_orphan` | 1 session | finding: `PendingServed` |
| `sessions_laststop` | 2 sessions | finding: `WillStopWhenLast` |
| `launch` | 3 launch sessions, fairness | `TypeOK`, `PendingHasDeadline`, `ClearLosesToTimer`, `ImplementsSlot`, `PendingLeaves` |
| `launch_ids` | 2 launch sessions | finding: `IdMatches` |
| `taskpool` | 2 workers, 2 tasks, delays 1 and 2, clock to 2, all calls, fairness | `TypeOK`, `OnePlace`, `NotEarly`, `TimersSorted`, `NoLostWakeup`, `DrainComplete`, `EachRuns`, `StopEnds` |
| `capture` | 2 encoding threads, 2 displays, fairness | `NobodyWaitsOnDeadCapture`, `EncoderLeaves`, `ReinitDrains` |
| `capture_hung` | 1 encoding thread, 2 displays, fairness | finding: `StreamingContinues` |
| `parts` | thirteen components, bounds below | `PartsTypeOK` and one or two properties of each component, below |
| `probe_downgrade` | no bound | finding: `RequiredModeDowngraded` |

The run `parts` checks, component by component:

| Component | Property | Says | Bounds |
|---|---|---|---|
| `AudioSink` | `DefaultGivenBack` | without holders, and after a crash and a start, the default device is what the user had or has chosen since, unless giving it back failed | 2 sessions, 3 devices, 2 roles, 1 try to take the display's context back, crashes anywhere |
| `DisplayDevice` | `DisplayGivenBack` | displays to be given back have a revert under way, and no stream's settings follow | every configuration of `Inputs`, crash anywhere |
| `Displays` | `IndexKeepsDisplay` | capture comes back to the display it was on | 3 displays in any order and number, groups of 2 frames |
| `Gate` | `AdmittedByOwnHandshake` | a request runs for its own connection's certificate | 2 connections, 2 addresses, registry of 1 |
| `Handlers` | `DisplayHasOwner` | a configured display has somebody to give it back | 2 sessions, 1 app |
| `Input` | `KeysUpAfterReset`, `ClicksLandWhereSent` | with the client gone no key sent by its own code stays down, nor a button but the left and the fifth; a press or a release is passed where the motions before it lead, unless the pointer is astray | 3 messages, 1 client, 2 task addresses, deltas in -2..1 |
| `Mail` | `OneObjectPerName` | who shares a name shares the object | 2 threads, 2 names, 3 objects, queues of 1 |
| `NvPrefs` | `UserSettingRecoverable` | at every moment the driver has the user's setting or the undo file names it | 3 values, crashes anywhere |
| `RefFrames` | `NoLostReference` | no frame refers, over any chain, to one reported lost | 3 frames, 3 references |
| `Rtsp` | `RequestHandledWhole` | a request is handled when all of it is there, and not refused before | buffer of 32, headers of 5 and 20, payloads of 0 to 14 bytes |
| `Snapshot` | `SeenInOrder` | what is forwarded is what is seen, it is not drawn on while it waits, and the encoder shows nothing older than before, but for a dummy whose address came back | 3 images, 4 addresses of textures, 2 desktops, 2 cursors |
| `Wire` | `ClientCanRecover` | the blocks are the frame, with parity a client can compute, but for what its own minimum raised | 21 sizes up to four full blocks and over, 1, 20, 50 and 255 percent, minima of 0, 2 and 3, 8 sequence numbers |
| `Probe` | (type invariant; its property is the finding) | | every driver |

Bounds, and why they are enough for what is asked:

- Two sessions are the least that share the context, the counter and a peer slot. With
  one peer slot for two sessions the reuse of the slot, which is where a stale map
  entry would show, happens in every long behaviour. Each session object is used once;
  a third would only repeat the hand-over from the first to the second.
- Two HTTPS requests: one to make ANNOUNCE possible, one to clear (`/cancel`, or another
  `/launch`) while the other threads are anywhere.
- The second kind of media thread matters only to the join and to the references of
  one session, so it is in the run with one session; there shutdown and a failing
  broadcast thread are added, which make all three clearing threads run.
- Liveness is checked without symmetry, for one session: the properties are about one
  session against all threads.
- Three launch sessions let a queued handler, a pending launch session and a blocked
  `pop` exist together.
- Two timers and two workers are the least with an order, respectively a notification
  that goes to the wrong one. The repository starts one worker; the class allows any.
  `CHECK_DEADLOCK FALSE` stands in the launch, pool, capture and parts runs only, where a
  system whose clients are done, or whose bounded inputs are used up, really rests.
- Two encoding threads are the least where one ends while another hands over its
  context, and where the last reference is taken anew while the first joins; two
  displays make one reinitialisation, and the third is refused as a failed one.
  (167 thousand states, a minute and a half.)
- In `parts` (2.4 million states, about two minutes) each bound lets the case its
  hazard speaks of happen: a registry of one entry evicts on the second handshake; three
  displays can be renumbered while one is gone; two task addresses are reused by the third
  message; a queue of one element drops; three images make the pool run out while one waits and one is
  read; four addresses for the textures of three images are one more than are in use, so that the
  new texture of an image may get its old address or another; a minimum of three parity shards is
  the least that makes the percentage of a block of one shard too large for its 8 bits; three frames with three references
  let the loss of the first be reported when the second already uses it and the third could;
  two deltas in -2..1 always overflow when they are batched, and do not when each is passed before
  the next comes, so both kinds of sum occur; the buffer of 32 bytes overflows with
  the longest header and payload; the sizes of `FrameSize` are those on both sides of each
  number of blocks. Sequence numbers wrap at 8 instead of 2^16, a multiple of the audio
  block as in the code.

## Fairness

Only what the scheduler and the timeouts of the code grant. A thread that can move
moves (weak fairness of each thread's own steps); a thread that waits for a mutex gets
it if it is free again and again (strong fairness of the clearing threads);
`iterate(500ms)` of the RTSP server returns by itself only while there are sessions or
when the `io_context` was stopped, so `RtspCleanup` is fair only then; `recv_ping` gives
up after `ping_timeout`, so a media thread that waits for its ping leaves; a session
that never gets a peer is found late by some scan. Clients, captures, HTTPS requests
and failures owe nothing. In `LaunchEvent` time passes and the `io_context` runs a
queued handler although others compete (strong fairness of `TimerHandler`); in
`TaskPool` the clock ticks and the pool is started. In `Capture` the capture thread and
the encoding threads run (`CapThreadsFair`); a teardown thread owes nothing, since it was made for
a driver that hangs (video.cpp:568). So `ReinitDrains` says that the drain ends, or that it waits for a
teardown thread alone, and `EncoderLeaves` that sessions told to stop get out, or that the
capture thread which the last one joins waits for a teardown thread (`WaitsForTearDown`);
that the second alternative happens is the finding `StreamingContinues`. Frames, failures and
reinitialisations owe nothing, except that `disp->capture` returns once the queue was stopped.

The liveness properties of sessions have one exception, `StuckJoin`, named and
visible: a join that only the watchdog ends, of a session whose stop was lost because
it was not RUNNING yet, or of one the exited control thread never told. The first is
the price of inserting the slot before `start`, the second is a finding.

## Proofs

All theorems hold for every value of the constants, under the assumptions each module
states (`NoSession` is no session and so on), which TLC evaluates on the runs. Beyond them
the theorems of `TaskPool` have the hypothesis `Calls = {}`, for the reason given below. Every safety property that a
passing run checks is stated by a theorem; the proofs follow the same plan: an inductive
invariant, made of named parts, that the initial states satisfy, that every action keeps (one
step per action), and that implies the property.

`LaunchEvent_proofs`:

- `TypeCorrect`, `DeadlineHolds`: inductive as they stand (the second given the types).
- `ClearLosesOnlyToTimer` and `Refinement` need `IInv`, what the threads know of each
  other: the event holds exactly the launch session whose fate is pending, the HTTPS
  thread between its view and its raise finds the event still empty because only it
  raises, and the launch session the control thread viewed is pending or discarded.
  `ClearLosesToTimer` alone is not inductive: without the link between event and fate a
  step could put a launch session back. `Refinement` maps each step to `Put`, `Take` or
  a stutter of `LaunchSlot`.

`StreamSessions_proofs`:

- `TypeCorrect`: `TypeOK` is a conjunction of nine groups; a frame lemma deals with the
  groups a step leaves alone, each action has a step per group it assigns. It includes
  that a thread at `join` or in `start` has a session in hand, and that a connected
  peer is mapped to a session, so that `peerToSession[p]` in a handler is never the
  null pointer.
- `StopFinal`: `StopIsFinal` for any number of sessions. `start` stores RUNNING without
  looking. The invariant `StopInv` says why that overwrites no stop: a session not
  allocated yet is STOPPED, the session in the hands of ANNOUNCE before the store is
  STOPPED, and a stop moves a session only from RUNNING. Every action but the
  allocation and the store is *gentle* (it changes states by `Stop` only, allocates
  nothing, and does not move ANNOUNCE back), and a gentle step keeps the invariant.

`NeverUsedAfterFree`, `ContextAlwaysHeld` and
`PeersAgree` (the properties `NoUseAfterFree`, `ContextHeld`, `PeerMapSound`) from one
inductive invariant, `SafeInv`. None of the three is inductive: whether a thread can
reach a freed object depends on who could have freed it, and that on what each label
of each thread implies. Its parts:

- `UnbornInv`, `StartInv`: a session is untouched until ANNOUNCE lists it; while ANNOUNCE
  has it in hand it lives and holds its reference, and it is out of its slot only if it
  was joined meanwhile or its start failed;
- `JoinInv`: what was joined stays joined until its slot is erased;
- `HolderInv`, `EndInv`, `CtxInv`: a media thread runs under its session's reference, so
  the context outlives it, and one thread at a time is in `end_broadcast`;
- `ListInv`, `ToldInv`, `FreeInv`: the rest of a scan is part of the list; whoever was
  told is off both (or the thread is in its farewell loop), and a freed session was told
  or never listed.

A step that touches none of this is `Quiet` and keeps `SafeInv` by one lemma; every other
action has its own. The mutex of the slots plays no part in these three properties.

`CountIsRight` (`CountMatchesSlots`), on top of it. Here the mutex
matters: `LockInv` says that whoever clears owns it and that the slot in hand is not
among those still to be looked at, and `CountInv` that the counter and the slots differ
by one for a slot joined and not yet erased, and by one for a slot ANNOUNCE has inserted
and neither counted nor removed.

`TaskPool_proofs`: every invariant the run `taskpool` checks, each from `PoolInv`, under
`Calls = {}`: the three calls nobody in the repository makes (`delay`, `pop(id)`, the
`pushDelayed` of a pair) are not made. `delay` does break the order (it moves an entry only towards
the front); the theorems say what holds of the program as it is. `PoolInv` says, besides the types,
that queue, timers, hands and what ran are disjoint and without repetitions (from which
`InOnePlace` follows by counting), that timers are sorted and due when they were pushed
for, and, for `WakeupNotLost`, which worker has been notified for what: a worker between
its look and its wait has the lock, so what is queued meanwhile is followed by a
notification it cannot miss. The lemmas on insertion into and removal from a sequence sorted
by time stand at the head of the module.

`Video_proofs`: `Told` (`NobodyWaitsOnDeadCapture`) for any number of sessions and displays.
It needs `CapInv`: an encoding thread past `raise()` is known to the capture thread, or is
in its queue, or its images are stopped, or it is about to find the queue stopped (`KnownInv`); when the thread has ended, what it knew and what
was queued is stopped and the queue takes no more (`EndInv`); and a new thread starts only
after the old one was joined, since the last reference holds the lock (`LockInv`), so that no
context of an earlier thread is taken for one of the new.
`NoneReferred` (`NoLostReference`) for any number of frames and references: while no IDR frame is
forced, every frame that the driver may refer to is sound, that is, neither it nor what it needs was reported or
given up (`SoundInv`). That a range given up extends to the last frame is what keeps this: all
later frames may depend on the lost one, and all earlier ones need only frames before it (`Earlier`).
`DisplayKept` (`IndexKeepsDisplay`) for any displays: unless the display may be left, the
index leads to it (`KeepInv`), across listings that renumber and listings that find nothing.
`FramesInOrder` (`SeenInOrder`) for any images and textures: `LastInv` says that outside of the call
that brings a new frame the last frame, in whichever form it was kept, is the desktop that was seen;
`TodoInv` that the actions chosen for what was seen leave no path to a logical error; `SnapOrderInv`
that versions do not decrease from the newest the encoder showed over the image it reads and the one
that waits to the desktop; `StaleInv` that what the encoder still has open of replaced textures is
black, because only dummies are replaced and real images exist only once the format is known: so an address
that comes back shows the black desktop and never an older one. It needs that there are more
addresses than images (`SnapshotAssumption`), without which the model, not the program, would run out. `RefTypeCorrect` and
`DspTypeCorrect` bound the numbers of frames and the places in the list; the second needs that no
display is listed twice, which is proved of removal from and insertion into a list.

`Nvhttp_proofs`: `DisplayOwned` (`DisplayHasOwner`), where the property only names the handler
and the invariant (`Owned`) says what of it: its guard is armed, or it is `/cancel`, which gives
the display back at its end; and `OwnHandshake` (`AdmittedByOwnHandshake`), where the invariant adds
that the endpoints of live connections differ, that the registry is keyed by endpoint, that what it
says of an open connection's endpoint is of that connection's handshake (`OpenKnown`), and that one
request is handled at a time. An evicted entry costs the client its answer and nothing else.

`Host_proofs`:

- `SettingRecoverable` (`UserSettingRecoverable`): not inductive, because a step may be taken only
  for what the steps before it have put into the file. `NvInv` says for each point of the program
  what the driver session, the undo data and the undo file hold there: before the driver is
  changed the undo data and the file name the user's setting, also after a crash in between.
- `DisplaysGivenBack` (`DisplayGivenBack`): inductive once the types say that the scheduler never
  holds a revert that tries once only (`DdTasks`): such a one could be given up.
- `DefaultRestored` (`DefaultGivenBack`): `Held` says which threads hold the audio context, and
  that a context nobody holds is empty; `Noted` that the context noted the device to give back
  before the first session changed it and keeps the note to the end of the last. A crash loses
  the note; `reset_default_device` at the next start does without it.

`Client_proofs`:

- `RequestsWhole` (`RequestHandledWhole`): while plain text is read, the position in the buffer
  is the number of bytes that arrived (`RtspBytes`), the phase says which kind of request is read
  (`RtspKinds`), and what is still waited for has not arrived, or its end was split over two
  reads and missed (`RtspWaits`).
- `KeysReleased` (`KeysUpAfterReset`) and `ClicksPlaced` (`ClicksLandWhereSent`) from `InputInv`:
  what the system holds down the program remembers (`HeldInv`); there is a task for each message,
  and behind them the release that `reset` pushes (`TasksInv`), a task may find the queue empty
  because a batch took its message; with the last task gone the release is under way or done
  (`DrainInv`); and each message starts where the one before it ends, the first where the pointer is on its
  course (`ChainInv`); `astray` is known of a batch by its first two messages (`TakesSum`). That
  batching keeps the chain is a fact about the recursive function in `BatchOf`: its values are
  reached by induction, as the least place that refutes a statement (`LeastExists`, from the
  library's `WFMin`, which has no operator as a parameter).
- `FrameSplitWhole`, `AudioParity` and `ClientRecovers` (`ClientCanRecover` is the conjunction of
  the three parts they are about): `FrameInv` says how a frame is split and, with FEC, that each
  block fits its shards; `AudioInv` that the slots of the audio block are filled one by one under the
  header of the first, also where the sequence numbers come round. Packets have at
  least three bytes (`WireAssumption`; the code's have a header of 16 and more): the last of up to
  four blocks takes the remainder of the division, up to three bytes, within the rounding to
  whole packets. The minimum of parity shards is any number. The property itself excepts the blocks whose
  parity that minimum raised where the code does not keep the promise: one of more than two may
  take a block beyond 255 shards or 8 bits of percentage, and in a block of more than 100 data
  shards the percentage is rounded down.

`Parts_proofs`:

- `OneObject` (`OneObjectPerName`) for any threads, names, objects and limits. The property says
  nothing of a thread that holds a post alone, whose entry a destruction under way could take;
  `HolderInv` adds that whoever holds a post is registered with it under its name, which
  `cleanup` keeps because it looks for the expired pointer and not for the name.
- `MailTypeCorrect`: that no queue is longer than its limit needs that whoever is inside `pop()`
  still holds the post (`QueueInv`).
- `PartsAreComponents`: a behaviour of `MCParts` is, for the component it chose, a behaviour of that
  component's specification. So every theorem about a component holds of its part, which is what
  makes the one run of thirteen parts a check of each of them.
- `PartsTypeCorrect` (`PartsTypeOK`): from it and the type theorem of each component.

The invariants of `StreamSessions` were checked with TLC on the instances of `sessions` and
`sessions_faults` before they were proved, those of the others on theirs.

Model-checked only: the liveness properties (`StopReleases`, `AwaitingResolved`, `RequestReturns`,
`PendingLeaves`, `EachRuns`, `StopEnds`, `ReinitDrains`, `EncoderLeaves`), since fairness and ENABLED
are beyond the prover, and the pure functions that `MCParts` evaluates over all bounded inputs
in its `ASSUME`s. The properties that a finding refutes have no theorem, of course.

## Findings

Each is a run that ends with a counterexample, with the line of the comment it
contradicts in `PROJECT.json`:

- `PendingServed`: the control thread breaks out of its loop on what the scan saw, and a
  session listed since is served by nobody.
- `WillStopWhenLast`: the platform callbacks are not atomic with the counter, so the
  callback for the end of streaming can come after a new session began.
- `IdMatches`: the ID in the event need not be the one of the connecting session.
- `StreamingContinues`: a teardown thread that never exits keeps the display, for which
  `captureThread` waits without a limit (video.cpp:446); the comment on that thread says that it
  will allow streaming to continue.
- `RequiredModeDowngraded`: the flag of a codec's mode is cleared only where the codec is
  there, so a host told to require HEVC Main10 goes on with it on an encoder without HEVC.

Seen while modelling, and kept in the models as the code has them, without a run of their own:

- the test in front of adding relative motions is negated (input.cpp:628): motions are batched
  exactly when both sums overflow, so the sum of what arrives is not claimed (`astray`);
- `delay` of the task pool says "smaller time goes to the back" and leaves an entry that is brought
  forward where it is (task_pool.h:176); nothing calls it;
- `initialize_image_context` takes a texture for opened when its raw address is the one it knows
  (display_vram.cpp:836): if the real texture of an image gets the address of its dummy, the
  encoder goes on with the dummy's black desktop;
- a launch session's timer handler that was queued before it was cancelled discards the next launch
  session (rtsp.cpp:512);
- `input::reset` cancels a delayed release of the left button without making it, and
  releases a key by its own code and not the one it is bound to; `KeysUpAfterReset` excepts both;
- a minimum of parity shards may raise the percentage of a small block beyond the eight bits
  of `fecInfo` (stream.cpp:601): nothing bounds what the client asks for, and three with one data
  shard are enough; `ParityOfPercentage` excepts such blocks by name;
- the rotation of the speakers of a 7.1 stream reaches only the indices 3 to 5;
- an empty line that arrives in two reads is not found (rtsp.cpp:361);
- `capture_ctxs.front()` is read after the loop that may have emptied the list (video.cpp:481);
- a display opened under the empty name may be another after the next listing;
- "Failed to restore ..., deleting the file anyway" of the driver settings gives up the
  user's setting;
- a name looked up while its post is destroyed gives a null pointer (thread_safe.h:507).

## Not modelled

- Encryption of RTSP, HTTP and control messages, the text of SDP and of headers, the
  Reed-Solomon code, bitstream rewriting, colour conversion, Opus, rate control: data, or
  library calls.
- Asynchronous signal handlers, which take mutexes; the data race on the `std::thread`
  objects of a session that is joined while it starts; an event destroyed while it is
  raised; the `steady_timer` used by two threads; exceptions of address construction in
  `start`. A model would have to choose what undefined behaviour does.
- Packets in the global queues that hold a raw session pointer, and what the client sees
  after a queue was dropped: a hazard in `PROJECT.json` with its note.
- Scrolling (batched by the rule of relative motion), touch, pen and gamepad messages.
- `applist`, `appasset`, `serverinfo` beyond the codec modes; the order of RTSP commands
  within a connection, which the code does not enforce either.
- `config.cpp`, `crypto.cpp`, `logging.cpp`, `confighttp.cpp`, `network.cpp` (but for the
  encryption mode), `upnp.cpp`, `utility.h`: sequential, or without state shared with streaming.
- The parts of `platform/windows/` that wrap the system: injection of input, process start,
  service publication, QoS.

## Plan

Done: every component above that has state shared between threads, or state of the user's
to give back; the refinement of the launch slot; proofs of every safety property that a passing
run checks, and that the composition of parts is each of its components. What is left, in this order:

1. `Handlers` over `StreamSessions` and `LaunchEvent` in place of its own counters, and `Capture`
   over `Displays`: each pair meets at named actions, as the modules were cut for.
2. Gamepads: slots, the battery timers and the feedback queue.

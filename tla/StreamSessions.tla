--------------------------- MODULE StreamSessions ---------------------------
(***************************************************************************)
(* The life of the streaming sessions of the host: stream.cpp (the session *)
(* object, its audio and video threads, the control thread, the shared     *)
(* broadcast context), rtsp.cpp (the set of session slots, ANNOUNCE, the   *)
(* clean-up loop) and the three handlers of nvhttp.cpp that clear slots.   *)
(*                                                                         *)
(* Threads: rtsp::handler (ANNOUNCE and the clean-up loop), the HTTPS      *)
(* server, the thread of rtsp_stream::start (called main here, it clears   *)
(* on shutdown), stream::controlBroadcast, and one thread per session and  *)
(* kind of media.  A label of a pc names the statement the thread is about *)
(* to execute.                                                             *)
(***************************************************************************)
EXTENDS Integers, FiniteSets

CONSTANTS
  Session,     \* the session_t objects a run may allocate: bounds the ANNOUNCEs
  Peer,        \* the peer slots of the ENet host
  Kind,        \* the media threads of a session, "video" among them
  NoSession, NoPeer, NoOwner,
  MaxRequests,   \* bound: the HTTPS requests a run handles
  Faults         \* bound: which of "signal" (the host is told to end) and
                 \* "broadcast" (a broadcast thread ends) a run may see

ASSUME KindAssumption == "video" \in Kind /\ "session" \notin Kind
ASSUME BoundAssumption ==
  MaxRequests \in Nat /\ Faults \subseteq {"signal", "broadcast"}
ASSUME NoneAssumption == NoSession \notin Session /\ NoPeer \notin Peer

\* The threads that may run rtsp_server_t::clear.
Clearer == {"rtsp", "https", "main"}

ASSUME OwnerAssumption == NoOwner \notin Clearer

VARIABLES
  \* session_t
  life,          \* of the object: unborn, live or freed
  state,         \* session_t::state
  shutdownEvent, \* the session's mail::shutdown event was raised
  controlEnd,    \* session_t::controlEnd was raised
  av,            \* label of each of the session's media threads
  \* rtsp_server_t::_session_slots and its mutex
  slots, slotOwner,
  \* one activation of rtsp_server_t::clear per clearing thread
  pc, want, todo, cur,
  \* the rtsp::handler thread, and the session an ANNOUNCE is starting
  ann, annSession,
  \* the control thread
  ctl, ctlTodo, awaiting,
  \* control_server_t
  sessions,      \* _sessions
  peerOf,        \* session_t::control.peer
  peerToSession, \* _peer_to_session
  linked,        \* the peers ENet holds a connection for
  \* the shared broadcast context and mail::broadcast_shutdown
  ctx, holders, bshut,
  \* running_sessions, and the last platform callback made
  running, streaming,
  \* proc.running(), the HTTPS request in hand, mail::shutdown, the process
  appRunning, launched, httpOp, requests, shutdown, alive

sessionVars == <<life, state, shutdownEvent, controlEnd, av>>
slotVars    == <<slots, slotOwner>>
clearVars   == <<pc, want, todo, cur>>
annVars     == <<ann, annSession>>
ctlVars     == <<ctl, ctlTodo, awaiting>>
enetVars    == <<sessions, peerOf, peerToSession, linked>>
ctxVars     == <<ctx, holders, bshut>>
countVars   == <<running, streaming>>
hostVars    == <<appRunning, launched, httpOp, requests, shutdown, alive>>
vars == <<sessionVars, slotVars, clearVars, annVars, ctlVars, enetVars,
          ctxVars, countVars, hostVars>>

StateE == {"STOPPED", "STOPPING", "STARTING", "RUNNING"}
AvLabel == {"none", "begin", "ping", "capture", "done"}
ClearLabel == {"idle", "acquire", "pick", "join", "last", "erase", "ending",
               "cleared"}
AnnLabel == {"iterate", "ref", "remove", "push", "spawn", "run",
             "count", "first", "return", "ending", "cleanup", "clearing",
             "exiting", "exited"}
\* The labels at which cmd_announce has a session in hand.
Starting == {"ref", "remove", "push", "spawn", "run", "count", "first",
             "return"}
CtlLabel == {"none", "while", "scan", "check", "serve", "farewell", "exited"}

\* The references to the broadcast context: one of each started session object,
\* one of each media thread.  shared_t counts them; the model names them.
Holder == Session \X (Kind \cup {"session"})

Init ==
  /\ life = [s \in Session |-> "unborn"]
  /\ state = [s \in Session |-> "STOPPED"]
  /\ shutdownEvent = [s \in Session |-> FALSE]
  /\ controlEnd = [s \in Session |-> FALSE]
  /\ av = [s \in Session |-> [k \in Kind |-> "none"]]
  /\ slots = {} /\ slotOwner = NoOwner
  /\ pc = [c \in Clearer |-> "idle"] /\ want = [c \in Clearer |-> FALSE]
  /\ todo = [c \in Clearer |-> {}] /\ cur = [c \in Clearer |-> NoSession]
  /\ ann = "iterate" /\ annSession = NoSession
  /\ ctl = "none" /\ ctlTodo = {} /\ awaiting = FALSE
  /\ sessions = {} /\ peerOf = [s \in Session |-> NoPeer]
  /\ peerToSession = [p \in Peer |-> NoSession] /\ linked = {}
  /\ ctx = "down" /\ holders = {} /\ bshut = FALSE
  /\ running = 0 /\ streaming = FALSE
  /\ appRunning = FALSE /\ launched = FALSE /\ httpOp = "none"
  /\ requests = 0 /\ shutdown = FALSE /\ alive = TRUE

----------------------------------------------------------------------------
(* session::stop, as the effect it has inside the step of its caller.      *)

\* Altered form: STOPPING is stored whatever the state was.
StopUnconditional(s) ==
  /\ state[s] # "STARTING"
  /\ state' = [state EXCEPT ![s] = "STOPPING"]
  /\ shutdownEvent' = [shutdownEvent EXCEPT ![s] = TRUE]

\* Altered form: the media threads are not told.
StopSilently(s) ==
  /\ state[s] # "STARTING"
  /\ state' = [state EXCEPT ![s] = IF @ = "RUNNING" THEN "STOPPING" ELSE @]
  /\ UNCHANGED shutdownEvent

\* Nothing ever stores STARTING, so while_starting_do_nothing lets every
\* caller through; only a RUNNING session is moved to STOPPING.
Stop(s) ==
  /\ state[s] # "STARTING"
  /\ IF state[s] = "RUNNING"
       THEN /\ state' = [state EXCEPT ![s] = "STOPPING"]
            /\ shutdownEvent' = [shutdownEvent EXCEPT ![s] = TRUE]
       ELSE UNCHANGED <<state, shutdownEvent>>

\* Altered form: end_broadcast also runs for a session that got no reference.
FreeEnds(s) ==
  /\ life' = [life EXCEPT ![s] = "freed"]
  /\ holders' = holders \ {<<s, "session">>}
  /\ IF holders' = {} THEN ctx' = "ending" /\ bshut' = TRUE
                      ELSE UNCHANGED <<ctx, bshut>>

\* ~session_t: the broadcast reference goes with the object; the release of the
\* last reference enters end_broadcast, which raises broadcast_shutdown.
Free(s) ==
  /\ life' = [life EXCEPT ![s] = "freed"]
  /\ holders' = holders \ {<<s, "session">>}
  /\ IF holders = {<<s, "session">>}
       THEN ctx' = "ending" /\ bshut' = TRUE
       ELSE UNCHANGED <<ctx, bshut>>

\* Altered form: the new context would inherit the connections of the old one.
TearDownKeepsPeers ==
  /\ ctl = "exited"
  /\ ctl' = "none" /\ ctx' = "down" /\ bshut' = FALSE
  /\ sessions' = {} /\ UNCHANGED linked
  /\ peerToSession' = [p \in Peer |-> NoSession]

\* The rest of end_broadcast: the control thread is joined (the other three
\* broadcast threads have no part in this module), the event is reset and the
\* context with its control server destroyed.
TearDown ==
  /\ ctl = "exited"
  /\ ctl' = "none" /\ ctx' = "down" /\ bshut' = FALSE
  /\ sessions' = {} /\ linked' = {}
  /\ peerToSession' = [p \in Peer |-> NoSession]

----------------------------------------------------------------------------
(* rtsp_server_t::clear, run by any of the three clearing threads.         *)

At(c, label) == alive /\ pc[c] = label

Goto(c, label) == pc' = [pc EXCEPT ![c] = label]

\* Altered form: the mutex of the slots stays locked.
KeepLocked == UNCHANGED slotOwner

Unlock == slotOwner' = NoOwner

\* A call of clear(all).
BeginClear(c, all) ==
  /\ pc[c] = "idle"
  /\ Goto(c, "acquire")
  /\ want' = [want EXCEPT ![c] = all]
  /\ UNCHANGED <<todo, cur>>

ClearAcquire(c) ==
  /\ At(c, "acquire") /\ slotOwner = NoOwner
  /\ slotOwner' = c
  /\ todo' = [todo EXCEPT ![c] = slots]
  /\ Goto(c, "pick")
  /\ UNCHANGED <<sessionVars, slots, want, cur, annVars, ctlVars, enetVars,
                 ctxVars, countVars, hostVars>>

ClearSkip(c, s) ==
  /\ At(c, "pick") /\ s \in todo[c]
  /\ ~want[c] /\ state[s] # "STOPPING"
  /\ todo' = [todo EXCEPT ![c] = @ \ {s}]
  /\ UNCHANGED <<sessionVars, slotVars, pc, want, cur, annVars, ctlVars,
                 enetVars, ctxVars, countVars, hostVars>>

ClearStop(c, s) ==
  /\ At(c, "pick") /\ s \in todo[c]
  /\ want[c] \/ state[s] = "STOPPING"
  /\ Stop(s)
  /\ todo' = [todo EXCEPT ![c] = @ \ {s}]
  /\ cur' = [cur EXCEPT ![c] = s]
  /\ Goto(c, "join")
  /\ UNCHANGED <<life, controlEnd, av, slotVars, want, annVars,
                 ctlVars, enetVars, ctxVars, countVars, hostVars>>

\* Altered forms: join forgets the control thread, or the audio thread.
JoinableBeforeControl(s) == \A k \in Kind : av[s][k] = "done"
JoinableByVideo(s) == av[s]["video"] = "done" /\ controlEnd[s]

\* session::join returns once both media threads and the control thread are
\* done with the session.
Joinable(s) == (\A k \in Kind : av[s][k] = "done") /\ controlEnd[s]

\* Altered form: a join is not counted.
ClearJoinUncounted(c) ==
  /\ At(c, "join") /\ Joinable(cur[c])
  /\ Goto(c, "erase")
  /\ UNCHANGED <<sessionVars, slotVars, want, todo, cur, annVars, ctlVars,
                 enetVars, ctxVars, countVars, hostVars>>

ClearJoin(c) ==
  /\ At(c, "join") /\ Joinable(cur[c])
  /\ running' = running - 1
  /\ Goto(c, IF running = 1 THEN "last" ELSE "erase")
  /\ UNCHANGED <<sessionVars, slotVars, want, todo, cur, annVars, ctlVars,
                 enetVars, ctxVars, streaming, hostVars>>

\* videoThread is joined first; joining a std::thread that start() has not
\* assigned yet throws.  The HTTPS server catches what a handler throws, the
\* other two threads do not and the process terminates.
ClearJoinThrows(c) ==
  /\ At(c, "join") /\ av[cur[c]]["video"] = "none"
  /\ Unlock
  /\ todo' = [todo EXCEPT ![c] = {}]
  /\ cur' = [cur EXCEPT ![c] = NoSession]
  /\ want' = [want EXCEPT ![c] = FALSE]
  /\ Goto(c, "idle")
  /\ IF c = "https" THEN httpOp' = "none" /\ UNCHANGED alive
                    ELSE alive' = FALSE /\ UNCHANGED httpOp
  /\ UNCHANGED <<sessionVars, slots, annVars, ctlVars, enetVars, ctxVars,
                 countVars, appRunning, launched, requests, shutdown>>

\* The task join() pushed kills the process when join() takes ten seconds.
HangKill(c) ==
  /\ At(c, "join") /\ ~Joinable(cur[c]) /\ av[cur[c]]["video"] # "none"
  /\ alive' = FALSE
  /\ UNCHANGED <<sessionVars, slotVars, clearVars, annVars, ctlVars, enetVars,
                 ctxVars, countVars, appRunning, launched, httpOp, requests,
                 shutdown>>

\* platf::streaming_will_stop, after the counter was seen at zero.
ClearLast(c) ==
  /\ At(c, "last")
  /\ streaming' = FALSE
  /\ Goto(c, "erase")
  /\ UNCHANGED <<sessionVars, slotVars, want, todo, cur, annVars, ctlVars,
                 enetVars, ctxVars, running, hostVars>>

\* The slot's reference is the last one unless cmd_announce still holds its own.
ClearErase(c) ==
  /\ At(c, "erase")
  /\ slots' = slots \ {cur[c]}
  /\ IF annSession = cur[c]
       THEN Goto(c, "pick") /\ UNCHANGED <<life, ctxVars>>
       ELSE /\ Free(cur[c])
            /\ Goto(c, IF holders = {<<cur[c], "session">>} THEN "ending"
                                                            ELSE "pick")
  /\ cur' = [cur EXCEPT ![c] = NoSession]
  /\ UNCHANGED <<state, shutdownEvent, controlEnd, av, slotOwner, want,
                 todo, annVars, ctlVars, enetVars, countVars, hostVars>>

ClearEndBroadcast(c) ==
  /\ At(c, "ending")
  /\ TearDown
  /\ Goto(c, "pick")
  /\ UNCHANGED <<sessionVars, slotVars, want, todo, cur, annVars, ctlTodo,
                 awaiting, peerOf, holders, countVars, hostVars>>

ClearDone(c) ==
  /\ At(c, "pick") /\ todo[c] = {}
  /\ Unlock
  /\ want' = [want EXCEPT ![c] = FALSE]
  /\ Goto(c, "cleared")
  /\ UNCHANGED <<sessionVars, slots, todo, cur, annVars, ctlVars, enetVars,
                 ctxVars, countVars, hostVars>>

Clear(c) ==
  \/ ClearAcquire(c) \/ ClearJoin(c) \/ ClearJoinThrows(c) \/ ClearLast(c)
  \/ ClearErase(c) \/ ClearEndBroadcast(c) \/ ClearDone(c)
  \/ \E s \in Session : ClearSkip(c, s) \/ ClearStop(c, s)

----------------------------------------------------------------------------
(* The rtsp::handler thread: the server loop and cmd_announce.             *)

AnnAt(label) == alive /\ ann = label

\* iterate() returned: it ran one handler (an ANNOUNCE ends at cleanup), its 500 ms
\* are over, or the io_context was stopped.  Then clear() when the broadcast shuts
\* down, else clear(false).
RtspCleanup ==
  /\ alive /\ ann \in {"iterate", "cleanup"}
  /\ BeginClear("rtsp", bshut)
  /\ ann' = "clearing"
  /\ UNCHANGED <<sessionVars, slotVars, annSession, ctlVars, enetVars, ctxVars,
                 countVars, hostVars>>

\* The loop condition; after the loop clear() runs once more.
RtspLoop ==
  /\ AnnAt("clearing") /\ pc["rtsp"] = "cleared"
  /\ IF shutdown
       THEN ann' = "exiting" /\ Goto("rtsp", "acquire")
            /\ want' = [want EXCEPT !["rtsp"] = TRUE]
       ELSE ann' = "iterate" /\ Goto("rtsp", "idle") /\ UNCHANGED want
  /\ UNCHANGED <<sessionVars, slotVars, todo, cur, annSession, ctlVars, enetVars,
                 ctxVars, countVars, hostVars>>

RtspExit ==
  /\ AnnAt("exiting") /\ pc["rtsp"] = "cleared"
  /\ ann' = "exited"
  /\ UNCHANGED <<sessionVars, slotVars, clearVars, annSession, ctlVars, enetVars,
                 ctxVars, countVars, hostVars>>

\* cmd_announce: alloc, then insert.
AnnInsert(s) ==
  /\ AnnAt("iterate") /\ launched /\ life[s] = "unborn" /\ slotOwner = NoOwner
  /\ life' = [life EXCEPT ![s] = "live"]
  /\ state' = [state EXCEPT ![s] = "STOPPED"]
  /\ slots' = slots \cup {s}
  /\ annSession' = s
  /\ ann' = "ref"
  /\ UNCHANGED <<shutdownEvent, controlEnd, av, slotOwner, clearVars,
                 ctlVars, enetVars, ctxVars, countVars, hostVars>>

\* session::start takes a reference: start_broadcast runs when it is the first.
\* The mutex of shared_t is held through end_broadcast.
AnnRef ==
  /\ AnnAt("ref") /\ ctx # "ending"
  /\ holders' = holders \cup {<<annSession, "session">>}
  /\ ctx' = "up"
  /\ ctl' = IF ctx = "down" THEN "while" ELSE ctl
  /\ ann' = "push"
  /\ UNCHANGED <<sessionVars, slotVars, clearVars, annSession, ctlTodo, awaiting,
                 enetVars, bshut, countVars, hostVars>>

\* start_broadcast failed, so start() returned -1.
AnnRefFails ==
  /\ AnnAt("ref") /\ ctx = "down"
  /\ ann' = "remove"
  /\ UNCHANGED <<sessionVars, slotVars, clearVars, annSession, ctlVars, enetVars,
                 ctxVars, countVars, hostVars>>

AnnRemove ==
  /\ AnnAt("remove") /\ slotOwner = NoOwner
  /\ slots' = slots \ {annSession}
  /\ ann' = "return"
  /\ UNCHANGED <<sessionVars, slotOwner, clearVars, annSession, ctlVars, enetVars,
                 ctxVars, countVars, hostVars>>

\* The mutex of _sessions is held by the control thread while it scans.
AnnPush ==
  /\ AnnAt("push") /\ ctl \notin {"scan", "farewell"}
  /\ sessions' = sessions \cup {annSession}
  /\ ann' = "spawn"
  /\ UNCHANGED <<sessionVars, slotVars, clearVars, annSession, ctlVars, peerOf,
                 peerToSession, linked, ctxVars, countVars, hostVars>>

\* The video thread is started last.
AnnSpawn(k) ==
  /\ AnnAt("spawn") /\ av[annSession][k] = "none"
  /\ k = "video" => \A j \in Kind \ {k} : av[annSession][j] # "none"
  /\ av' = [av EXCEPT ![annSession][k] = "begin"]
  /\ ann' = IF k = "video" THEN "run" ELSE "spawn"
  /\ UNCHANGED <<life, state, shutdownEvent, controlEnd, slotVars,
                 clearVars, annSession, ctlVars, enetVars, ctxVars, countVars,
                 hostVars>>

AnnRun ==
  /\ AnnAt("run")
  /\ state' = [state EXCEPT ![annSession] = "RUNNING"]
  /\ ann' = "count"
  /\ UNCHANGED <<life, shutdownEvent, controlEnd, av, slotVars,
                 clearVars, annSession, ctlVars, enetVars, ctxVars, countVars,
                 hostVars>>

AnnCount ==
  /\ AnnAt("count")
  /\ running' = running + 1
  /\ ann' = IF running = 0 THEN "first" ELSE "return"
  /\ UNCHANGED <<sessionVars, slotVars, clearVars, annSession, ctlVars, enetVars,
                 ctxVars, streaming, hostVars>>

\* platf::streaming_will_start, after the counter was seen at one.
AnnFirst ==
  /\ AnnAt("first")
  /\ streaming' = TRUE
  /\ ann' = "return"
  /\ UNCHANGED <<sessionVars, slotVars, clearVars, annSession, ctlVars, enetVars,
                 ctxVars, running, hostVars>>

\* The handler returns and drops its reference to the session.
AnnReturn ==
  /\ AnnAt("return")
  /\ annSession' = NoSession
  /\ IF annSession \in slots
       THEN ann' = "cleanup" /\ UNCHANGED <<life, ctxVars>>
       ELSE /\ Free(annSession)
            /\ ann' = IF holders = {<<annSession, "session">>} THEN "ending"
                                                               ELSE "cleanup"
  /\ UNCHANGED <<state, shutdownEvent, controlEnd, av, slotVars, clearVars,
                 ctlVars, enetVars, countVars, hostVars>>

AnnEndBroadcast ==
  /\ AnnAt("ending")
  /\ TearDown
  /\ ann' = "cleanup"
  /\ UNCHANGED <<sessionVars, slotVars, clearVars, annSession, ctlTodo, awaiting,
                 peerOf, holders, countVars, hostVars>>

\* The thread's steps that are not a client's choice.
Rtsp ==
  \/ RtspLoop \/ RtspExit \/ AnnRef \/ AnnRefFails \/ AnnRemove
  \/ AnnPush \/ AnnRun \/ AnnCount \/ AnnFirst \/ AnnReturn
  \/ AnnEndBroadcast
  \/ \E k \in Kind : AnnSpawn(k)

----------------------------------------------------------------------------
(* controlBroadcastThread.                                                 *)

CtlAt(label) == alive /\ ctl = label

Quit == shutdown \/ bshut

\* The loop condition; the scan takes the mutex of _sessions.
CtlLoop ==
  /\ CtlAt("while")
  /\ ctl' = IF Quit THEN "farewell" ELSE "scan"
  /\ ctlTodo' = sessions
  /\ awaiting' = FALSE
  /\ UNCHANGED <<sessionVars, slotVars, clearVars, annVars, enetVars, ctxVars,
                 countVars, hostVars>>

\* Altered form: the ping timeout is not looked at.
LeavingStopped(s, late) == state[s] = "STOPPING"

\* One session of the scan.  `late` says that its pingTimeout has passed: every
\* event of its peer moves the timeout on, so time is a choice of the scan.  (Before
\* start() sets pingTimeout it is the epoch, and the session is STOPPED.)
Leaving(s, late) == state[s] = "STOPPING" \/ (late /\ state[s] = "RUNNING")

\* Altered form: the peer stays mapped.
UnmapLinkOnly(s) == linked' = linked \ {peerOf[s]} /\ UNCHANGED peerToSession

Unmap(s) ==
  /\ peerToSession' = [p \in Peer |-> IF p = peerOf[s] THEN NoSession
                                                       ELSE peerToSession[p]]
  /\ linked' = linked \ {peerOf[s]}

\* A session that has to leave is dropped from the list and from the peer map,
\* its peer is disconnected and its controlEnd raised.
CtlScanDrop(s, late) ==
  /\ CtlAt("scan") /\ ~Quit /\ s \in ctlTodo
  /\ Leaving(s, late)
  /\ IF late THEN Stop(s) ELSE UNCHANGED <<state, shutdownEvent>>
  /\ ctlTodo' = ctlTodo \ {s}
  /\ sessions' = sessions \ {s}
  /\ Unmap(s)
  /\ controlEnd' = [controlEnd EXCEPT ![s] = TRUE]
  /\ UNCHANGED <<life, av, slotVars, clearVars, annVars, ctl, awaiting,
                 peerOf, ctxVars, countVars, hostVars>>

\* Otherwise it stays, a stop that found it neither RUNNING nor STOPPING included.
CtlScanKeep(s, late) ==
  /\ CtlAt("scan") /\ ~Quit /\ s \in ctlTodo
  /\ ~Leaving(s, late)
  /\ ctlTodo' = ctlTodo \ {s}
  /\ awaiting' = (awaiting \/ peerOf[s] = NoPeer)
  /\ UNCHANGED <<sessionVars, slotVars, clearVars, annVars, ctl, enetVars,
                 ctxVars, countVars, hostVars>>

CtlScanEnd ==
  /\ CtlAt("scan") /\ (ctlTodo = {} \/ Quit)
  /\ ctl' = "check"
  /\ ctlTodo' = {}
  /\ UNCHANGED <<sessionVars, slotVars, clearVars, annVars, awaiting, enetVars,
                 ctxVars, countVars, hostVars>>

\* No app and, when the scan was made, no session awaiting its peer: break.
CtlCheck ==
  /\ CtlAt("check")
  /\ IF ~appRunning /\ ~awaiting
       THEN ctl' = "farewell" /\ ctlTodo' = sessions
       ELSE ctl' = "serve" /\ UNCHANGED ctlTodo
  /\ awaiting' = FALSE
  /\ UNCHANGED <<sessionVars, slotVars, clearVars, annVars, enetVars, ctxVars,
                 countVars, hostVars>>

\* iterate(150ms): nothing came, or a connection no session waits for.
CtlIdle ==
  /\ CtlAt("serve")
  /\ ctl' = "while"
  /\ UNCHANGED <<sessionVars, slotVars, clearVars, annVars, ctlTodo, awaiting,
                 enetVars, ctxVars, countVars, hostVars>>

\* get_session finds a session for a connecting peer: the one an earlier
\* connection of the same peer slot was mapped to, else one without a peer.
CtlConnect(p, s) ==
  /\ CtlAt("serve") /\ p \notin linked
  /\ IF peerToSession[p] # NoSession
       THEN s = peerToSession[p] /\ UNCHANGED <<peerOf, peerToSession>>
       ELSE /\ s \in sessions /\ peerOf[s] = NoPeer
            /\ peerOf' = [peerOf EXCEPT ![s] = p]
            /\ peerToSession' = [peerToSession EXCEPT ![p] = s]
  /\ linked' = linked \cup {p}
  /\ ctl' = "while"
  /\ UNCHANGED <<life, state, shutdownEvent, controlEnd, av, slotVars, clearVars,
                 annVars, ctlTodo, awaiting, sessions, ctxVars, countVars,
                 hostVars>>

\* A message of a connected peer; the handlers stop the session when it cannot be
\* decrypted.
CtlReceive(p, bad) ==
  /\ CtlAt("serve") /\ p \in linked
  /\ LET s == peerToSession[p]
     IN  IF bad THEN Stop(s) ELSE UNCHANGED <<state, shutdownEvent>>
  /\ ctl' = "while"
  /\ UNCHANGED <<life, controlEnd, av, slotVars, clearVars, annVars, ctlTodo,
                 awaiting, enetVars, ctxVars, countVars, hostVars>>

\* ENet frees the peer slot; only a RUNNING session is stopped.
CtlDisconnect(p) ==
  /\ CtlAt("serve") /\ p \in linked
  /\ linked' = linked \ {p}
  /\ LET s == peerToSession[p]
     IN  IF state[s] = "RUNNING" THEN Stop(s)
                                 ELSE UNCHANGED <<state, shutdownEvent>>
  /\ ctl' = "while"
  /\ UNCHANGED <<life, controlEnd, av, slotVars, clearVars, annVars, ctlTodo,
                 awaiting, sessions, peerOf, peerToSession, ctxVars, countVars,
                 hostVars>>

\* After the loop: every session still listed is told, and stays listed.
CtlFarewell(s) ==
  /\ CtlAt("farewell") /\ s \in ctlTodo
  /\ ctlTodo' = ctlTodo \ {s}
  /\ shutdownEvent' = [shutdownEvent EXCEPT ![s] = TRUE]
  /\ controlEnd' = [controlEnd EXCEPT ![s] = TRUE]
  /\ UNCHANGED <<life, state, av, slotVars, clearVars, annVars, ctl,
                 awaiting, enetVars, ctxVars, countVars, hostVars>>

CtlExit ==
  /\ CtlAt("farewell") /\ ctlTodo = {}
  /\ ctl' = "exited"
  /\ UNCHANGED <<sessionVars, slotVars, clearVars, annVars, ctlTodo, awaiting,
                 enetVars, ctxVars, countVars, hostVars>>

\* The thread's steps that are not a client's choice.
Control ==
  \/ CtlLoop \/ CtlScanEnd \/ CtlCheck \/ CtlIdle \/ CtlExit
  \/ \E s \in Session : \/ CtlFarewell(s)
                       \/ \E late \in BOOLEAN : CtlScanDrop(s, late)
                                               \/ CtlScanKeep(s, late)

----------------------------------------------------------------------------
(* videoThread and audioThread.                                            *)

AvAt(s, k, label) == alive /\ av[s][k] = label

AvMove(s, k, label) ==
  /\ av' = [av EXCEPT ![s][k] = label]
  /\ UNCHANGED <<life, controlEnd, slotVars, clearVars, annVars,
                 ctlVars, enetVars, ctx, bshut, countVars, hostVars>>

\* The thread takes its own reference to the context.
AvBegin(s, k) ==
  /\ AvAt(s, k, "begin") /\ state[s] # "STARTING" /\ ctx = "up"
  /\ holders' = holders \cup {<<s, k>>}
  /\ AvMove(s, k, "ping")
  /\ UNCHANGED <<state, shutdownEvent>>

\* recv_ping got the client's ping.
AvPing(s, k) ==
  /\ AvAt(s, k, "ping")
  /\ AvMove(s, k, "capture")
  /\ UNCHANGED <<state, shutdownEvent, holders>>

\* The thread returns: its reference goes (the session's own is still there),
\* then the guard declared first stops the session.
AvLeave(s, k) ==
  /\ holders' = holders \ {<<s, k>>}
  /\ Stop(s)
  /\ AvMove(s, k, "done")

AvPingTimeout(s, k) == AvAt(s, k, "ping") /\ AvLeave(s, k)

AvShutdown(s, k) == AvAt(s, k, "capture") /\ shutdownEvent[s] /\ AvLeave(s, k)

\* The capture ended by itself: no encoder, no display, no audio context.
AvFail(s, k) == AvAt(s, k, "capture") /\ ~shutdownEvent[s] /\ AvLeave(s, k)

----------------------------------------------------------------------------
(* The HTTPS handlers launch, resume and cancel, and the rest of the host. *)

Http(op, all) ==
  /\ alive /\ httpOp = "none" /\ requests < MaxRequests
  /\ requests' = requests + 1
  /\ BeginClear("https", all)
  /\ httpOp' = op
  /\ UNCHANGED <<sessionVars, slotVars, annVars, ctlVars, enetVars, ctxVars,
                 countVars, appRunning, launched, shutdown, alive>>

HttpLaunch == ~appRunning /\ Http("launch", FALSE)
HttpResume == appRunning /\ Http("resume", FALSE)
HttpCancel == Http("cancel", TRUE)

HttpReturn(op) ==
  /\ alive /\ httpOp = op /\ pc["https"] = "cleared"
  /\ Goto("https", "idle")
  /\ httpOp' = "none"
  /\ UNCHANGED <<sessionVars, slotVars, want, todo, cur, annVars, ctlVars,
                 enetVars, ctxVars, countVars, requests, shutdown, alive>>

\* appid 0 streams without an app.
HttpLaunched(app) ==
  HttpReturn("launch") /\ appRunning' = app /\ launched' = TRUE

HttpResumed == HttpReturn("resume") /\ launched' = TRUE /\ UNCHANGED appRunning

\* The encoder probe, the encryption check or the app failed.
HttpFailed(op) == HttpReturn(op) /\ UNCHANGED <<appRunning, launched>>

HttpCancelled == HttpReturn("cancel") /\ appRunning' = FALSE /\ UNCHANGED launched

HttpReturns ==
  \/ \E app \in BOOLEAN : HttpLaunched(app)
  \/ HttpResumed \/ HttpCancelled
  \/ \E op \in {"launch", "resume"} : HttpFailed(op)

\* rtsp_stream::start was waiting for mail::shutdown: server.stop() clears.
MainStop ==
  /\ alive /\ shutdown
  /\ BeginClear("main", TRUE)
  /\ UNCHANGED <<sessionVars, slotVars, annVars, ctlVars, enetVars, ctxVars,
                 countVars, hostVars>>

\* The video or audio broadcast thread ended and raised broadcast_shutdown.
BroadcastFail ==
  /\ alive /\ "broadcast" \in Faults /\ ctx = "up" /\ ~bshut
  /\ bshut' = TRUE
  /\ UNCHANGED <<sessionVars, slotVars, clearVars, annVars, ctlVars, enetVars,
                 ctx, holders, countVars, hostVars>>

Shutdown ==
  /\ alive /\ "signal" \in Faults /\ ~shutdown
  /\ shutdown' = TRUE
  /\ UNCHANGED <<sessionVars, slotVars, clearVars, annVars, ctlVars, enetVars,
                 ctxVars, countVars, appRunning, launched, httpOp, requests, alive>>

\* The process is gone, or both clearing loops have ended after a shutdown.
Terminated ==
  /\ ~alive \/ (ann = "exited" /\ pc["main"] = "cleared")
  /\ UNCHANGED vars

Next ==
  \/ \E c \in Clearer : Clear(c) \/ HangKill(c)
  \/ Rtsp \/ RtspCleanup \/ (\E s \in Session : AnnInsert(s))
  \/ Control
  \/ \E p \in Peer : \/ \E s \in Session : CtlConnect(p, s)
                     \/ \E bad \in BOOLEAN : CtlReceive(p, bad)
                     \/ CtlDisconnect(p)
  \/ \E s \in Session, k \in Kind :
       AvBegin(s, k) \/ AvPing(s, k) \/ AvPingTimeout(s, k) \/ AvShutdown(s, k)
       \/ AvFail(s, k)
  \/ HttpLaunch \/ HttpResume \/ HttpCancel
  \/ HttpReturns
  \/ MainStop \/ BroadcastFail \/ Shutdown
  \/ Terminated

Spec == Init /\ [][Next]_vars

\* What the scheduler and the timeouts of the code grant: a thread that can move
\* does, and gets a mutex that is free again and again; iterate() returns by itself
\* only while there are sessions, or once the io_context is stopped; recv_ping
\* gives up after ping_timeout; a session without a peer is seen late by some scan.
\* Clients, captures and HTTPS requests owe nothing.
Fairness ==
  /\ SF_vars(Rtsp \/ Clear("rtsp"))
  /\ WF_vars(RtspCleanup /\ (slots # {} \/ shutdown \/ ann = "cleanup"))
  /\ SF_vars(HttpReturns \/ Clear("https"))
  /\ SF_vars(MainStop \/ Clear("main"))
  /\ WF_vars(Control)
  /\ \A s \in Session : SF_vars(peerOf[s] = NoPeer /\ CtlScanDrop(s, TRUE))
  /\ \A s \in Session, k \in Kind :
       WF_vars(AvBegin(s, k) \/ AvPingTimeout(s, k) \/ AvShutdown(s, k))

FairSpec == Spec /\ Fairness

----------------------------------------------------------------------------
(* Properties.                                                             *)

SessionType ==
  /\ life \in [Session -> {"unborn", "live", "freed"}]
  /\ state \in [Session -> StateE]
  /\ shutdownEvent \in [Session -> BOOLEAN]
  /\ controlEnd \in [Session -> BOOLEAN]
  /\ av \in [Session -> [Kind -> AvLabel]]

SlotType == slots \subseteq Session /\ slotOwner \in Clearer \cup {NoOwner}

ClearerType ==
  /\ pc \in [Clearer -> ClearLabel] /\ want \in [Clearer -> BOOLEAN]
  /\ todo \in [Clearer -> SUBSET Session]
  /\ cur \in [Clearer -> Session \cup {NoSession}]
  /\ \A c \in Clearer : pc[c] \in {"join", "last", "erase"} => cur[c] # NoSession

AnnType ==
  /\ ann \in AnnLabel /\ annSession \in Session \cup {NoSession}
  /\ ann \in Starting => annSession # NoSession

CtlType == ctl \in CtlLabel /\ ctlTodo \subseteq Session /\ awaiting \in BOOLEAN

EnetType ==
  /\ sessions \subseteq Session
  /\ peerOf \in [Session -> Peer \cup {NoPeer}]
  /\ peerToSession \in [Peer -> Session \cup {NoSession}]
  /\ linked \subseteq Peer
  /\ \A p \in linked : peerToSession[p] # NoSession

CtxType ==
  /\ ctx \in {"down", "up", "ending"} /\ holders \subseteq Holder
  /\ bshut \in BOOLEAN

CountType == running \in Int /\ streaming \in BOOLEAN

HostType ==
  /\ appRunning \in BOOLEAN /\ launched \in BOOLEAN
  /\ httpOp \in {"none", "launch", "resume", "cancel"}
  /\ requests \in Nat /\ shutdown \in BOOLEAN /\ alive \in BOOLEAN

\* The variables keep their types, the thread that starts a session or joins one
\* has it in hand, and a connected peer is mapped to a session.
TypeOK ==
  /\ SessionType /\ SlotType /\ ClearerType /\ AnnType /\ CtlType
  /\ EnetType /\ CtxType /\ CountType /\ HostType

\* No thread reaches a freed session: its media threads have returned, it has no
\* slot, and the control thread, while it runs, has it neither in its list, nor
\* in the rest of a scan, nor in the peer map.
NoUseAfterFree ==
  \A s \in Session : life[s] = "freed" =>
    /\ \A k \in Kind : av[s][k] \in {"none", "done"}
    /\ s \notin slots
    /\ ctl \notin {"none", "exited"} =>
         /\ s \notin ctlTodo
         /\ ctl # "farewell" => s \notin sessions
         /\ \A p \in Peer : peerToSession[p] = s => ctl = "farewell"

\* A mapped peer is the peer of a listed session, and the peer of a listed session is
\* mapped to it, so that an event finds its session and no other.
PeerMapSound ==
  /\ \A p \in Peer : peerToSession[p] # NoSession =>
       peerToSession[p] \in sessions /\ peerOf[peerToSession[p]] = p
  /\ \A s \in sessions : peerOf[s] # NoPeer => peerToSession[peerOf[s]] = s

\* The broadcast context is up exactly while somebody holds it, and every media
\* thread that pings or captures finds it up.
ContextHeld ==
  /\ (ctx = "up") = (holders # {})
  /\ \A s \in Session, k \in Kind :
       av[s][k] \in {"begin", "ping", "capture"} => ctx = "up"
  /\ (ctl = "none") = (ctx = "down")

\* A stop is final: start() stores RUNNING plainly, and still never revives a
\* session that was stopped.
StopIsFinal ==
  [][\A s \in Session : state[s] = "STOPPING" => state'[s] = "STOPPING"]_vars

\* running_sessions is the number of slots whenever no session is being started
\* and none is being removed.
CountMatchesSlots ==
  slotOwner = NoOwner /\ annSession = NoSession => running = Cardinality(slots)

\* controlBroadcastThread: "Don't break until any pending sessions either expire
\* or connect": no session is left listed by a control thread that broke out of
\* its loop without having been told.
PendingServed ==
  ctl = "exited" /\ ~shutdown /\ ~bshut => \A s \in sessions : controlEnd[s]

\* join(): "If this is the last session, invoke the platform callbacks": the
\* platform is told that streaming stops only while no started session streams.
WillStopWhenLast ==
  [][streaming /\ ~streaming' =>
       \A s \in Session :
         state[s] = "RUNNING" /\ av[s]["video"] # "done" => annSession = s]_vars

\* A join that only the watchdog ends: of a session the control thread exited
\* without telling, or of one whose stop was lost.
StuckJoin ==
  \E c \in Clearer :
    /\ pc[c] = "join"
    /\ \/ state[cur[c]] # "STOPPING"
       \/ ctl = "exited" /\ ~controlEnd[cur[c]]

\* A session that was stopped is joined and freed, unless the process dies first
\* or a stuck join holds the slots.
StopReleases ==
  \A s \in Session : state[s] = "STOPPING" ~> life[s] = "freed" \/ ~alive \/ StuckJoin

\* A session whose client never connects its control stream is dropped: it gets a
\* peer or leaves the list, as long as a control thread runs.
AwaitingResolved ==
  \A s \in Session :
    (s \in sessions /\ state[s] = "RUNNING" /\ peerOf[s] = NoPeer)
      ~> (peerOf[s] # NoPeer \/ s \notin sessions \/ ctl = "exited" \/ ~alive)

\* Every HTTPS request that clears slots returns, with the same exceptions.
RequestReturns == httpOp # "none" ~> httpOp = "none" \/ ~alive \/ StuckJoin
=============================================================================

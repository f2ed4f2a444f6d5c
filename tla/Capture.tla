------------------------------- MODULE Capture -------------------------------
(***************************************************************************)
(* Video capture of video.cpp: one capture thread shared by the encoding   *)
(* threads of all sessions.                                                *)
(*                                                                         *)
(*  - an encoding thread (capture_async, encode_run) takes a reference to  *)
(*    the capture context, hands its image event to the capture thread,    *)
(*    locks the display and encodes until its session ends, its image      *)
(*    event is stopped or the display is reinitialised; the session of the *)
(*    encoder is torn down on a detached thread;                           *)
(*  - the capture thread (captureThread) lives while there are references: *)
(*    it owns the display, gives every frame to the image events, and on   *)
(*    reinitialisation waits until nobody else holds the display before it *)
(*    makes another.                                                       *)
(*                                                                         *)
(* A display is the number of its creation.  The encoder session keeps the *)
(* display alive as d3d_base_encode_device does.                           *)
(***************************************************************************)
EXTENDS Integers, Sequences, SequencesExt

CONSTANTS Encoder,      \* encoding threads: one per session
          MaxDisplays   \* displays a run may make: bounds the reinitialisations

ASSUME CaptureAssumption == MaxDisplays \in Nat \ {0} /\ "none" \notin Encoder

VARIABLES
  capPc,       \* label of the capture thread
  capQueue,    \* capture_ctx_queue: contexts not seen by the capture thread
  capRunning,  \* capture_ctx_queue->running()
  capCtxs,     \* capture_ctxs
  capDisp,     \* disp of the capture thread, 0 for none
  capWp,       \* display_wp
  capReinit,   \* reinit_event
  capMade,     \* displays made so far
  capRefs,     \* holders of a reference to capture_thread_async
  capLock,     \* the encoding thread that joins with the lock of shared_t held
  encPc,       \* label of each encoding thread
  encDisp,     \* the display an encoding thread (or its encoder) holds
  encImages,   \* its image event: running, and an image in it
  encFrames,   \* it has encoded a frame: frame_nr > 1
  encShut,     \* its shutdown event
  tearDown     \* displays that encoder sessions on teardown threads hold

captureVars == <<capPc, capQueue, capRunning, capCtxs, capDisp, capWp,
                 capReinit, capMade>>
capRefVars     == <<capRefs, capLock>>
encVars     == <<encPc, encDisp, encImages, encFrames, encShut, tearDown>>
capVars     == <<captureVars, capRefVars, encVars>>

NoEncoder == "none"
Fresh     == [running |-> TRUE, image |-> FALSE]
Stopped(images) == [images EXCEPT !.running = FALSE]

CapInit ==
  /\ capPc = "none" /\ capQueue = <<>> /\ capRunning = FALSE /\ capCtxs = {}
  /\ capDisp = 0 /\ capWp = 0 /\ capReinit = FALSE /\ capMade = 0
  /\ capRefs = {} /\ capLock = NoEncoder
  /\ encPc = [e \in Encoder |-> "new"] /\ encDisp = [e \in Encoder |-> 0]
  /\ encImages = [e \in Encoder |-> Fresh]
  /\ encFrames = [e \in Encoder |-> FALSE]
  /\ encShut = [e \in Encoder |-> FALSE] /\ tearDown = {}

\* display_wp has other owners than the capture thread: use_count() # 1.
DisplayShared(d) ==
  d \in tearDown \/ \E e \in Encoder: encDisp[e] = d
DisplayAlive(d) == d # 0 /\ (capDisp = d \/ DisplayShared(d))

----------------------------------------------------------------------------
(* The encoding threads: capture_async.                                    *)

Go(e, label) == encPc' = [encPc EXCEPT ![e] = label]

\* The session is told to stop: shutdown_event is raised by another thread.
Shutdown(e) ==
  /\ ~encShut[e] /\ encPc[e] # "done"
  /\ encShut' = [encShut EXCEPT ![e] = TRUE]
  /\ UNCHANGED <<captureVars, capRefVars, encPc, encDisp, encImages, encFrames,
                 tearDown>>

\* capture_thread_async.ref(): the first reference starts the capture thread.
\* The lock of shared_t is held while the last one joins it.
TakeRef(e) ==
  /\ encPc[e] = "new" /\ capLock = NoEncoder
  /\ capRefs' = capRefs \cup {e}
  /\ IF capRefs = {}
       THEN /\ capReinit' = FALSE
            /\ capQueue' = <<>> /\ capRunning' = TRUE /\ capPc' = "pop"
       ELSE UNCHANGED <<capReinit, capQueue, capRunning, capPc>>
  /\ Go(e, "raise")
  /\ UNCHANGED <<capCtxs, capDisp, capWp, capMade, capLock, encDisp, encImages,
                 encFrames, encShut, tearDown>>

\* raise() leaves a stopped queue alone.
RaiseContext(e) ==
  /\ encPc[e] = "raise"
  /\ capQueue' = IF capRunning THEN Append(capQueue, e) ELSE capQueue
  /\ Go(e, "check")
  /\ UNCHANGED <<capPc, capRunning, capCtxs, capDisp, capWp, capReinit, capMade,
                 capRefVars, encDisp, encImages, encFrames, encShut, tearDown>>

CheckQueue(e) ==
  /\ encPc[e] = "check"
  /\ Go(e, IF capRunning THEN "loop" ELSE "release")
  /\ UNCHANGED <<captureVars, capRefVars, encDisp, encImages, encFrames, encShut,
                 tearDown>>

\* The head of the loop: the session may have ended, the capture thread be gone,
\* or the display be on its way to another.
WaitDisplay(e) ==
  /\ encPc[e] = "loop"
  /\ \/ /\ encShut[e] \/ ~encImages[e].running
        /\ Go(e, "release")
     \/ /\ ~encShut[e] /\ encImages[e].running /\ ~capReinit
        /\ Go(e, "lock")
  /\ UNCHANGED <<captureVars, capRefVars, encDisp, encImages, encFrames, encShut,
                 tearDown>>

\* display_wp->lock(), some time after reinit_event was looked at.
LockDisplay(e) ==
  /\ encPc[e] = "lock"
  /\ IF DisplayAlive(capWp)
       THEN encDisp' = [encDisp EXCEPT ![e] = capWp] /\ Go(e, "make")
       ELSE Go(e, "loop") /\ UNCHANGED encDisp
  /\ UNCHANGED <<captureVars, capRefVars, encImages, encFrames, encShut, tearDown>>

\* Altered form: a thread that failed keeps the display.
MakeEncoderKeeps(e) ==
  /\ encPc[e] = "make"
  /\ \E next \in {"run", "release", "loop"}: Go(e, next)
  /\ UNCHANGED <<captureVars, capRefVars, encDisp, encImages, encFrames, encShut,
                 tearDown>>

\* make_encode_device and make_encode_session: without a device the thread
\* leaves, without a session it tries again.
MakeEncoder(e) ==
  /\ encPc[e] = "make"
  /\ \/ Go(e, "run") /\ UNCHANGED encDisp
     \/ /\ \E next \in {"release", "loop"}: Go(e, next)
        /\ encDisp' = [encDisp EXCEPT ![e] = 0]
  /\ UNCHANGED <<captureVars, capRefVars, encImages, encFrames, encShut, tearDown>>

\* encode_run returns: its guard hands the session to a detached thread.
LeaveRun(e) ==
  /\ Go(e, "loop")
  /\ tearDown' = tearDown \cup {encDisp[e]}
  /\ encDisp' = [encDisp EXCEPT ![e] = 0]

MustLeave(e) ==
  encShut[e] \/ ~encImages[e].running \/ (capReinit /\ encFrames[e])

RunLeaves(e) ==
  /\ encPc[e] = "run" /\ MustLeave(e)
  /\ LeaveRun(e)
  /\ UNCHANGED <<captureVars, capRefVars, encImages, encFrames, encShut>>

\* An image, or the time is up: a frame is encoded either way.  When convert or
\* encode fails, or the event was stopped while it waited, the thread leaves.
RunEncodes(e) ==
  /\ encPc[e] = "run" /\ ~MustLeave(e)
  /\ encImages' = [encImages EXCEPT ![e].image = FALSE]
  /\ \/ /\ encFrames' = [encFrames EXCEPT ![e] = TRUE]
        /\ UNCHANGED <<encPc, encDisp, tearDown>>
     \/ LeaveRun(e) /\ UNCHANGED encFrames
  /\ UNCHANGED <<captureVars, capRefVars, encShut>>

\* The sessions that hold display d are destroyed, unless the driver hangs.
TearDownEnds(d) ==
  /\ d \in tearDown
  /\ tearDown' = tearDown \ {d}
  /\ UNCHANGED <<captureVars, capRefVars, encPc, encDisp, encImages, encFrames,
                 encShut>>

\* Altered form: the last reference does not stop the queue.
ReleaseRefRuns(e) ==
  /\ encPc[e] = "release" /\ capLock = NoEncoder
  /\ capRefs' = capRefs \ {e}
  /\ IF capRefs = {e} THEN capLock' = e /\ Go(e, "join")
                      ELSE Go(e, "guard") /\ UNCHANGED capLock
  /\ UNCHANGED <<captureVars, encDisp, encImages, encFrames, encShut, tearDown>>

\* The reference goes first: the last one stops the queue and joins the capture
\* thread with the lock held, before the guard stops the images.
ReleaseRef(e) ==
  /\ encPc[e] = "release" /\ capLock = NoEncoder
  /\ capRefs' = capRefs \ {e}
  /\ IF capRefs = {e}
       THEN capRunning' = FALSE /\ capLock' = e /\ Go(e, "join")
       ELSE Go(e, "guard") /\ UNCHANGED <<capRunning, capLock>>
  /\ UNCHANGED <<capPc, capQueue, capCtxs, capDisp, capWp, capReinit, capMade,
                 encDisp, encImages, encFrames, encShut, tearDown>>

JoinCapture(e) ==
  /\ encPc[e] = "join" /\ capPc = "gone"
  /\ capPc' = "none" /\ capWp' = 0 /\ capQueue' = <<>> /\ capLock' = NoEncoder
  /\ Go(e, "guard")
  /\ UNCHANGED <<capRunning, capCtxs, capDisp, capReinit, capMade, capRefs,
                 encDisp, encImages, encFrames, encShut, tearDown>>

\* The guard of capture_async stops the images and ends the session.
StopImages(e) ==
  /\ encPc[e] = "guard"
  /\ encImages' = [encImages EXCEPT ![e] = Stopped(@)]
  /\ encShut' = [encShut EXCEPT ![e] = TRUE]
  /\ Go(e, "done")
  /\ UNCHANGED <<captureVars, capRefVars, encDisp, encFrames, tearDown>>

----------------------------------------------------------------------------
(* The capture thread.                                                     *)

\* Altered form: the contexts left in the queue are not stopped.
CaptureEndsEarly(known) ==
  /\ encImages' = [e \in Encoder |->
       IF e \in known THEN Stopped(encImages[e]) ELSE encImages[e]]
  /\ capRunning' = FALSE /\ capCtxs' = {} /\ capDisp' = 0 /\ capPc' = "gone"

\* The guard of captureThread: it stops the queue, then the images of every
\* context it knows and of those still in the queue.
CaptureEnds(known) ==
  /\ encImages' = [e \in Encoder |->
       IF e \in known \/ Contains(capQueue, e) THEN Stopped(encImages[e])
                                               ELSE encImages[e]]
  /\ capRunning' = FALSE /\ capCtxs' = {} /\ capDisp' = 0 /\ capPc' = "gone"

PopInitial ==
  /\ capPc = "pop"
  /\ \/ /\ ~capRunning
        /\ CaptureEnds({}) /\ UNCHANGED capQueue
     \/ /\ capRunning /\ capQueue # <<>>
        /\ capCtxs' = {Head(capQueue)} /\ capQueue' = Tail(capQueue)
        /\ capPc' = "create"
        /\ UNCHANGED <<capRunning, capDisp, encImages>>
  /\ UNCHANGED <<capWp, capReinit, capMade, capRefVars, encPc, encDisp, encFrames,
                 encShut, tearDown>>

MakeDisplay ==
  /\ capMade < MaxDisplays
  /\ capMade' = capMade + 1 /\ capDisp' = capMade' /\ capWp' = capMade'

CreateDisplay ==
  /\ capPc = "create"
  /\ \/ MakeDisplay /\ capPc' = "capture"
        /\ UNCHANGED <<capRunning, capCtxs, encImages>>
     \/ CaptureEnds(capCtxs) /\ UNCHANGED <<capWp, capMade>>
  /\ UNCHANGED <<capQueue, capReinit, capRefVars, encPc, encDisp, encFrames,
                 encShut, tearDown>>

\* The contexts whose images were stopped are forgotten.
Listening == {e \in capCtxs: encImages[e].running}

\* push_captured_image_callback, with a frame or without: disp->capture goes on.
PushImage(frame) ==
  /\ capPc = "capture" /\ capRunning
  /\ encImages' = [e \in Encoder |->
       IF frame /\ e \in Listening THEN [encImages[e] EXCEPT !.image = TRUE]
                                   ELSE encImages[e]]
  /\ capCtxs' = Listening \cup ToSet(capQueue) /\ capQueue' = <<>>
  /\ UNCHANGED <<capPc, capRunning, capDisp, capWp, capReinit, capMade, capRefVars,
                 encPc, encDisp, encFrames, encShut, tearDown>>

\* disp->capture returns: the queue was stopped, or it failed.
CaptureStops ==
  /\ capPc = "capture"
  /\ CaptureEnds(capCtxs)
  /\ UNCHANGED <<capQueue, capWp, capReinit, capMade, capRefVars, encPc, encDisp,
                 encFrames, encShut, tearDown>>

\* It returns for reinitialisation: the display changed, or the user switches.
Reinitialise ==
  /\ capPc = "capture" /\ capMade < MaxDisplays
  /\ capReinit' = TRUE /\ capPc' = "drain"
  /\ UNCHANGED <<capQueue, capRunning, capCtxs, capDisp, capWp, capMade, capRefVars,
                 encVars>>

\* Images nobody took are dropped while others hold the display.  The loop does
\* not look at the queue.
Drain ==
  /\ capPc = "drain"
  /\ IF DisplayShared(capWp)
       THEN /\ capCtxs' = Listening
            /\ encImages' = [e \in Encoder |->
                 IF e \in Listening THEN [encImages[e] EXCEPT !.image = FALSE]
                                    ELSE encImages[e]]
            /\ UNCHANGED capPc
       ELSE capPc' = "reenum" /\ UNCHANGED <<capCtxs, encImages>>
  /\ UNCHANGED <<capQueue, capRunning, capDisp, capWp, capReinit, capMade,
                 capRefVars, encPc, encDisp, encFrames, encShut, tearDown>>

\* The loop around reset_display: another display, or once more, or, when the
\* queue was stopped, out: with no display the thread ends.
Reenumerate ==
  /\ capPc = "reenum"
  /\ \/ /\ capRunning /\ MakeDisplay
        /\ capReinit' = FALSE /\ capPc' = "capture"
        /\ UNCHANGED <<capRunning, capCtxs, encImages>>
     \/ /\ capRunning /\ capDisp' = 0
        /\ UNCHANGED <<capPc, capRunning, capCtxs, capWp, capMade, capReinit,
                       encImages>>
     \/ /\ ~capRunning /\ CaptureEnds(capCtxs)
        /\ IF capDisp # 0 THEN capReinit' = FALSE ELSE UNCHANGED capReinit
        /\ UNCHANGED <<capWp, capMade>>
  /\ UNCHANGED <<capQueue, capRefVars, encPc, encDisp, encFrames, encShut, tearDown>>

----------------------------------------------------------------------------
EncoderStep(e) ==
  \/ TakeRef(e) \/ RaiseContext(e) \/ CheckQueue(e) \/ WaitDisplay(e)
  \/ LockDisplay(e) \/ MakeEncoder(e) \/ RunLeaves(e) \/ RunEncodes(e)
  \/ ReleaseRef(e) \/ JoinCapture(e) \/ StopImages(e)

CaptureStep ==
  \/ PopInitial \/ CreateDisplay \/ (\E frame \in BOOLEAN: PushImage(frame))
  \/ CaptureStops \/ Reinitialise \/ Drain \/ Reenumerate

CapNext ==
  \/ \E e \in Encoder: EncoderStep(e) \/ Shutdown(e)
  \/ \E d \in 1..MaxDisplays: TearDownEnds(d)
  \/ CaptureStep

\* What the capture thread does when nothing but the queue tells it to go on.
CaptureRuns ==
  \/ PopInitial \/ CreateDisplay \/ (~capRunning /\ CaptureStops) \/ Drain
  \/ Reenumerate

\* The capture thread and the encoding threads run.  A teardown thread may never
\* end: the driver's hang is what it was made for (encode_run).
CapThreadsFair ==
  /\ WF_capVars(CaptureRuns)
  /\ \A e \in Encoder: WF_capVars(EncoderStep(e))
CapSpec == CapInit /\ [][CapNext]_capVars /\ CapThreadsFair

----------------------------------------------------------------------------
(* Properties.                                                             *)

\* The variables keep their types, and at most MaxDisplays displays are made.
CapTypeOK ==
  /\ capPc \in {"none", "pop", "create", "capture", "drain", "reenum", "gone"}
  /\ capQueue \in Seq(Encoder) /\ capRunning \in BOOLEAN /\ capCtxs \subseteq Encoder
  /\ {capDisp, capWp, capMade} \subseteq 0..MaxDisplays /\ capReinit \in BOOLEAN
  /\ capRefs \subseteq Encoder /\ capLock \in Encoder \cup {NoEncoder}
  /\ encPc \in [Encoder -> {"new", "raise", "check", "loop", "lock", "make",
                            "run", "release", "join", "guard", "done"}]
  /\ encDisp \in [Encoder -> 0..MaxDisplays]
  /\ encImages \in [Encoder -> [running: BOOLEAN, image: BOOLEAN]]
  /\ encFrames \in [Encoder -> BOOLEAN] /\ encShut \in [Encoder -> BOOLEAN]
  /\ tearDown \subseteq 1..MaxDisplays

\* An encoding thread that listens to a capture thread that ended is told so,
\* wherever its context was when that happened: the guard of captureThread
\* against the race between the end of the thread and raise() of a new context.
NobodyWaitsOnDeadCapture ==
  capPc = "gone" =>
    \A e \in capRefs: \/ encPc[e] \in {"raise", "check", "release"}
                      \/ ~encImages[e].running

\* The capture thread waits for a teardown thread.
WaitsForTearDown == capPc = "drain" /\ capWp \in tearDown

\* The loop on display_wp->use_count() of captureThread ends, unless a teardown
\* thread hangs: every encoding thread lets go of the display, whatever it was
\* about to do with it when the reinitialisation began.
ReinitDrains ==
  <>[](capPc = "drain") =>
    <>[](WaitsForTearDown /\ \A e \in Encoder: encDisp[e] # capWp)

\* A session that is told to stop gets its encoding thread back, although the
\* last one joins the capture thread with the lock held and the others wait for
\* that lock (capture_async, end_capture_async); unless the one that joins finds
\* the capture thread waiting for a teardown thread that hangs.
EncoderLeaves ==
  \/ \A e \in Encoder: encShut[e] ~> encPc[e] = "done"
  \/ <>[](WaitsForTearDown /\ capLock # NoEncoder)

\* encode_run says of a teardown thread that never exits: "it will allow streaming
\* to continue without requiring a full restart".  So captureThread would come
\* back from a reinitialisation whether or not the teardown ends.
StreamingContinues == capPc = "drain" ~> capPc # "drain"
=============================================================================

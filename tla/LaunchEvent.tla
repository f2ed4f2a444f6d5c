----------------------------- MODULE LaunchEvent ----------------------------
(***************************************************************************)
(* The launch session between /launch or /resume and the control stream of *)
(* its client: rtsp_server_t::launch_event and raised_timer of rtsp.cpp,   *)
(* with the threads that share them.                                       *)
(*                                                                         *)
(*  - the HTTPS thread raises a launch session and arms the timer          *)
(*    (session_raise);                                                     *)
(*  - the rtsp::handler thread looks at the event when a client connects   *)
(*    (handle_accept), creates sessions from it (cmd_announce) and runs    *)
(*    the handler of the timer;                                            *)
(*  - the control thread takes the launch session out of the event once    *)
(*    the client's control stream is connected (session_clear, called by   *)
(*    get_session with the mutex of _sessions held).                       *)
(*                                                                         *)
(* A step is one critical section of event_t, or one call on the timer.    *)
(***************************************************************************)
EXTENDS Integers

CONSTANTS Launch,    \* the launch sessions a run may make: bounds the requests
          NoLaunch

ASSUME LaunchAssumption == NoLaunch \notin Launch

VARIABLES
  launch,     \* launch_event
  fate,       \* what became of each launch session
  timer,      \* raised_timer: a wait is pending, or none
  fired,      \* the expired waits whose handler has not run yet
  https,      \* label of the HTTPS thread in session_raise
  raising,    \* its launch session
  sockets,    \* the launch sessions that RTSP connections are associated with
  rtsp,       \* label of the rtsp::handler thread
  announced,  \* the launch session of the ANNOUNCE in hand
  waiting,    \* the launch sessions of listed sessions without a peer
  ctl,        \* label of the control thread in session_clear
  clearing    \* the launch session it was called for

raiseVars == <<https, raising>>
timerVars == <<timer, fired>>
rtspVars  == <<sockets, rtsp, announced>>
ctlVars   == <<waiting, ctl, clearing>>
vars == <<launch, fate, raiseVars, timerVars, rtspVars, ctlVars>>

Fate == {"new", "dropped", "pending", "discarded", "taken"}

Init ==
  /\ launch = NoLaunch /\ fate = [l \in Launch |-> "new"]
  /\ timer = "idle" /\ fired = 0
  /\ https = "idle" /\ raising = NoLaunch
  /\ sockets = {} /\ rtsp = "free" /\ announced = NoLaunch
  /\ waiting = {} /\ ctl = "idle" /\ clearing = NoLaunch

----------------------------------------------------------------------------
(* The HTTPS thread: session_raise.                                        *)

\* Altered form: a pending launch session is not looked for.
HttpsViewBlind(l) ==
  /\ https = "idle" /\ fate[l] = "new"
  /\ https' = "raise" /\ raising' = l
  /\ UNCHANGED <<launch, fate, timerVars, rtspVars, ctlVars>>

\* /launch or /resume made l.  With another one pending it is dropped, while the
\* client is answered as if it were not.
HttpsView(l) ==
  /\ https = "idle" /\ fate[l] = "new"
  /\ IF launch # NoLaunch
       THEN fate' = [fate EXCEPT ![l] = "dropped"] /\ UNCHANGED raiseVars
       ELSE https' = "raise" /\ raising' = l /\ UNCHANGED fate
  /\ UNCHANGED <<launch, timerVars, rtspVars, ctlVars>>

HttpsRaise ==
  /\ https = "raise"
  /\ launch' = raising
  /\ fate' = [fate EXCEPT ![raising] = "pending"]
  /\ https' = "arm"
  /\ UNCHANGED <<raising, timerVars, rtspVars, ctlVars>>

\* expires_after aborts a wait that is still pending, a handler that is queued
\* already will run.
HttpsArm ==
  /\ https = "arm"
  /\ timer' = "armed"
  /\ https' = "idle" /\ raising' = NoLaunch
  /\ UNCHANGED <<launch, fate, fired, rtspVars, ctlVars>>

----------------------------------------------------------------------------
(* The rtsp::handler thread.                                               *)

TimerExpires ==
  /\ timer = "armed"
  /\ timer' = "idle" /\ fired' = fired + 1
  /\ UNCHANGED <<launch, fate, raiseVars, rtspVars, ctlVars>>

\* Altered form: the handler views the event.
TimerHandlerViews ==
  /\ rtsp = "free" /\ fired > 0
  /\ fired' = fired - 1
  /\ UNCHANGED <<launch, fate, timer, raiseVars, rtspVars, ctlVars>>

\* The handler pops whatever is pending by then.
TimerHandler ==
  /\ rtsp = "free" /\ fired > 0
  /\ fired' = fired - 1
  /\ launch' = NoLaunch
  /\ fate' = [l \in Launch |-> IF l = launch THEN "discarded" ELSE fate[l]]
  /\ UNCHANGED <<timer, raiseVars, rtspVars, ctlVars>>

\* A connection is associated with the pending launch session.
Accept ==
  /\ rtsp = "free" /\ launch # NoLaunch
  /\ sockets' = sockets \cup {launch}
  /\ UNCHANGED <<launch, fate, raiseVars, timerVars, rtsp, announced, ctlVars>>

\* ANNOUNCE on one of its connections: a session is made of it.
Announce(l) ==
  /\ rtsp = "free" /\ l \in sockets
  /\ rtsp' = "push" /\ announced' = l
  /\ UNCHANGED <<launch, fate, raiseVars, timerVars, sockets, ctlVars>>

\* session::start lists the session under the mutex of _sessions.
Push ==
  /\ rtsp = "push" /\ ctl = "idle"
  /\ waiting' = waiting \cup {announced}
  /\ rtsp' = "free" /\ announced' = NoLaunch
  /\ UNCHANGED <<launch, fate, raiseVars, timerVars, sockets, ctl, clearing>>

----------------------------------------------------------------------------
(* The control thread.                                                     *)

\* get_session: the control stream of a listed session connects.
Connect(l) ==
  /\ ctl = "idle" /\ l \in waiting
  /\ ctl' = "view" /\ clearing' = l
  /\ UNCHANGED <<launch, fate, raiseVars, timerVars, rtspVars, waiting>>

\* session_clear returned: the session gets its peer.
Connected ==
  /\ ctl' = "idle" /\ clearing' = NoLaunch
  /\ waiting' = waiting \ {clearing}

\* Altered form: the timer is cancelled before the IDs are compared.
ClearViewCancels ==
  /\ ctl = "view"
  /\ timer' = IF launch = NoLaunch THEN timer ELSE "idle"
  /\ IF launch = clearing THEN ctl' = "cancel" /\ UNCHANGED <<waiting, clearing>>
                          ELSE Connected
  /\ UNCHANGED <<launch, fate, fired, raiseVars, rtspVars>>

\* Nothing pending, or another ID: nothing is cleared.
ClearView ==
  /\ ctl = "view"
  /\ IF launch = clearing THEN ctl' = "cancel" /\ UNCHANGED <<waiting, clearing>>
                          ELSE Connected
  /\ UNCHANGED <<launch, fate, timerVars, raiseVars, rtspVars>>

ClearCancel ==
  /\ ctl = "cancel"
  /\ timer' = "idle"
  /\ ctl' = "pop"
  /\ UNCHANGED <<launch, fate, fired, raiseVars, rtspVars, waiting, clearing>>

\* pop() waits until something is pending, and takes it.
ClearPop ==
  /\ ctl = "pop" /\ launch # NoLaunch
  /\ launch' = NoLaunch
  /\ fate' = [fate EXCEPT ![launch] = "taken"]
  /\ Connected
  /\ UNCHANGED <<timerVars, raiseVars, rtspVars>>

\* Altered form: the list is changed without its mutex.
LeaveUnlocked(l) ==
  /\ l \in waiting
  /\ waiting' = waiting \ {l}
  /\ UNCHANGED <<launch, fate, raiseVars, timerVars, rtspVars, ctl, clearing>>

\* A scan drops a session that never got its peer.
Leave(l) ==
  /\ ctl = "idle" /\ l \in waiting
  /\ waiting' = waiting \ {l}
  /\ UNCHANGED <<launch, fate, raiseVars, timerVars, rtspVars, ctl, clearing>>

----------------------------------------------------------------------------
Https   == HttpsRaise \/ HttpsArm
Control == ClearView \/ ClearCancel \/ ClearPop

Next ==
  \/ Https \/ TimerExpires \/ TimerHandler \/ Accept \/ Push \/ Control
  \/ \E l \in Launch : HttpsView(l) \/ Announce(l) \/ Connect(l) \/ Leave(l)

Spec == Init /\ [][Next]_vars

\* Threads that can move do, time passes, and the io_context runs a handler that
\* is queued though other handlers compete with it; clients owe nothing.
FairSpec ==
  /\ Spec
  /\ WF_vars(Https) /\ WF_vars(TimerExpires) /\ WF_vars(Push) /\ WF_vars(Control)
  /\ SF_vars(TimerHandler)

----------------------------------------------------------------------------
(* Properties.                                                             *)

\* The variables keep their types, and a thread inside a call has its argument; the
\* session the control thread clears for is still listed.
TypeOK ==
  /\ launch \in Launch \cup {NoLaunch} /\ fate \in [Launch -> Fate]
  /\ timer \in {"idle", "armed"} /\ fired \in Nat
  /\ https \in {"idle", "raise", "arm"} /\ raising \in Launch \cup {NoLaunch}
  /\ https # "idle" => raising # NoLaunch
  /\ sockets \subseteq Launch
  /\ rtsp \in {"free", "push"} /\ announced \in Launch \cup {NoLaunch}
  /\ rtsp = "push" => announced # NoLaunch
  /\ waiting \subseteq Launch
  /\ ctl \in {"idle", "view", "cancel", "pop"}
  /\ clearing \in Launch \cup {NoLaunch}
  /\ ctl # "idle" => clearing \in waiting

\* A pending launch session is always on its way out: the timer runs or its handler
\* is queued, or the thread that raised it is about to arm the timer, or the control
\* thread is about to take it.
PendingHasDeadline ==
  launch # NoLaunch => timer = "armed" \/ fired > 0 \/ https = "arm" \/ ctl = "pop"

\* Only the handler of the timer comes between the view and the pop of session_clear:
\* when the launch session to clear is gone by then (and the control thread blocks,
\* or takes the next one) it was discarded.
ClearLosesToTimer ==
  ctl \in {"cancel", "pop"} /\ launch # clearing => fate[clearing] = "discarded"

Slot == INSTANCE LaunchSlot
          WITH slot <- launch,
               used <- {l \in Launch : fate[l] \in {"pending", "discarded", "taken"}}

\* The event, its timer and the three threads implement the one-place slot: nothing
\* pending is overwritten, and no launch session becomes pending twice.
ImplementsSlot == Slot!Spec

\* Every pending launch session is taken or discarded in the end.
PendingLeaves == \A l \in Launch : launch = l ~> launch # l

\* session_clear: "We currently only support a single pending RTSP session, so the
\* ID should always match the one for that session."
IdMatches == ctl = "view" /\ launch # NoLaunch => launch = clearing
=============================================================================

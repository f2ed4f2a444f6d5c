----------------------------- MODULE LaunchSlot -----------------------------
(***************************************************************************)
(* What rtsp.cpp promises of a launch session: one waits at a time, it is  *)
(* never overwritten ("If a launch event is still pending, don't overwrite *)
(* it") and none waits twice.                                              *)
(***************************************************************************)
CONSTANTS Launch, NoLaunch

VARIABLES slot,   \* the launch session that waits for its client
          used    \* the launch sessions that have waited

vars == <<slot, used>>

Init == slot = NoLaunch /\ used = {}

Put(l) ==
  /\ slot = NoLaunch /\ l \notin used
  /\ slot' = l
  /\ used' = used \cup {l}

Take ==
  /\ slot # NoLaunch
  /\ slot' = NoLaunch
  /\ UNCHANGED used

Next == Take \/ \E l \in Launch : Put(l)

Spec == Init /\ [][Next]_vars
=============================================================================

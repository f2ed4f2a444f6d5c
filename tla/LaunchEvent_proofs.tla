-------------------------- MODULE LaunchEvent_proofs --------------------------
(*****************************************************************************)
(* Proofs about LaunchEvent, for every set of launch sessions.               *)
(*****************************************************************************)
EXTENDS LaunchEvent, TLAPS

\* The types are inductive: a thread inside a call has its argument, and only the
\* control thread itself, or a scan while it is idle, takes a session off the list.
THEOREM TypeCorrect == Spec => []TypeOK
<1>1. Init => TypeOK
  BY DEF Init, TypeOK, Fate
<1>2. TypeOK /\ [Next]_vars => TypeOK'
  <2> SUFFICES ASSUME TypeOK, [Next]_vars PROVE TypeOK'
    OBVIOUS
  <2> USE DEF TypeOK, Fate, raiseVars, timerVars, rtspVars, ctlVars
  <2>1. ASSUME NEW l \in Launch, HttpsView(l) PROVE TypeOK'
    BY <2>1, LaunchAssumption DEF HttpsView
  <2>2. CASE HttpsRaise
    BY <2>2 DEF HttpsRaise
  <2>3. CASE HttpsArm
    BY <2>3 DEF HttpsArm
  <2>4. CASE TimerExpires
    BY <2>4 DEF TimerExpires
  <2>5. CASE TimerHandler
    BY <2>5 DEF TimerHandler
  <2>6. CASE Accept
    BY <2>6 DEF Accept
  <2>7. ASSUME NEW l \in Launch, Announce(l) PROVE TypeOK'
    BY <2>7, LaunchAssumption DEF Announce
  <2>8. CASE Push
    BY <2>8, LaunchAssumption DEF Push
  <2>9. ASSUME NEW l \in Launch, Connect(l) PROVE TypeOK'
    BY <2>9 DEF Connect
  <2>10. CASE ClearView
    BY <2>10 DEF ClearView, Connected
  <2>11. CASE ClearCancel
    BY <2>11 DEF ClearCancel
  <2>12. CASE ClearPop
    BY <2>12 DEF ClearPop, Connected
  <2>13. ASSUME NEW l \in Launch, Leave(l) PROVE TypeOK'
    BY <2>13 DEF Leave
  <2>14. CASE UNCHANGED vars
    BY <2>14 DEF vars
  <2>15. QED
    BY <2>1, <2>2, <2>3, <2>4, <2>5, <2>6, <2>7, <2>8, <2>9, <2>10, <2>11, <2>12,
       <2>13, <2>14 DEF Next, Https, Control
<1>3. QED
  BY <1>1, <1>2, PTL DEF Spec

\* A pending launch session is always on its way out.
THEOREM DeadlineHolds == Spec => []PendingHasDeadline
<1>1. Init => PendingHasDeadline
  BY DEF Init, PendingHasDeadline
<1>2. TypeOK /\ PendingHasDeadline /\ [Next]_vars => PendingHasDeadline'
  <2> SUFFICES ASSUME TypeOK, PendingHasDeadline, [Next]_vars
               PROVE PendingHasDeadline'
    OBVIOUS
  <2> USE DEF TypeOK, PendingHasDeadline, raiseVars, timerVars, rtspVars, ctlVars
  <2>1. CASE Https
    BY <2>1 DEF Https, HttpsRaise, HttpsArm
  <2>2. CASE TimerExpires \/ TimerHandler
    BY <2>2 DEF TimerExpires, TimerHandler
  <2>3. CASE Control
    BY <2>3 DEF Control, ClearView, ClearCancel, ClearPop, Connected
  <2>4. CASE Accept \/ Push
    BY <2>4 DEF Accept, Push
  <2>5. ASSUME NEW l \in Launch,
               HttpsView(l) \/ Announce(l) \/ Connect(l) \/ Leave(l)
        PROVE  PendingHasDeadline'
    BY <2>5 DEF HttpsView, Announce, Connect, Leave
  <2>6. CASE UNCHANGED vars
    BY <2>6 DEF vars
  <2>7. QED
    BY <2>1, <2>2, <2>3, <2>4, <2>5, <2>6 DEF Next
<1>3. QED
  BY <1>1, <1>2, TypeCorrect, PTL DEF Spec

----------------------------------------------------------------------------

\* What the three threads know of each other: the event holds the one launch session
\* whose fate is pending, and stays empty between the view and the raise of
\* session_raise, because only the HTTPS thread raises.
EventMatchesFate ==
  /\ launch # NoLaunch => fate[launch] = "pending"
  /\ \A l \in Launch : fate[l] = "pending" => launch = l
  /\ https = "raise" => launch = NoLaunch /\ fate[raising] = "new"

IInv == TypeOK /\ EventMatchesFate /\ ClearLosesToTimer

\* The inductive invariant of the event.
THEOREM InvCorrect == Spec => []IInv
<1>1. Init => IInv
  <2>1. Init => TypeOK
    BY DEF Init, TypeOK, Fate
  <2>2. Init => EventMatchesFate /\ ClearLosesToTimer
    BY DEF Init, EventMatchesFate, ClearLosesToTimer
  <2>3. QED
    BY <2>1, <2>2 DEF IInv
<1>2. IInv /\ TypeOK' /\ [Next]_vars => IInv'
  <2> SUFFICES ASSUME IInv, TypeOK', [Next]_vars
               PROVE EventMatchesFate' /\ ClearLosesToTimer'
    BY DEF IInv
  <2> USE LaunchAssumption
          DEF IInv, TypeOK, EventMatchesFate, ClearLosesToTimer, Fate,
              raiseVars, timerVars, rtspVars, ctlVars
  <2>1. ASSUME NEW l \in Launch, HttpsView(l)
        PROVE EventMatchesFate' /\ ClearLosesToTimer'
    BY <2>1 DEF HttpsView
  <2>2. CASE HttpsRaise
    BY <2>2 DEF HttpsRaise
  <2>3. CASE HttpsArm
    BY <2>3 DEF HttpsArm
  <2>4. CASE TimerExpires
    BY <2>4 DEF TimerExpires
  <2>5. CASE TimerHandler
    BY <2>5 DEF TimerHandler
  <2>6. CASE Accept \/ Push
    BY <2>6 DEF Accept, Push
  <2>7. CASE ClearView
    BY <2>7 DEF ClearView, Connected
  <2>8. CASE ClearCancel
    BY <2>8 DEF ClearCancel
  <2>9. CASE ClearPop
    BY <2>9 DEF ClearPop, Connected
  <2>10. ASSUME NEW l \in Launch, Announce(l) \/ Connect(l) \/ Leave(l)
         PROVE EventMatchesFate' /\ ClearLosesToTimer'
    BY <2>10 DEF Announce, Connect, Leave
  <2>11. CASE UNCHANGED vars
    BY <2>11 DEF vars
  <2>12. QED
    BY <2>1, <2>2, <2>3, <2>4, <2>5, <2>6, <2>7, <2>8, <2>9, <2>10, <2>11
       DEF Next, Https, Control
<1>3. QED
  BY <1>1, <1>2, TypeCorrect, PTL DEF Spec

\* Only the handler of the timer takes a launch session from the control thread that
\* is about to clear it.
THEOREM ClearLosesOnlyToTimer == Spec => []ClearLosesToTimer
<1>1. IInv => ClearLosesToTimer
  BY DEF IInv
<1>2. QED
  BY <1>1, InvCorrect, PTL

----------------------------------------------------------------------------

\* The event, its timer and the three threads implement the one-place slot.
THEOREM Refinement == Spec => ImplementsSlot
<1> DEFINE Used == {l \in Launch : fate[l] \in {"pending", "discarded", "taken"}}
<1>1. Init => Slot!Init
  BY DEF Init, Slot!Init
<1>2. IInv /\ [Next]_vars => [Slot!Next]_(Slot!vars)
  <2> SUFFICES ASSUME IInv, [Next]_vars PROVE Slot!Next \/ UNCHANGED Slot!vars
    OBVIOUS
  <2> USE LaunchAssumption
          DEF IInv, TypeOK, EventMatchesFate, Fate, raiseVars, timerVars, rtspVars,
              ctlVars, Slot!vars
  <2>1. ASSUME NEW l \in Launch, HttpsView(l) PROVE UNCHANGED Slot!vars
    BY <2>1 DEF HttpsView
  <2>2. CASE HttpsRaise
    <3>1. raising \in Launch /\ launch = NoLaunch /\ raising \notin Used
      BY <2>2 DEF HttpsRaise
    <3>2. launch' = raising /\ Used' = Used \cup {raising}
      BY <2>2 DEF HttpsRaise
    <3>3. \E l \in Launch : Slot!Put(l)
      BY <3>1, <3>2 DEF Slot!Put
    <3>4. QED
      BY <3>3 DEF Slot!Next
  <2>3. CASE TimerHandler
    <3>1. Used' = Used
      BY <2>3 DEF TimerHandler
    <3>2. QED
      BY <2>3, <3>1 DEF TimerHandler, Slot!Next, Slot!Take
  <2>4. CASE ClearPop
    <3>1. Used' = Used
      BY <2>4 DEF ClearPop
    <3>2. QED
      BY <2>4, <3>1 DEF ClearPop, Slot!Next, Slot!Take
  <2>5. CASE UNCHANGED <<launch, fate>>
    BY <2>5
  <2>6. QED
    BY <2>1, <2>2, <2>3, <2>4, <2>5
       DEF Next, vars, Https, Control, HttpsArm, TimerExpires, Accept, Push,
           ClearView, ClearCancel, Announce, Connect, Leave
<1>3. QED
  BY <1>1, <1>2, InvCorrect, PTL DEF Spec, ImplementsSlot, Slot!Spec
===============================================================================

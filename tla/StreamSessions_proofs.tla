----------------------- MODULE StreamSessions_proofs ------------------------
(***************************************************************************)
(* Proofs about StreamSessions, for every set of sessions, peers and media *)
(* threads, any number of requests and any choice of faults: the types, a  *)
(* stop that is final, what keeps a thread from a session object or a      *)
(* broadcast context that is gone, and that running_sessions counts the    *)
(* slots.                                                                  *)
(***************************************************************************)
EXTENDS StreamSessions, FiniteSetTheorems, TLAPS

----------------------------------------------------------------------------
(* Type correctness: each action has one step per group of variables it     *)
(* assigns, the frame lemma deals with the groups it leaves alone.          *)

\* What leaves the variables of a group alone keeps their types.
LEMMA Frame ==
  ASSUME TypeOK
  PROVE  /\ UNCHANGED sessionVars => SessionType'
         /\ UNCHANGED slotVars => SlotType'
         /\ UNCHANGED clearVars => ClearerType'
         /\ UNCHANGED annVars => AnnType'
         /\ UNCHANGED ctlVars => CtlType'
         /\ UNCHANGED enetVars => EnetType'
         /\ UNCHANGED ctxVars => CtxType'
         /\ UNCHANGED countVars => CountType'
         /\ UNCHANGED hostVars => HostType'
<1>1. UNCHANGED sessionVars => SessionType'
  BY DEF TypeOK, SessionType, sessionVars
<1>2. UNCHANGED slotVars => SlotType'
  BY DEF TypeOK, SlotType, slotVars
<1>3. UNCHANGED clearVars => ClearerType'
  BY DEF TypeOK, ClearerType, clearVars
<1>4. UNCHANGED annVars => AnnType'
  BY DEF TypeOK, AnnType, annVars
<1>5. UNCHANGED ctlVars => CtlType'
  BY DEF TypeOK, CtlType, ctlVars
<1>6. UNCHANGED enetVars => EnetType'
  BY DEF TypeOK, EnetType, enetVars
<1>7. UNCHANGED ctxVars => CtxType'
  BY DEF TypeOK, CtxType, ctxVars
<1>8. UNCHANGED countVars => CountType'
  BY DEF TypeOK, CountType, countVars
<1>9. UNCHANGED hostVars => HostType'
  BY DEF TypeOK, HostType, hostVars
<1>10. QED
  BY <1>1, <1>2, <1>3, <1>4, <1>5, <1>6, <1>7, <1>8, <1>9

\* session::stop keeps the types of the session objects.
LEMMA StopType ==
  ASSUME SessionType, NEW s \in Session, Stop(s) \/ UNCHANGED <<state, shutdownEvent>>,
         UNCHANGED life, controlEnd' \in [Session -> BOOLEAN],
         av' \in [Session -> [Kind -> AvLabel]]
  PROVE  SessionType'
BY DEF SessionType, Stop, StateE

\* The destruction of a session object keeps the types.
LEMMA FreeType ==
  ASSUME TypeOK, NEW s \in Session, Free(s),
         UNCHANGED <<state, shutdownEvent, controlEnd, av>>
  PROVE  SessionType' /\ CtxType'
<1>1. SessionType'
  BY DEF TypeOK, SessionType, Free
<1>2. CtxType'
  BY DEF TypeOK, CtxType, Free
<1>3. QED
  BY <1>1, <1>2

\* So does the rest of end_broadcast.
LEMMA TearDownType ==
  ASSUME TypeOK, TearDown, UNCHANGED <<ctlTodo, awaiting, peerOf, holders>>
  PROVE  CtlType' /\ EnetType' /\ CtxType'
<1>1. CtlType'
  BY DEF TypeOK, CtlType, CtlLabel, TearDown
<1>2. EnetType'
  BY DEF TypeOK, EnetType, TearDown
<1>3. CtxType'
  BY DEF TypeOK, CtxType, TearDown
<1>4. QED
  BY <1>1, <1>2, <1>3

\* A clearing thread that moves on with the session it has in hand, if its next
\* step needs one, keeps its types.
LEMMA GotoType ==
  ASSUME TypeOK, NEW c \in Clearer, NEW l \in ClearLabel, Goto(c, l),
         want' \in [Clearer -> BOOLEAN],
         todo' \in [Clearer -> SUBSET Session],
         cur' \in [Clearer -> Session \cup {NoSession}],
         \A d \in Clearer : d # c => cur'[d] = cur[d],
         l \in {"join", "last", "erase"} => cur'[c] # NoSession
  PROVE  ClearerType'
BY DEF TypeOK, ClearerType, Goto

LEMMA BeginClearType ==
  ASSUME TypeOK, NEW c \in Clearer, NEW all \in BOOLEAN, BeginClear(c, all)
  PROVE  ClearerType'
<1>1. want' \in [Clearer -> BOOLEAN]
  BY DEF TypeOK, ClearerType, BeginClear
<1>2. QED
  BY <1>1, GotoType DEF TypeOK, ClearerType, BeginClear, ClearLabel

\* The step of a clearing thread keeps the types.
LEMMA ClearKeepsTypes ==
  ASSUME TypeOK, NEW c \in Clearer, Clear(c) \/ HangKill(c)
  PROVE  TypeOK'
<1>1. CASE ClearAcquire(c)
  <2>1. SlotType'
    BY <1>1 DEF TypeOK, SlotType, ClearAcquire
  <2>2. todo' \in [Clearer -> SUBSET Session]
    BY <1>1 DEF TypeOK, SlotType, ClearerType, ClearAcquire
  <2>3. ClearerType'
    BY <1>1, <2>2, GotoType DEF TypeOK, ClearerType, ClearAcquire, ClearLabel
  <2>4. QED
    BY <1>1, <2>1, <2>3, Frame DEF ClearAcquire, TypeOK
<1>2. ASSUME NEW s \in Session, ClearSkip(c, s) PROVE TypeOK'
  <2>1. ClearerType'
    BY <1>2 DEF TypeOK, ClearerType, ClearSkip
  <2>2. QED
    BY <1>2, <2>1, Frame DEF ClearSkip, TypeOK
<1>3. ASSUME NEW s \in Session, ClearStop(c, s) PROVE TypeOK'
  <2>1. SessionType'
    BY <1>3, StopType DEF TypeOK, SessionType, ClearStop
  <2>2. /\ todo' \in [Clearer -> SUBSET Session]
        /\ cur' \in [Clearer -> Session \cup {NoSession}]
        /\ cur'[c] # NoSession /\ \A d \in Clearer : d # c => cur'[d] = cur[d]
    BY <1>3, NoneAssumption DEF TypeOK, ClearerType, ClearStop
  <2>3. ClearerType'
    BY <1>3, <2>2, GotoType DEF TypeOK, ClearerType, ClearStop, ClearLabel
  <2>4. QED
    BY <1>3, <2>1, <2>3, Frame DEF ClearStop, TypeOK
<1>4. CASE ClearJoin(c)
  <2>1. CountType'
    BY <1>4 DEF TypeOK, CountType, ClearJoin
  <2>2. cur[c] # NoSession
    BY <1>4 DEF TypeOK, ClearerType, ClearJoin, At
  <2>3. ClearerType'
    BY <1>4, <2>2, GotoType DEF TypeOK, ClearerType, ClearJoin, ClearLabel
  <2>4. QED
    BY <1>4, <2>1, <2>3, Frame DEF ClearJoin, TypeOK
<1>5. CASE ClearJoinThrows(c)
  <2>1. SlotType'
    BY <1>5 DEF TypeOK, SlotType, ClearJoinThrows, Unlock
  <2>2. /\ todo' \in [Clearer -> SUBSET Session]
        /\ want' \in [Clearer -> BOOLEAN]
        /\ cur' \in [Clearer -> Session \cup {NoSession}]
        /\ \A d \in Clearer : d # c => cur'[d] = cur[d]
    BY <1>5 DEF TypeOK, ClearerType, ClearJoinThrows
  <2>3. ClearerType'
    BY <1>5, <2>2, GotoType DEF ClearJoinThrows, ClearLabel
  <2>4. HostType'
    BY <1>5 DEF TypeOK, HostType, ClearJoinThrows
  <2>5. QED
    BY <1>5, <2>1, <2>3, <2>4, Frame DEF ClearJoinThrows, TypeOK
<1>6. CASE ClearLast(c)
  <2>1. CountType'
    BY <1>6 DEF TypeOK, CountType, ClearLast
  <2>2. cur[c] # NoSession
    BY <1>6 DEF TypeOK, ClearerType, ClearLast, At
  <2>3. ClearerType'
    BY <1>6, <2>2, GotoType DEF TypeOK, ClearerType, ClearLast, ClearLabel
  <2>4. QED
    BY <1>6, <2>1, <2>3, Frame DEF ClearLast, TypeOK
<1>7. CASE ClearErase(c)
  <2>1. SlotType'
    BY <1>7 DEF TypeOK, SlotType, ClearErase
  <2>2. cur[c] \in Session
    BY <1>7 DEF TypeOK, ClearerType, ClearErase, At
  <2>3. SessionType' /\ CtxType'
    BY <1>7, <2>2, Frame, FreeType DEF ClearErase, sessionVars
  <2>4. /\ cur' \in [Clearer -> Session \cup {NoSession}]
        /\ \A d \in Clearer : d # c => cur'[d] = cur[d]
    BY <1>7 DEF TypeOK, ClearerType, ClearErase
  <2>5. Goto(c, "pick") \/ Goto(c, "ending")
    BY <1>7 DEF ClearErase
  <2>6. ClearerType'
    BY <1>7, <2>4, <2>5, GotoType DEF TypeOK, ClearerType, ClearErase, ClearLabel
  <2>7. QED
    BY <1>7, <2>1, <2>3, <2>6, Frame DEF ClearErase, TypeOK
<1>8. CASE ClearEndBroadcast(c)
  <2>1. CtlType' /\ EnetType' /\ CtxType'
    BY <1>8, TearDownType DEF ClearEndBroadcast
  <2>2. ClearerType'
    BY <1>8, GotoType DEF TypeOK, ClearerType, ClearEndBroadcast, ClearLabel
  <2>3. QED
    BY <1>8, <2>1, <2>2, Frame DEF ClearEndBroadcast, TypeOK
<1>9. CASE ClearDone(c)
  <2>1. SlotType'
    BY <1>9 DEF TypeOK, SlotType, ClearDone, Unlock
  <2>2. want' \in [Clearer -> BOOLEAN]
    BY <1>9 DEF TypeOK, ClearerType, ClearDone
  <2>3. ClearerType'
    BY <1>9, <2>2, GotoType DEF TypeOK, ClearerType, ClearDone, ClearLabel
  <2>4. QED
    BY <1>9, <2>1, <2>3, Frame DEF ClearDone, TypeOK
<1>10. CASE HangKill(c)
  <2>1. HostType'
    BY <1>10 DEF TypeOK, HostType, HangKill
  <2>2. QED
    BY <1>10, <2>1, Frame DEF HangKill, TypeOK
<1>11. QED
  BY <1>1, <1>2, <1>3, <1>4, <1>5, <1>6, <1>7, <1>8, <1>9, <1>10 DEF Clear

\* A step of the rtsp::handler thread keeps the types.
LEMMA RtspKeepsTypes ==
  ASSUME TypeOK, Rtsp \/ RtspCleanup \/ \E s \in Session : AnnInsert(s)
  PROVE  TypeOK'
<1>1. CASE RtspLoop
  <2>1. AnnType'
    BY <1>1 DEF TypeOK, AnnType, RtspLoop, AnnLabel, Starting
  <2>2. want' \in [Clearer -> BOOLEAN] /\ "rtsp" \in Clearer
    BY <1>1 DEF TypeOK, ClearerType, RtspLoop, Clearer
  <2>3. Goto("rtsp", "acquire") \/ Goto("rtsp", "idle")
    BY <1>1 DEF RtspLoop
  <2>4. ClearerType'
    BY <1>1, <2>2, <2>3, GotoType DEF TypeOK, ClearerType, RtspLoop, ClearLabel
  <2>5. QED
    BY <1>1, <2>1, <2>4, Frame DEF RtspLoop, TypeOK
<1>2. CASE RtspExit
  <2>1. AnnType'
    BY <1>2 DEF TypeOK, AnnType, RtspExit, AnnLabel, Starting
  <2>2. QED
    BY <1>2, <2>1, Frame DEF RtspExit, TypeOK
<1>3. CASE AnnRef
  <2>1. annSession \in Session
    BY <1>3 DEF TypeOK, AnnType, AnnRef, AnnAt, Starting
  <2>2. AnnType' /\ CtlType'
    BY <1>3, <2>1, NoneAssumption
       DEF TypeOK, AnnType, CtlType, AnnRef, AnnLabel, CtlLabel, Starting
  <2>3. CtxType'
    BY <1>3, <2>1 DEF TypeOK, CtxType, AnnRef, Holder
  <2>4. QED
    BY <1>3, <2>2, <2>3, Frame DEF AnnRef, TypeOK
<1>4. CASE AnnRefFails
  <2>1. AnnType'
    BY <1>4 DEF TypeOK, AnnType, AnnRefFails, AnnAt, AnnLabel, Starting
  <2>2. QED
    BY <1>4, <2>1, Frame DEF AnnRefFails, TypeOK
<1>5. CASE AnnRemove
  <2>1. AnnType' /\ SlotType'
    BY <1>5 DEF TypeOK, AnnType, SlotType, AnnRemove, AnnAt, AnnLabel, Starting
  <2>2. QED
    BY <1>5, <2>1, Frame DEF AnnRemove, TypeOK
<1>6. CASE AnnPush
  <2>1. AnnType' /\ annSession \in Session
    BY <1>6 DEF TypeOK, AnnType, AnnPush, AnnAt, AnnLabel, Starting
  <2>2. EnetType'
    BY <1>6, <2>1 DEF TypeOK, EnetType, AnnPush
  <2>3. QED
    BY <1>6, <2>1, <2>2, Frame DEF AnnPush, TypeOK
<1>7. CASE AnnRun
  <2>1. AnnType'
    BY <1>7 DEF TypeOK, AnnType, AnnRun, AnnAt, AnnLabel, Starting
  <2>2. SessionType'
    BY <1>7 DEF TypeOK, SessionType, AnnRun, StateE
  <2>3. QED
    BY <1>7, <2>1, <2>2, Frame DEF AnnRun, TypeOK
<1>8. CASE AnnCount
  <2>1. AnnType' /\ CountType'
    BY <1>8 DEF TypeOK, AnnType, CountType, AnnCount, AnnAt, AnnLabel, Starting
  <2>2. QED
    BY <1>8, <2>1, Frame DEF AnnCount, TypeOK
<1>9. CASE AnnFirst
  <2>1. AnnType' /\ CountType'
    BY <1>9 DEF TypeOK, AnnType, CountType, AnnFirst, AnnAt, AnnLabel, Starting
  <2>2. QED
    BY <1>9, <2>1, Frame DEF AnnFirst, TypeOK
<1>10. CASE AnnReturn
  <2>1. annSession \in Session
    BY <1>10 DEF TypeOK, AnnType, AnnReturn, AnnAt, Starting
  <2>2. AnnType'
    BY <1>10 DEF TypeOK, AnnType, AnnReturn, AnnLabel, Starting
  <2>3. SessionType' /\ CtxType'
    BY <1>10, <2>1, Frame, FreeType DEF AnnReturn, sessionVars
  <2>4. QED
    BY <1>10, <2>2, <2>3, Frame DEF AnnReturn, TypeOK
<1>11. CASE AnnEndBroadcast
  <2>1. AnnType'
    BY <1>11 DEF TypeOK, AnnType, AnnEndBroadcast, AnnLabel, Starting
  <2>2. CtlType' /\ EnetType' /\ CtxType'
    BY <1>11, TearDownType DEF AnnEndBroadcast
  <2>3. QED
    BY <1>11, <2>1, <2>2, Frame DEF AnnEndBroadcast, TypeOK
<1>12. ASSUME NEW k \in Kind, AnnSpawn(k) PROVE TypeOK'
  <2>1. AnnType' /\ annSession \in Session
    BY <1>12 DEF TypeOK, AnnType, AnnSpawn, AnnAt, AnnLabel, Starting
  <2>2. SessionType'
    BY <1>12, <2>1 DEF TypeOK, SessionType, AnnSpawn, AvLabel
  <2>3. QED
    BY <1>12, <2>1, <2>2, Frame DEF AnnSpawn, TypeOK
<1>13. CASE RtspCleanup
  <2>1. AnnType'
    BY <1>13 DEF TypeOK, AnnType, RtspCleanup, AnnLabel, Starting
  <2>2. ClearerType'
    BY <1>13, BeginClearType DEF TypeOK, CtxType, RtspCleanup, Clearer
  <2>3. QED
    BY <1>13, <2>1, <2>2, Frame DEF RtspCleanup, TypeOK
<1>14. ASSUME NEW s \in Session, AnnInsert(s) PROVE TypeOK'
  <2>1. AnnType' /\ SlotType'
    BY <1>14, NoneAssumption
       DEF TypeOK, AnnType, SlotType, AnnInsert, AnnLabel, Starting
  <2>2. SessionType'
    BY <1>14 DEF TypeOK, SessionType, AnnInsert, StateE
  <2>3. QED
    BY <1>14, <2>1, <2>2, Frame DEF AnnInsert, TypeOK
<1>15. QED
  BY <1>1, <1>2, <1>3, <1>4, <1>5, <1>6, <1>7, <1>8, <1>9, <1>10, <1>11, <1>12,
     <1>13, <1>14 DEF Rtsp

\* A step of the control thread keeps the types.
LEMMA ControlKeepsTypes ==
  ASSUME TypeOK,
         \/ Control
         \/ \E p \in Peer : \/ \E s \in Session : CtlConnect(p, s)
                            \/ \E bad \in BOOLEAN : CtlReceive(p, bad)
                            \/ CtlDisconnect(p)
  PROVE  TypeOK'
<1>1. CASE CtlLoop
  <2>1. CtlType'
    BY <1>1 DEF TypeOK, CtlType, EnetType, CtlLoop, CtlLabel
  <2>2. QED
    BY <1>1, <2>1, Frame DEF CtlLoop, TypeOK
<1>2. CASE CtlScanEnd
  <2>1. CtlType'
    BY <1>2 DEF TypeOK, CtlType, CtlScanEnd, CtlLabel
  <2>2. QED
    BY <1>2, <2>1, Frame DEF CtlScanEnd, TypeOK
<1>3. CASE CtlCheck
  <2>1. CtlType'
    BY <1>3 DEF TypeOK, CtlType, EnetType, CtlCheck, CtlLabel
  <2>2. QED
    BY <1>3, <2>1, Frame DEF CtlCheck, TypeOK
<1>4. CASE CtlIdle
  <2>1. CtlType'
    BY <1>4 DEF TypeOK, CtlType, CtlIdle, CtlLabel
  <2>2. QED
    BY <1>4, <2>1, Frame DEF CtlIdle, TypeOK
<1>5. CASE CtlExit
  <2>1. CtlType'
    BY <1>5 DEF TypeOK, CtlType, CtlExit, CtlLabel
  <2>2. QED
    BY <1>5, <2>1, Frame DEF CtlExit, TypeOK
<1>6. ASSUME NEW s \in Session, CtlFarewell(s) PROVE TypeOK'
  <2>1. CtlType' /\ SessionType'
    BY <1>6 DEF TypeOK, CtlType, SessionType, CtlFarewell
  <2>2. QED
    BY <1>6, <2>1, Frame DEF CtlFarewell, TypeOK
<1>7. ASSUME NEW s \in Session, NEW late \in BOOLEAN, CtlScanDrop(s, late)
      PROVE  TypeOK'
  <2>1. CtlType'
    BY <1>7 DEF TypeOK, CtlType, CtlScanDrop
  <2>2. controlEnd' \in [Session -> BOOLEAN] /\ av' \in [Session -> [Kind -> AvLabel]]
    BY <1>7 DEF TypeOK, SessionType, CtlScanDrop
  <2>3. SessionType'
    BY <1>7, <2>2, StopType DEF TypeOK, CtlScanDrop
  <2>4. EnetType'
    BY <1>7 DEF TypeOK, EnetType, CtlScanDrop, Unmap
  <2>5. QED
    BY <1>7, <2>1, <2>3, <2>4, Frame DEF CtlScanDrop, TypeOK
<1>8. ASSUME NEW s \in Session, NEW late \in BOOLEAN, CtlScanKeep(s, late)
      PROVE  TypeOK'
  <2>1. CtlType'
    BY <1>8 DEF TypeOK, CtlType, CtlScanKeep
  <2>2. QED
    BY <1>8, <2>1, Frame DEF CtlScanKeep, TypeOK
<1>9. ASSUME NEW p \in Peer, NEW s \in Session, CtlConnect(p, s) PROVE TypeOK'
  <2>1. CtlType'
    BY <1>9 DEF TypeOK, CtlType, CtlConnect, CtlLabel
  <2>2. SessionType'
    BY <1>9 DEF TypeOK, SessionType, CtlConnect
  <2>3. EnetType'
    BY <1>9, NoneAssumption DEF TypeOK, EnetType, CtlConnect
  <2>4. QED
    BY <1>9, <2>1, <2>2, <2>3, Frame DEF CtlConnect, TypeOK
<1>10. ASSUME NEW p \in Peer, NEW bad \in BOOLEAN, CtlReceive(p, bad) PROVE TypeOK'
  <2>1. CtlType'
    BY <1>10 DEF TypeOK, CtlType, CtlReceive, CtlLabel
  <2>2. peerToSession[p] \in Session
    BY <1>10 DEF TypeOK, EnetType, CtlReceive
  <2>3. controlEnd' \in [Session -> BOOLEAN] /\ av' \in [Session -> [Kind -> AvLabel]]
    BY <1>10 DEF TypeOK, SessionType, CtlReceive
  <2>4. SessionType'
    BY <1>10, <2>2, <2>3, StopType DEF TypeOK, CtlReceive
  <2>5. QED
    BY <1>10, <2>1, <2>4, Frame DEF CtlReceive, TypeOK
<1>11. ASSUME NEW p \in Peer, CtlDisconnect(p) PROVE TypeOK'
  <2>1. CtlType'
    BY <1>11 DEF TypeOK, CtlType, CtlDisconnect, CtlLabel
  <2>2. peerToSession[p] \in Session
    BY <1>11 DEF TypeOK, EnetType, CtlDisconnect
  <2>3. controlEnd' \in [Session -> BOOLEAN] /\ av' \in [Session -> [Kind -> AvLabel]]
    BY <1>11 DEF TypeOK, SessionType, CtlDisconnect
  <2>4. SessionType'
    BY <1>11, <2>2, <2>3, StopType DEF TypeOK, CtlDisconnect
  <2>5. EnetType'
    BY <1>11 DEF TypeOK, EnetType, CtlDisconnect
  <2>6. QED
    BY <1>11, <2>1, <2>4, <2>5, Frame DEF CtlDisconnect, TypeOK
<1>12. QED
  BY <1>1, <1>2, <1>3, <1>4, <1>5, <1>6, <1>7, <1>8, <1>9, <1>10, <1>11
     DEF Control

\* The steps of the media threads.
Media(s, k) ==
  \/ AvBegin(s, k) \/ AvPing(s, k)
  \/ AvPingTimeout(s, k) \/ AvShutdown(s, k) \/ AvFail(s, k)

\* A step of a media thread keeps the types.
LEMMA MediaKeepsTypes ==
  ASSUME TypeOK, NEW s \in Session, NEW k \in Kind, Media(s, k)
  PROVE  TypeOK'
<1>1. PICK l \in AvLabel : AvMove(s, k, l)
  BY DEF Media, AvBegin, AvPing, AvPingTimeout, AvShutdown, AvFail, AvLeave, AvLabel
<1>2. controlEnd' \in [Session -> BOOLEAN] /\ av' \in [Session -> [Kind -> AvLabel]]
  BY <1>1 DEF TypeOK, SessionType, AvMove
<1>3. Stop(s) \/ UNCHANGED <<state, shutdownEvent>>
  BY DEF Media, AvBegin, AvPing, AvPingTimeout, AvShutdown, AvFail, AvLeave
<1>4. SessionType'
  BY <1>1, <1>2, <1>3, StopType DEF TypeOK, AvMove
<1>5. holders' \subseteq Holder
  BY DEF TypeOK, CtxType, Holder, Media, AvBegin, AvPing, AvPingTimeout,
         AvShutdown, AvFail, AvLeave
<1>6. CtxType'
  BY <1>1, <1>5 DEF TypeOK, CtxType, AvMove
<1>7. QED
  BY <1>1, <1>4, <1>6, Frame DEF AvMove, TypeOK

\* The steps of the HTTPS handlers and of the rest of the host.
Host ==
  \/ HttpLaunch \/ HttpResume \/ HttpCancel \/ HttpReturns
  \/ MainStop \/ BroadcastFail \/ Shutdown

\* A step of the rest of the host keeps the types.
LEMMA HostKeepsTypes ==
  ASSUME TypeOK, Host
  PROVE  TypeOK'
<1>1. ASSUME NEW op \in {"launch", "resume", "cancel"}, NEW all \in BOOLEAN,
             Http(op, all)
      PROVE  TypeOK'
  <2>1. HostType'
    BY <1>1 DEF TypeOK, HostType, Http
  <2>2. ClearerType'
    BY <1>1, BeginClearType DEF Http, Clearer
  <2>3. QED
    BY <1>1, <2>1, <2>2, Frame DEF Http, TypeOK
<1>2. ASSUME NEW op \in {"launch", "resume", "cancel"}, HttpReturn(op),
             appRunning' \in BOOLEAN, launched' \in BOOLEAN
      PROVE  TypeOK'
  <2>1. HostType'
    BY <1>2 DEF TypeOK, HostType, HttpReturn
  <2>2. ClearerType'
    BY <1>2, GotoType DEF TypeOK, ClearerType, HttpReturn, Clearer, ClearLabel
  <2>3. QED
    BY <1>2, <2>1, <2>2, Frame DEF HttpReturn, TypeOK
<1>3. CASE HttpReturns
  BY <1>2, <1>3 DEF HttpReturns, HttpLaunched, HttpResumed, HttpFailed,
                    HttpCancelled, TypeOK, HostType
<1>4. CASE MainStop
  <2>1. ClearerType'
    BY <1>4, BeginClearType DEF MainStop, Clearer
  <2>2. QED
    BY <1>4, <2>1, Frame DEF MainStop, TypeOK
<1>5. CASE BroadcastFail
  <2>1. CtxType'
    BY <1>5 DEF TypeOK, CtxType, BroadcastFail
  <2>2. QED
    BY <1>5, <2>1, Frame DEF BroadcastFail, TypeOK
<1>6. CASE Shutdown
  <2>1. HostType'
    BY <1>6 DEF TypeOK, HostType, Shutdown
  <2>2. QED
    BY <1>6, <2>1, Frame DEF Shutdown, TypeOK
<1>7. QED
  BY <1>1, <1>3, <1>4, <1>5, <1>6 DEF Host, HttpLaunch, HttpResume, HttpCancel

\* The initial state has the types.
LEMMA InitType == Init => TypeOK
<1> SUFFICES ASSUME Init PROVE TypeOK
  OBVIOUS
<1>1. SessionType
  BY DEF Init, SessionType, StateE, AvLabel
<1>2. SlotType /\ AnnType /\ CtlType
  BY DEF Init, SlotType, AnnType, CtlType, AnnLabel, CtlLabel, Starting
<1>3. ClearerType
  <2>1. {} \in SUBSET Session
    OBVIOUS
  <2>2. todo \in [Clearer -> SUBSET Session]
    BY <2>1 DEF Init
  <2>3. /\ pc \in [Clearer -> ClearLabel] /\ want \in [Clearer -> BOOLEAN]
        /\ cur \in [Clearer -> Session \cup {NoSession}]
    BY DEF Init, ClearLabel
  <2>4. \A c \in Clearer : pc[c] = "idle"
    BY DEF Init
  <2>5. QED
    BY <2>2, <2>3, <2>4 DEF ClearerType
<1>4. EnetType
  BY DEF Init, EnetType
<1>5. CtxType
  BY DEF Init, CtxType
<1>6. CountType
  <2>1. running = 0 /\ streaming = FALSE
    BY DEF Init
  <2>2. running \in Int
    BY <2>1
  <2>3. QED
    BY <2>1, <2>2 DEF CountType
<1>7. HostType
  <2>1. /\ appRunning = FALSE /\ launched = FALSE /\ httpOp = "none"
        /\ requests = 0 /\ shutdown = FALSE /\ alive = TRUE
    BY DEF Init
  <2>2. requests \in Nat
    BY <2>1
  <2>3. QED
    BY <2>1, <2>2 DEF HostType
<1>8. QED
  BY <1>1, <1>2, <1>3, <1>4, <1>5, <1>6, <1>7 DEF TypeOK

\* Every step keeps the types.
LEMMA NextType == TypeOK /\ [Next]_vars => TypeOK'
<1> SUFFICES ASSUME TypeOK, [Next]_vars PROVE TypeOK'
  OBVIOUS
<1>1. CASE UNCHANGED vars
  BY <1>1, Frame DEF vars, TypeOK
<1>2. CASE Next
  BY <1>1, <1>2, ClearKeepsTypes, RtspKeepsTypes, ControlKeepsTypes,
     MediaKeepsTypes, HostKeepsTypes DEF Next, Media, Host, Terminated
<1>3. QED
  BY <1>1, <1>2

\* The types of the session life cycle, and that no thread stops, joins or serves
\* a session it does not have in hand.
THEOREM TypeCorrect == Spec => []TypeOK
BY InitType, NextType, PTL DEF Spec

----------------------------------------------------------------------------
(* A stop is final.  start() stores RUNNING plainly, so the argument is      *)
(* about who could have stopped the session before: nobody, because a stop   *)
(* only moves a RUNNING session and the session an ANNOUNCE is starting has  *)
(* been STOPPED since it was allocated.                                      *)

\* The labels of cmd_announce before start() stores RUNNING.
Early == {"ref", "remove", "push", "spawn", "run"}

\* What is known of a session that start() has not made RUNNING yet.
StopInv ==
  /\ \A s \in Session : life[s] = "unborn" => state[s] = "STOPPED"
  /\ ann \in Early => state[annSession] = "STOPPED"
  /\ ann \in Starting => life[annSession] # "unborn"

StopStep ==
  \A s \in Session : state[s] = "STOPPING" => state'[s] = "STOPPING"

\* A step that changes states by session::stop only, allocates no session and
\* moves cmd_announce, if at all, forward.
Gentle ==
  /\ UNCHANGED state \/ \E s \in Session : Stop(s)
  /\ \A s \in Session : life'[s] = "unborn" => life[s] = "unborn"
  /\ ann' \in Early => ann \in Early /\ UNCHANGED annSession
  /\ ann' \in Starting => ann \in Starting /\ UNCHANGED annSession

\* Such a step keeps the invariant and revives no session.
LEMMA GentleStep ==
  ASSUME TypeOK, TypeOK', StopInv, Gentle
  PROVE  StopInv' /\ StopStep
<1>1. \A s \in Session : \/ state'[s] = state[s]
                         \/ state[s] = "RUNNING" /\ state'[s] = "STOPPING"
  BY DEF Gentle, Stop, TypeOK, SessionType
<1>2. \A s \in Session : life'[s] = "unborn" => state'[s] = "STOPPED"
  BY <1>1 DEF StopInv, Gentle
<1>3. ann' \in Early => state'[annSession'] = "STOPPED"
  BY <1>1 DEF StopInv, Gentle, TypeOK, AnnType, Early, Starting
<1>4. ann' \in Starting => life'[annSession'] # "unborn"
  BY DEF StopInv, Gentle, TypeOK, AnnType
<1>5. QED
  BY <1>1, <1>2, <1>3, <1>4 DEF StopInv, StopStep

\* The destruction of a session object allocates none.
LEMMA FreeAllocatesNone ==
  ASSUME TypeOK, NEW s \in Session, Free(s)
  PROVE  \A r \in Session : life'[r] = "unborn" => life[r] = "unborn"
BY DEF TypeOK, SessionType, Free

\* What the clearing threads do is gentle.
LEMMA ClearIsGentle ==
  ASSUME TypeOK, NEW c \in Clearer, Clear(c) \/ HangKill(c)
  PROVE  Gentle
<1>1. UNCHANGED annVars
  BY DEF Clear, ClearAcquire, ClearSkip, ClearStop, ClearJoin, ClearJoinThrows,
         ClearLast, ClearErase, ClearEndBroadcast, ClearDone, HangKill
<1>2. UNCHANGED state \/ \E s \in Session : Stop(s)
  BY DEF Clear, ClearAcquire, ClearSkip, ClearStop, ClearJoin, ClearJoinThrows,
         ClearLast, ClearErase, ClearEndBroadcast, ClearDone, HangKill, sessionVars
<1>3. CASE ClearErase(c)
  <2>1. cur[c] \in Session
    BY <1>3 DEF TypeOK, ClearerType, ClearErase, At
  <2>2. \A s \in Session : life'[s] = "unborn" => life[s] = "unborn"
    BY <1>3, <2>1, FreeAllocatesNone DEF ClearErase
  <2>3. QED
    BY <1>1, <1>2, <2>2 DEF Gentle, annVars
<1>4. CASE ~ClearErase(c)
  <2>1. UNCHANGED life
    BY <1>4 DEF Clear, ClearAcquire, ClearSkip, ClearStop, ClearJoin,
                ClearJoinThrows, ClearLast, ClearEndBroadcast, ClearDone, HangKill,
                sessionVars
  <2>2. QED
    BY <1>1, <1>2, <2>1 DEF Gentle, annVars
<1>5. QED
  BY <1>3, <1>4

\* So is what the rtsp::handler thread does, but for the allocation of a session
\* and the store of RUNNING.
LEMMA RtspIsGentle ==
  ASSUME TypeOK, Rtsp \/ RtspCleanup, ~AnnRun
  PROVE  Gentle
<1>1. UNCHANGED state
  BY DEF Rtsp, RtspLoop, RtspExit, AnnRef, AnnRefFails, AnnRemove, AnnPush, AnnSpawn,
         AnnCount, AnnFirst, AnnReturn, AnnEndBroadcast, RtspCleanup, sessionVars
<1>2. CASE AnnReturn
  <2>1. annSession \in Session
    BY <1>2 DEF TypeOK, AnnType, AnnReturn, AnnAt, Starting
  <2>2. \A s \in Session : life'[s] = "unborn" => life[s] = "unborn"
    BY <1>2, <2>1, FreeAllocatesNone DEF AnnReturn
  <2>3. ann' \notin Starting /\ ann' \notin Early
    BY <1>2 DEF AnnReturn, Starting, Early
  <2>4. QED
    BY <1>1, <2>2, <2>3 DEF Gentle
<1>3. CASE ~AnnReturn
  <2>1. UNCHANGED <<life, annSession>>
    BY <1>3 DEF Rtsp, RtspLoop, RtspExit, AnnRef, AnnRefFails, AnnRemove, AnnPush,
                AnnSpawn, AnnCount, AnnFirst, AnnEndBroadcast, RtspCleanup,
                sessionVars
  <2>2. /\ ann' \in Early => ann \in Early
        /\ ann' \in Starting => ann \in Starting
    BY <1>3 DEF Rtsp, RtspLoop, RtspExit, AnnRef, AnnRefFails, AnnRemove, AnnPush,
                AnnSpawn, AnnCount, AnnFirst, AnnEndBroadcast, RtspCleanup,
                AnnAt, Early, Starting
  <2>3. QED
    BY <1>1, <2>1, <2>2 DEF Gentle
<1>4. QED
  BY <1>2, <1>3

\* What the control thread does is gentle.
LEMMA ControlIsGentle ==
  ASSUME TypeOK,
         \/ Control
         \/ \E p \in Peer : \/ \E s \in Session : CtlConnect(p, s)
                            \/ \E bad \in BOOLEAN : CtlReceive(p, bad)
                            \/ CtlDisconnect(p)
  PROVE  Gentle
<1>1. UNCHANGED life /\ UNCHANGED annVars
  BY DEF Control, CtlLoop, CtlScanEnd, CtlCheck, CtlIdle, CtlExit, CtlFarewell,
         CtlScanDrop, CtlScanKeep, CtlConnect, CtlReceive, CtlDisconnect, sessionVars
<1>2. \A p \in linked : peerToSession[p] \in Session
  BY DEF TypeOK, EnetType
<1>3. UNCHANGED state \/ \E s \in Session : Stop(s)
  BY <1>2 DEF Control, CtlLoop, CtlScanEnd, CtlCheck, CtlIdle, CtlExit, CtlFarewell,
         CtlScanDrop, CtlScanKeep, CtlConnect, CtlReceive, CtlDisconnect, sessionVars
<1>4. QED
  BY <1>1, <1>3 DEF Gentle, annVars

\* And so is what the media threads and the rest of the host do.
LEMMA OthersAreGentle ==
  ASSUME TypeOK,
         Host \/ Terminated \/ \E s \in Session, k \in Kind : Media(s, k)
  PROVE  Gentle
<1>1. CASE Host \/ Terminated
  <2>1. UNCHANGED <<sessionVars, annVars>>
    BY <1>1 DEF Host, HttpLaunch, HttpResume, HttpCancel, Http, HttpReturns,
                HttpLaunched, HttpResumed, HttpCancelled, HttpFailed, HttpReturn,
                MainStop, BroadcastFail, Shutdown, Terminated, vars
  <2>2. QED
    BY <2>1 DEF Gentle, sessionVars, annVars
<1>2. ASSUME NEW s \in Session, NEW k \in Kind, Media(s, k) PROVE Gentle
  <2>1. UNCHANGED <<life, annVars>>
    BY <1>2 DEF Media, AvBegin, AvPing, AvPingTimeout, AvShutdown, AvFail, AvLeave,
                AvMove
  <2>2. UNCHANGED state \/ Stop(s)
    BY <1>2 DEF Media, AvBegin, AvPing, AvPingTimeout, AvShutdown, AvFail, AvLeave
  <2>3. QED
    BY <2>1, <2>2 DEF Gentle, annVars
<1>3. QED
  BY <1>1, <1>2

\* Every step keeps the invariant and revives no session.
LEMMA StopInductive ==
  ASSUME TypeOK, TypeOK', StopInv, [Next]_vars
  PROVE  StopInv' /\ StopStep
<1>1. ASSUME NEW s \in Session, AnnInsert(s) PROVE StopInv' /\ StopStep
  <2>1. state[s] = "STOPPED"
    BY <1>1 DEF AnnInsert, StopInv
  <2>2. /\ \A r \in Session : state'[r] = state[r]
        /\ \A r \in Session : life'[r] = "unborn" => life[r] = "unborn"
        /\ life'[s] = "live" /\ annSession' = s
    BY <1>1, <2>1 DEF AnnInsert, TypeOK, SessionType
  <2>3. QED
    BY <2>1, <2>2 DEF StopInv, StopStep
<1>2. CASE AnnRun
  <2>1. annSession \in Session
    BY <1>2 DEF TypeOK, AnnType, AnnRun, AnnAt, Starting
  <2>2. state[annSession] = "STOPPED" /\ life[annSession] # "unborn"
    BY <1>2 DEF AnnRun, AnnAt, StopInv, Early, Starting
  <2>3. /\ \A r \in Session : r # annSession => state'[r] = state[r]
        /\ UNCHANGED <<life, annSession>> /\ ann' = "count"
    BY <1>2, <2>1 DEF AnnRun, TypeOK, SessionType
  <2>4. QED
    BY <2>1, <2>2, <2>3 DEF StopInv, StopStep, Early
<1>3. CASE UNCHANGED vars
  <2>1. Gentle
    BY <1>3 DEF Gentle, vars, sessionVars, annVars
  <2>2. QED
    BY <2>1, GentleStep
<1>4. ASSUME Next, ~AnnRun, ~\E s \in Session : AnnInsert(s)
      PROVE  StopInv' /\ StopStep
  <2>1. Gentle
    BY <1>4, ClearIsGentle, RtspIsGentle, ControlIsGentle, OthersAreGentle
       DEF Next, Media, Host
  <2>2. QED
    BY <2>1, GentleStep
<1>5. QED
  BY <1>1, <1>2, <1>3, <1>4

\* In every behaviour a session that was stopped stays STOPPING for good: the plain
\* store of RUNNING at the end of start() never overwrites a stop.
THEOREM StopFinal == Spec => StopIsFinal
<1>1. Init => StopInv
  BY DEF Init, StopInv, Early, Starting
<1>2. TypeOK /\ TypeOK' /\ StopInv /\ [Next]_vars => StopInv'
  BY StopInductive
<1>3. TypeOK /\ TypeOK' /\ StopInv /\ [Next]_vars => [StopStep]_vars
  BY StopInductive
<1>4. Spec => [][StopStep]_vars
  BY <1>1, <1>2, <1>3, TypeCorrect, PTL DEF Spec
<1>5. QED
  BY <1>4 DEF StopIsFinal, StopStep

----------------------------------------------------------------------------
(* Contexts and objects: ContextHeld, NoUseAfterFree and PeerMapSound.     *)

Active(s, k) == av[s][k] \in {"begin", "ping", "capture"}

\* No part of the program but cmd_announce knows the session.
Untouched(s) ==
  /\ \A k \in Kind : av[s][k] = "none"
  /\ ~controlEnd[s] /\ s \notin sessions /\ peerOf[s] = NoPeer

\* The labels of cmd_announce before the session is listed, and those at which it
\* has its reference to the context.
Unlisted == {"ref", "remove", "push"}
Held == {"push", "spawn", "run", "count", "first"}

\* A session object that was not allocated yet is untouched.
UnbornInv == \A s \in Session : life[s] = "unborn" => Untouched(s)

\* The session in the hands of cmd_announce: it lives, is untouched until it is
\* listed, has its reference to the context, and is out of its slot only when it was
\* joined or its start failed.
StartInv ==
  /\ ann \in Starting => life[annSession] = "live"
  /\ ann \in Unlisted => Untouched(annSession)
  /\ ann \in Held => <<annSession, "session">> \in holders
  /\ ann \in Starting /\ annSession \notin slots =>
       \/ Joinable(annSession)
       \/ ann = "return" /\ Untouched(annSession)

\* After the join the session stays joined until its slot is erased.
JoinInv ==
  \A c \in Clearer : pc[c] \in {"last", "erase"} => Joinable(cur[c])

\* A media thread that is not done runs under the reference of its session.
HolderInv ==
  \A s \in Session, k \in Kind : Active(s, k) => <<s, "session">> \in holders

\* One thread at a time is in end_broadcast.
EndInv ==
  /\ \A c \in Clearer : pc[c] = "ending" => ctx = "ending" /\ ann # "ending"
  /\ ann = "ending" => ctx = "ending"
  /\ \A c, d \in Clearer : pc[c] = "ending" /\ pc[d] = "ending" => c = d

\* The context is up while somebody holds it, the control thread lives with it.
CtxInv ==
  /\ ctx = "up" <=> holders # {}
  /\ ctl = "none" <=> ctx = "down"

\* The rest of a scan is part of the list, which goes with the context.
ListInv ==
  /\ ctlTodo \subseteq sessions
  /\ ctlTodo # {} => ctl \in {"scan", "farewell"}
  /\ ctl = "none" => sessions = {}

\* A session whose controlEnd was raised is no longer reached by the control thread.
ToldInv ==
  \A s \in Session : controlEnd[s] /\ ctl \notin {"none", "exited"} =>
    s \notin ctlTodo /\ (ctl # "farewell" => s \notin sessions)

\* A freed session has neither threads nor a slot, and was told or never listed.
FreeInv ==
  \A s \in Session : life[s] = "freed" =>
    /\ \A k \in Kind : ~Active(s, k)
    /\ s \notin slots
    /\ ~controlEnd[s] => s \notin sessions

\* The parts of the invariant, together.
SafeInv ==
  /\ UnbornInv /\ StartInv /\ JoinInv /\ HolderInv /\ EndInv
  /\ CtxInv /\ ListInv /\ PeerMapSound /\ ToldInv /\ FreeInv

----------------------------------------------------------------------------
(* Steps that leave the sessions, the list, the map and the context alone.  *)

\* Such a step at most moves a thread: a clearing thread not into last, erase or
\* ending, and cmd_announce forward within Held, or out of the session's start.
Quiet ==
  /\ UNCHANGED <<life, controlEnd, av, slots, annSession, ctl, ctlTodo, sessions,
                 peerOf, peerToSession, ctx, holders>>
  /\ \A c \in Clearer :
       /\ pc'[c] \in {"last", "erase"} =>
            pc[c] \in {"last", "erase"} /\ cur'[c] = cur[c]
       /\ pc'[c] = "ending" => pc[c] = "ending"
  /\ ann' \in Starting => ann \in Starting /\ (ann = "return" => ann' = "return")
  /\ ann' \in Unlisted => ann \in Unlisted
  /\ ann' \in Held => ann \in Held
  /\ ann' = "ending" => ann = "ending"

\* A quiet step keeps the invariant.
LEMMA QuietKeepsSafe ==
  ASSUME TypeOK, TypeOK', SafeInv, Quiet
  PROVE  SafeInv'
<1> USE DEF SafeInv, Quiet
<1>1. \A s \in Session : /\ Untouched(s) => Untouched(s)'
                         /\ Joinable(s) => Joinable(s)'
                         /\ \A k \in Kind : Active(s, k)' => Active(s, k)
  BY DEF Untouched, Joinable, Active
<1>2. UnbornInv' /\ HolderInv' /\ FreeInv'
  BY <1>1 DEF UnbornInv, HolderInv, FreeInv
<1>3. StartInv'
  <2>1. ann' \in Starting => annSession \in Session
    BY DEF TypeOK, AnnType
  <2>2. QED
    BY <1>1, <2>1 DEF StartInv, Unlisted, Held, Starting
<1>4. JoinInv'
  BY DEF JoinInv, Joinable
<1>5. EndInv'
  BY DEF EndInv
<1>6. CtxInv' /\ ListInv' /\ PeerMapSound' /\ ToldInv'
  BY DEF CtxInv, ListInv, PeerMapSound, ToldInv
<1>7. QED
  BY <1>2, <1>3, <1>4, <1>5, <1>6

\* The quiet steps of a clearing thread, of the rtsp::handler thread and of the host.
LEMMA ClearQuiet ==
  ASSUME TypeOK, NEW c \in Clearer, Clear(c) \/ HangKill(c),
         ~ClearJoin(c), ~ClearErase(c), ~ClearEndBroadcast(c)
  PROVE  Quiet
<1>1. UNCHANGED <<life, controlEnd, av, slots, ann, annSession, ctl, ctlTodo, sessions,
                  peerOf, peerToSession, ctx, holders>>
  BY DEF Clear, ClearAcquire, ClearSkip, ClearStop, ClearJoinThrows, ClearLast,
         ClearDone, HangKill, sessionVars, slotVars, annVars, ctlVars, enetVars, ctxVars
<1>2. \A d \in Clearer :
        /\ pc'[d] \in {"last", "erase"} =>
             pc[d] \in {"last", "erase"} /\ cur'[d] = cur[d]
        /\ pc'[d] = "ending" => pc[d] = "ending"
  BY DEF Clear, ClearAcquire, ClearSkip, ClearStop, ClearJoinThrows, ClearLast,
         ClearDone, HangKill, At, Goto, clearVars, TypeOK, ClearerType
<1>3. QED
  BY <1>1, <1>2 DEF Quiet

LEMMA RtspQuiet ==
  ASSUME TypeOK,
         \/ RtspLoop \/ RtspExit \/ RtspCleanup
         \/ AnnRefFails \/ AnnRun \/ AnnCount \/ AnnFirst
  PROVE  Quiet
<1>1. UNCHANGED <<life, controlEnd, av, slots, annSession, ctl, ctlTodo, sessions,
                  peerOf, peerToSession, ctx, holders>>
  BY DEF RtspLoop, RtspExit, RtspCleanup, AnnRefFails, AnnRun, AnnCount, AnnFirst,
         sessionVars, slotVars, annVars, ctlVars, enetVars, ctxVars
<1>2. \A d \in Clearer :
        /\ pc'[d] \in {"last", "erase"} =>
             pc[d] \in {"last", "erase"} /\ cur'[d] = cur[d]
        /\ pc'[d] = "ending" => pc[d] = "ending"
  BY DEF RtspLoop, RtspExit, RtspCleanup, AnnRefFails, AnnRun, AnnCount, AnnFirst,
         BeginClear, Goto, clearVars, TypeOK, ClearerType
<1>3. /\ ann' \in Starting => ann \in Starting /\ (ann = "return" => ann' = "return")
      /\ ann' \in Unlisted => ann \in Unlisted
      /\ ann' \in Held => ann \in Held
      /\ ann' = "ending" => ann = "ending"
  BY DEF RtspLoop, RtspExit, RtspCleanup, AnnRefFails, AnnRun, AnnCount, AnnFirst,
         AnnAt, Starting, Unlisted, Held
<1>4. QED
  BY <1>1, <1>2, <1>3 DEF Quiet

LEMMA HostQuiet ==
  ASSUME TypeOK, Host \/ UNCHANGED vars
  PROVE  Quiet
<1>1. UNCHANGED <<life, controlEnd, av, slots, ann, annSession, ctl, ctlTodo, sessions,
                  peerOf, peerToSession, ctx, holders>>
  BY DEF Host, HttpLaunch, HttpResume, HttpCancel, Http, HttpReturns, HttpLaunched,
         HttpResumed, HttpCancelled, HttpFailed, HttpReturn, MainStop, BroadcastFail,
         Shutdown, vars, sessionVars, slotVars, annVars, ctlVars, enetVars, ctxVars
<1>2. \A d \in Clearer :
        /\ pc'[d] \in {"last", "erase"} =>
             pc[d] \in {"last", "erase"} /\ cur'[d] = cur[d]
        /\ pc'[d] = "ending" => pc[d] = "ending"
  BY DEF Host, HttpLaunch, HttpResume, HttpCancel, Http, HttpReturns, HttpLaunched,
         HttpResumed, HttpCancelled, HttpFailed, HttpReturn, MainStop, BroadcastFail,
         Shutdown, vars, BeginClear, Goto, clearVars, TypeOK, ClearerType
<1>3. QED
  BY <1>1, <1>2 DEF Quiet

----------------------------------------------------------------------------
(* The other steps.                                                         *)

\* The release of a joined or untouched session keeps what the other threads rely on;
\* the caller shows what it keeps of cmd_announce and of its own label.
LEMMA FreeKeeps ==
  ASSUME TypeOK, SafeInv, NEW s \in Session, Free(s),
         Joinable(s) \/ Untouched(s),
         s \notin slots', slots' \subseteq slots,
         UNCHANGED <<controlEnd, av, ctl, ctlTodo, sessions, peerOf, peerToSession>>
  PROVE  /\ UnbornInv' /\ HolderInv' /\ FreeInv'
         /\ CtxInv' /\ ListInv' /\ PeerMapSound' /\ ToldInv'
         /\ holders = {<<s, "session">>} => ctx = "up" /\ ctx' = "ending"
         /\ holders # {<<s, "session">>} => UNCHANGED ctx
<1> USE DEF SafeInv, Free
<1>1. /\ life'[s] = "freed"
      /\ \A r \in Session : r # s => life'[r] = life[r]
  BY DEF TypeOK, SessionType
<1>2. \A k \in Kind : ~Active(s, k)
  BY DEF Joinable, Untouched, Active
<1>3. UnbornInv'
  BY <1>1 DEF UnbornInv, Untouched
<1>4. HolderInv'
  BY <1>2 DEF HolderInv, Active
<1>5. FreeInv'
  BY <1>1, <1>2 DEF FreeInv, Active, Joinable, Untouched
<1>6. CtxInv'
  <2>1. holders' = {} <=> holders = {} \/ holders = {<<s, "session">>}
    OBVIOUS
  <2>2. CASE holders = {<<s, "session">>}
    BY <2>1, <2>2 DEF CtxInv
  <2>3. CASE holders # {<<s, "session">>}
    BY <2>1, <2>3 DEF CtxInv
  <2>4. QED
    BY <2>2, <2>3
<1>7. ListInv' /\ PeerMapSound' /\ ToldInv'
  BY DEF ListInv, PeerMapSound, ToldInv
<1>8. QED
  BY <1>3, <1>4, <1>5, <1>6, <1>7 DEF CtxInv

\* The steps of a clearing thread.
LEMMA ClearKeepsSafe ==
  ASSUME TypeOK, TypeOK', SafeInv, NEW c \in Clearer, Clear(c) \/ HangKill(c)
  PROVE  SafeInv'
<1> USE DEF SafeInv
<1>1. CASE ClearJoin(c)
  <2>1. UNCHANGED <<life, controlEnd, av, slots, ann, annSession, ctl, ctlTodo,
                    sessions, peerOf, peerToSession, ctx, holders, cur>>
    BY <1>1 DEF ClearJoin, sessionVars, slotVars, annVars, ctlVars, enetVars, ctxVars
  <2>2. /\ Joinable(cur[c])
        /\ \A d \in Clearer : d # c => pc'[d] = pc[d]
        /\ pc'[c] # "ending"
    BY <1>1 DEF ClearJoin, Goto, TypeOK, ClearerType
  <2>3. UnbornInv' /\ HolderInv' /\ FreeInv' /\ StartInv'
    BY <2>1 DEF UnbornInv, HolderInv, FreeInv, StartInv, Untouched, Active, Joinable
  <2>4. JoinInv'
    BY <2>1, <2>2 DEF JoinInv, Joinable
  <2>5. EndInv'
    BY <2>1, <2>2 DEF EndInv
  <2>6. CtxInv' /\ ListInv' /\ PeerMapSound' /\ ToldInv'
    BY <2>1 DEF CtxInv, ListInv, PeerMapSound, ToldInv
  <2>7. QED
    BY <2>3, <2>4, <2>5, <2>6
<1>2. CASE ClearErase(c)
  <2>1. cur[c] \in Session /\ Joinable(cur[c])
    BY <1>2 DEF TypeOK, ClearerType, ClearErase, At, JoinInv
  <2>2. UNCHANGED <<controlEnd, av, ann, annSession, ctl, ctlTodo, sessions, peerOf,
                    peerToSession>>
    BY <1>2 DEF ClearErase, annVars, ctlVars, enetVars
  <2>3. /\ \A d \in Clearer : d # c => pc'[d] = pc[d] /\ cur'[d] = cur[d]
        /\ pc'[c] \in {"pick", "ending"}
        /\ slots' = slots \ {cur[c]}
    BY <1>2 DEF ClearErase, Goto, TypeOK, ClearerType
  <2>4. JoinInv'
    BY <2>2, <2>3 DEF JoinInv, Joinable
  <2>5. CASE annSession = cur[c]
    <3>1. UNCHANGED <<life, ctx, holders>> /\ pc'[c] = "pick"
      BY <1>2, <2>5 DEF ClearErase, ctxVars, Goto, TypeOK, ClearerType
    <3>2. UnbornInv' /\ HolderInv' /\ FreeInv'
      BY <2>2, <2>3, <3>1 DEF UnbornInv, HolderInv, FreeInv, Untouched, Active
    <3>3. StartInv'
      BY <2>1, <2>2, <2>3, <2>5, <3>1 DEF StartInv, Untouched, Joinable
    <3>4. EndInv' /\ CtxInv' /\ ListInv' /\ PeerMapSound' /\ ToldInv'
      BY <2>2, <2>3, <3>1 DEF EndInv, CtxInv, ListInv, PeerMapSound, ToldInv
    <3>5. QED
      BY <2>4, <3>2, <3>3, <3>4
  <2>6. CASE annSession # cur[c]
    <3>1. Free(cur[c])
      BY <1>2, <2>6 DEF ClearErase
    <3>2. /\ UnbornInv' /\ HolderInv' /\ FreeInv'
          /\ CtxInv' /\ ListInv' /\ PeerMapSound' /\ ToldInv'
          /\ holders = {<<cur[c], "session">>} => ctx = "up" /\ ctx' = "ending"
          /\ holders # {<<cur[c], "session">>} => UNCHANGED ctx
      BY <2>1, <2>2, <2>3, <3>1, FreeKeeps
    <3>3. ann \in Starting => life'[annSession] = life[annSession]
      BY <2>6, <3>1 DEF Free, TypeOK, SessionType, AnnType
    <3>4. StartInv'
      BY <2>2, <2>3, <2>6, <3>1, <3>3 DEF StartInv, Free, Untouched, Joinable
    <3>5. pc'[c] = "ending" <=> holders = {<<cur[c], "session">>}
      BY <1>2, <2>6 DEF ClearErase, Goto, TypeOK, ClearerType
    <3>6. EndInv'
      BY <2>2, <2>3, <3>2, <3>5 DEF EndInv
    <3>7. QED
      BY <2>4, <3>2, <3>4, <3>6
  <2>7. QED
    BY <2>5, <2>6
<1>3. CASE ClearEndBroadcast(c)
  <2>1. /\ UNCHANGED <<life, controlEnd, av, slots, ann, annSession, ctlTodo, peerOf,
                       holders, cur>>
        /\ ctl = "exited" /\ ctl' = "none" /\ ctx' = "down" /\ sessions' = {}
        /\ \A p \in Peer : peerToSession'[p] = NoSession
    BY <1>3 DEF ClearEndBroadcast, TearDown, sessionVars, slotVars, annVars
  <2>2. /\ \A d \in Clearer : d # c => pc'[d] = pc[d]
        /\ pc[c] = "ending" /\ pc'[c] = "pick"
    BY <1>3 DEF ClearEndBroadcast, At, Goto, TypeOK, ClearerType
  <2>3. ctx = "ending" /\ ann # "ending" /\ \A d \in Clearer : d # c => pc[d] # "ending"
    BY <2>2 DEF EndInv
  <2>4. UnbornInv' /\ HolderInv' /\ FreeInv' /\ StartInv'
    BY <2>1 DEF UnbornInv, HolderInv, FreeInv, StartInv, Untouched, Active, Joinable
  <2>5. JoinInv'
    BY <2>1, <2>2 DEF JoinInv, Joinable
  <2>6. EndInv' /\ CtxInv'
    BY <2>1, <2>2, <2>3 DEF EndInv, CtxInv
  <2>7. ListInv' /\ PeerMapSound' /\ ToldInv'
    BY <2>1 DEF ListInv, PeerMapSound, ToldInv
  <2>8. QED
    BY <2>4, <2>5, <2>6, <2>7
<1>4. CASE ~ClearJoin(c) /\ ~ClearErase(c) /\ ~ClearEndBroadcast(c)
  BY <1>4, ClearQuiet, QuietKeepsSafe
<1>5. QED
  BY <1>1, <1>2, <1>3, <1>4

\* What a step of cmd_announce leaves to the clearing threads.
LEMMA AnnKeepsClear ==
  ASSUME TypeOK, SafeInv, UNCHANGED <<pc, cur, controlEnd>>,
         \A s \in Session, k \in Kind : av[s][k] = "done" => av'[s][k] = "done"
  PROVE  JoinInv'
<1>1. \A c \in Clearer : pc[c] \in {"last", "erase"} => cur[c] \in Session
  BY DEF TypeOK, ClearerType
<1>2. QED
  BY <1>1 DEF SafeInv, JoinInv, Joinable

\* A session is allocated and gets its slot.
LEMMA InsertKeepsSafe ==
  ASSUME TypeOK, SafeInv, NEW s \in Session, AnnInsert(s)
  PROVE  SafeInv'
<1> USE DEF SafeInv
<1>1. /\ UNCHANGED <<controlEnd, av, pc, cur, ctl, ctlTodo, sessions, peerOf,
                     peerToSession, ctx, holders>>
      /\ life[s] = "unborn" /\ life'[s] = "live"
      /\ \A r \in Session : r # s => life'[r] = life[r]
      /\ slots' = slots \cup {s} /\ annSession' = s
      /\ ann = "iterate" /\ ann' = "ref"
  BY DEF AnnInsert, AnnAt, clearVars, ctlVars, enetVars, ctxVars, TypeOK, SessionType
<1>2. Untouched(s)
  BY <1>1 DEF UnbornInv
<1>3. UnbornInv' /\ HolderInv' /\ FreeInv'
  BY <1>1 DEF UnbornInv, HolderInv, FreeInv, Untouched, Active
<1>4. StartInv'
  BY <1>1, <1>2 DEF StartInv, Untouched, Starting, Unlisted, Held
<1>5. JoinInv'
  BY <1>1, AnnKeepsClear
<1>6. EndInv' /\ CtxInv' /\ ListInv' /\ PeerMapSound' /\ ToldInv'
  BY <1>1 DEF EndInv, CtxInv, ListInv, PeerMapSound, ToldInv
<1>7. QED
  BY <1>3, <1>4, <1>5, <1>6

\* The session takes its reference to the context.
LEMMA RefKeepsSafe ==
  ASSUME TypeOK, SafeInv, AnnRef
  PROVE  SafeInv'
<1> USE DEF SafeInv
<1>1. /\ UNCHANGED <<life, controlEnd, av, slots, pc, cur, annSession, ctlTodo,
                     sessions, peerOf, peerToSession>>
      /\ ann = "ref" /\ ann' = "push" /\ ctx # "ending" /\ ctx' = "up"
      /\ holders' = holders \cup {<<annSession, "session">>}
      /\ ctl' = IF ctx = "down" THEN "while" ELSE ctl
  BY DEF AnnRef, AnnAt, sessionVars, slotVars, clearVars, enetVars
<1>2. UnbornInv' /\ HolderInv' /\ FreeInv'
  BY <1>1 DEF UnbornInv, HolderInv, FreeInv, Untouched, Active
<1>3. StartInv'
  BY <1>1 DEF StartInv, Untouched, Joinable, Starting, Unlisted, Held
<1>4. JoinInv'
  BY <1>1, AnnKeepsClear
<1>5. EndInv' /\ CtxInv'
  BY <1>1 DEF EndInv, CtxInv
<1>6. ListInv' /\ PeerMapSound' /\ ToldInv'
  BY <1>1 DEF CtxInv, ListInv, PeerMapSound, ToldInv
<1>7. QED
  BY <1>2, <1>3, <1>4, <1>5, <1>6

\* A session that did not start loses its slot.
LEMMA RemoveKeepsSafe ==
  ASSUME TypeOK, SafeInv, AnnRemove
  PROVE  SafeInv'
<1> USE DEF SafeInv
<1>1. /\ UNCHANGED <<life, controlEnd, av, pc, cur, annSession, ctl, ctlTodo, sessions,
                     peerOf, peerToSession, ctx, holders>>
      /\ ann = "remove" /\ ann' = "return" /\ slots' = slots \ {annSession}
  BY DEF AnnRemove, AnnAt, sessionVars, clearVars, ctlVars, enetVars, ctxVars
<1>2. UnbornInv' /\ HolderInv' /\ FreeInv'
  BY <1>1 DEF UnbornInv, HolderInv, FreeInv, Untouched, Active
<1>3. StartInv'
  BY <1>1 DEF StartInv, Untouched, Joinable, Starting, Unlisted, Held
<1>4. JoinInv'
  BY <1>1, AnnKeepsClear
<1>5. EndInv' /\ CtxInv' /\ ListInv' /\ PeerMapSound' /\ ToldInv'
  BY <1>1 DEF EndInv, CtxInv, ListInv, PeerMapSound, ToldInv
<1>6. QED
  BY <1>2, <1>3, <1>4, <1>5

\* The session is listed.
LEMMA PushKeepsSafe ==
  ASSUME TypeOK, SafeInv, AnnPush
  PROVE  SafeInv'
<1> USE DEF SafeInv
<1>1. /\ UNCHANGED <<life, controlEnd, av, slots, pc, cur, annSession, ctl, ctlTodo,
                     peerOf, peerToSession, ctx, holders>>
      /\ ann = "push" /\ ann' = "spawn" /\ ctl \notin {"scan", "farewell"}
      /\ sessions' = sessions \cup {annSession}
  BY DEF AnnPush, AnnAt, sessionVars, slotVars, clearVars, ctlVars, ctxVars
<1>2. /\ annSession \in Session /\ life[annSession] = "live"
      /\ Untouched(annSession) /\ <<annSession, "session">> \in holders
  BY <1>1 DEF StartInv, Starting, Unlisted, Held, TypeOK, AnnType
<1>3. UnbornInv' /\ HolderInv' /\ FreeInv'
  BY <1>1, <1>2 DEF UnbornInv, HolderInv, FreeInv, Untouched, Active
<1>4. StartInv'
  BY <1>1, <1>2 DEF StartInv, Joinable, Starting, Unlisted, Held
<1>5. JoinInv'
  BY <1>1, AnnKeepsClear
<1>6. EndInv' /\ CtxInv'
  BY <1>1 DEF EndInv, CtxInv
<1>7. ListInv'
  BY <1>1, <1>2 DEF ListInv, CtxInv
<1>8. PeerMapSound'
  BY <1>1, <1>2 DEF PeerMapSound, Untouched
<1>9. ToldInv'
  BY <1>1, <1>2 DEF ToldInv, Untouched, ListInv
<1>10. QED
  BY <1>3, <1>4, <1>5, <1>6, <1>7, <1>8, <1>9

\* A media thread of the session is started.
LEMMA SpawnKeepsSafe ==
  ASSUME TypeOK, SafeInv, NEW k \in Kind, AnnSpawn(k)
  PROVE  SafeInv'
<1> USE DEF SafeInv
<1>1. annSession \in Session /\ life[annSession] = "live"
  BY DEF AnnSpawn, AnnAt, StartInv, Starting, TypeOK, AnnType
<1>2. /\ UNCHANGED <<life, controlEnd, slots, pc, cur, annSession, ctl, ctlTodo,
                     sessions, peerOf, peerToSession, ctx, holders>>
      /\ ann = "spawn" /\ ann' \in {"spawn", "run"} /\ av[annSession][k] = "none"
  BY DEF AnnSpawn, AnnAt, slotVars, clearVars, ctlVars, enetVars, ctxVars
<1>3. /\ \A r \in Session : r # annSession => av'[r] = av[r]
      /\ \A j \in Kind : j # k => av'[annSession][j] = av[annSession][j]
      /\ av'[annSession][k] = "begin"
  BY <1>1 DEF AnnSpawn, TypeOK, SessionType
<1>4. <<annSession, "session">> \in holders
  BY <1>2 DEF StartInv, Held
<1>5. UnbornInv' /\ HolderInv' /\ FreeInv'
  BY <1>1, <1>2, <1>3, <1>4 DEF UnbornInv, HolderInv, FreeInv, Untouched, Active
<1>6. annSession \in slots
  BY <1>2, <1>3 DEF StartInv, Joinable, Starting
<1>7. StartInv'
  BY <1>1, <1>2, <1>4, <1>6 DEF StartInv, Starting, Unlisted, Held
<1>8. JoinInv'
  BY <1>2, <1>3, AnnKeepsClear
<1>9. EndInv' /\ CtxInv' /\ ListInv' /\ PeerMapSound' /\ ToldInv'
  BY <1>2 DEF EndInv, CtxInv, ListInv, PeerMapSound, ToldInv
<1>10. QED
  BY <1>5, <1>7, <1>8, <1>9

\* cmd_announce lets its reference to the session go.
LEMMA ReturnKeepsSafe ==
  ASSUME TypeOK, SafeInv, AnnReturn
  PROVE  SafeInv'
<1> USE DEF SafeInv
<1>1. /\ UNCHANGED <<controlEnd, av, slots, pc, cur, ctl, ctlTodo, sessions, peerOf,
                     peerToSession>>
      /\ ann = "return" /\ ann' \in {"cleanup", "ending"}
  BY DEF AnnReturn, AnnAt, slotVars, clearVars, ctlVars, enetVars
<1>2. annSession \in Session
  BY <1>1 DEF TypeOK, AnnType, Starting
<1>3. StartInv'
  BY <1>1 DEF StartInv, Starting, Unlisted, Held
<1>4. JoinInv'
  BY <1>1, AnnKeepsClear
<1>5. CASE annSession \in slots
  <2>1. UNCHANGED <<life, ctx, holders>> /\ ann' = "cleanup"
    BY <1>5 DEF AnnReturn, ctxVars
  <2>2. UnbornInv' /\ HolderInv' /\ FreeInv'
    BY <1>1, <2>1 DEF UnbornInv, HolderInv, FreeInv, Untouched, Active
  <2>3. EndInv' /\ CtxInv' /\ ListInv' /\ PeerMapSound' /\ ToldInv'
    BY <1>1, <2>1 DEF EndInv, CtxInv, ListInv, PeerMapSound, ToldInv
  <2>4. QED
    BY <1>3, <1>4, <2>2, <2>3
<1>6. CASE annSession \notin slots
  <2>1. Free(annSession) /\ (ann' = "ending" <=> holders = {<<annSession, "session">>})
    BY <1>6 DEF AnnReturn
  <2>2. Joinable(annSession) \/ Untouched(annSession)
    BY <1>1, <1>6 DEF StartInv, Starting
  <2>3. /\ UnbornInv' /\ HolderInv' /\ FreeInv'
        /\ CtxInv' /\ ListInv' /\ PeerMapSound' /\ ToldInv'
        /\ holders = {<<annSession, "session">>} => ctx = "up" /\ ctx' = "ending"
        /\ holders # {<<annSession, "session">>} => UNCHANGED ctx
    BY <1>1, <1>2, <1>6, <2>1, <2>2, FreeKeeps
  <2>4. EndInv'
    BY <1>1, <2>1, <2>3 DEF EndInv
  <2>5. QED
    BY <1>3, <1>4, <2>3, <2>4
<1>7. QED
  BY <1>5, <1>6

\* The rest of end_broadcast, when the rtsp::handler thread is in it.
LEMMA AnnEndKeepsSafe ==
  ASSUME TypeOK, SafeInv, AnnEndBroadcast
  PROVE  SafeInv'
<1> USE DEF SafeInv
<1>1. /\ UNCHANGED <<life, controlEnd, av, slots, pc, cur, annSession, ctlTodo, peerOf,
                     holders>>
      /\ ann = "ending" /\ ann' = "cleanup"
      /\ ctl = "exited" /\ ctl' = "none" /\ ctx' = "down" /\ sessions' = {}
      /\ \A p \in Peer : peerToSession'[p] = NoSession
  BY DEF AnnEndBroadcast, AnnAt, TearDown, sessionVars, slotVars, clearVars
<1>2. ctx = "ending" /\ \A d \in Clearer : pc[d] # "ending"
  BY <1>1 DEF EndInv
<1>3. UnbornInv' /\ HolderInv' /\ FreeInv'
  BY <1>1 DEF UnbornInv, HolderInv, FreeInv, Untouched, Active
<1>4. StartInv'
  BY <1>1 DEF StartInv, Starting, Unlisted, Held
<1>5. JoinInv'
  BY <1>1, AnnKeepsClear
<1>6. EndInv' /\ CtxInv'
  BY <1>1, <1>2 DEF EndInv, CtxInv
<1>7. ListInv' /\ PeerMapSound' /\ ToldInv'
  BY <1>1 DEF ListInv, PeerMapSound, ToldInv
<1>8. QED
  BY <1>3, <1>4, <1>5, <1>6, <1>7

\* The steps of the rtsp::handler thread.
LEMMA RtspKeepsSafe ==
  ASSUME TypeOK, TypeOK', SafeInv,
         Rtsp \/ RtspCleanup \/ \E s \in Session : AnnInsert(s)
  PROVE  SafeInv'
BY RtspQuiet, QuietKeepsSafe, InsertKeepsSafe, RefKeepsSafe, RemoveKeepsSafe,
   PushKeepsSafe, SpawnKeepsSafe, ReturnKeepsSafe, AnnEndKeepsSafe DEF Rtsp

\* The control thread leaves the clearing threads, the slots and the context alone.
LEMMA CtlKeepsOthers ==
  ASSUME TypeOK, SafeInv,
         UNCHANGED <<life, av, slots, pc, cur, ann, annSession, ctx, holders>>,
         \A s \in Session : controlEnd[s] => controlEnd'[s],
         ctl # "none" /\ ctl' # "none"
  PROVE  HolderInv' /\ EndInv' /\ CtxInv' /\ JoinInv'
<1> USE DEF SafeInv
<1>1. HolderInv' /\ EndInv' /\ CtxInv'
  BY DEF HolderInv, Active, EndInv, CtxInv
<1>2. \A c \in Clearer : pc[c] \in {"last", "erase"} => cur[c] \in Session
  BY DEF TypeOK, ClearerType
<1>3. JoinInv'
  BY <1>2 DEF JoinInv, Joinable
<1>4. QED
  BY <1>1, <1>3

\* The steps that only move the control thread through its loop.
LEMMA LoopKeepsSafe ==
  ASSUME TypeOK, SafeInv,
         \/ CtlLoop \/ CtlScanEnd \/ CtlCheck \/ CtlIdle \/ CtlExit
         \/ \E s \in Session, late \in BOOLEAN : CtlScanKeep(s, late)
         \/ \E p \in Peer, bad \in BOOLEAN : CtlReceive(p, bad)
         \/ \E p \in Peer : CtlDisconnect(p)
  PROVE  SafeInv'
<1> USE DEF SafeInv
<1>1. UNCHANGED <<life, controlEnd, av, slots, pc, cur, ann, annSession, sessions,
                  peerOf, peerToSession, ctx, holders>>
  BY DEF CtlLoop, CtlScanEnd, CtlCheck, CtlIdle, CtlExit, CtlScanKeep, CtlReceive,
         CtlDisconnect, sessionVars, slotVars, clearVars, annVars, enetVars, ctxVars
<1>2. /\ ctl \notin {"none", "exited"} /\ ctl' # "none"
      /\ ctlTodo' \subseteq ctlTodo \/ (ctl # "farewell" /\ ctlTodo' = sessions)
      /\ ctlTodo' # {} => ctl' \in {"scan", "farewell"}
      /\ ctl = "farewell" => ctl' \in {"farewell", "exited"}
  <2>1. CASE CtlLoop \/ CtlScanEnd \/ CtlCheck \/ CtlIdle \/ CtlExit
    BY <2>1 DEF CtlLoop, CtlScanEnd, CtlCheck, CtlIdle, CtlExit, CtlAt, ListInv
  <2>2. ASSUME NEW s \in Session, NEW late \in BOOLEAN, CtlScanKeep(s, late)
        PROVE  UNCHANGED ctl /\ ctl = "scan" /\ ctlTodo' \subseteq ctlTodo
    BY <2>2 DEF CtlScanKeep, CtlAt
  <2>3. ASSUME NEW p \in Peer, CtlDisconnect(p) \/ \E bad \in BOOLEAN : CtlReceive(p, bad)
        PROVE  ctl = "serve" /\ ctl' = "while" /\ UNCHANGED ctlTodo
    BY <2>3 DEF CtlReceive, CtlDisconnect, CtlAt
  <2>4. QED
    BY <2>1, <2>2, <2>3 DEF ListInv
<1>3. HolderInv' /\ EndInv' /\ CtxInv' /\ JoinInv'
  BY <1>1, <1>2, CtlKeepsOthers
<1>4. UnbornInv' /\ StartInv' /\ FreeInv'
  BY <1>1 DEF UnbornInv, StartInv, FreeInv, Untouched, Active, Joinable
<1>5. ListInv' /\ PeerMapSound'
  BY <1>1, <1>2 DEF ListInv, PeerMapSound
<1>6. ToldInv'
  BY <1>1, <1>2 DEF ToldInv
<1>7. QED
  BY <1>3, <1>4, <1>5, <1>6

\* A session is told that the control thread is done with it.
LEMMA TellKeepsUntouched ==
  ASSUME TypeOK, SafeInv, NEW s \in Session, s \in ctlTodo,
         UNCHANGED <<life, av, slots, ann, annSession, peerOf, holders>>,
         controlEnd' = [controlEnd EXCEPT ![s] = TRUE],
         sessions' \subseteq sessions
  PROVE  UnbornInv' /\ StartInv' /\ FreeInv'
<1> USE DEF SafeInv
<1>1. s \in sessions
  BY DEF ListInv
<1>2. \A r \in Session : /\ r # s => controlEnd'[r] = controlEnd[r]
                         /\ controlEnd[r] => controlEnd'[r]
  BY DEF TypeOK, SessionType
<1>3. \A r \in Session : Untouched(r) => Untouched(r)'
  BY <1>1, <1>2 DEF Untouched
<1>4. \A r \in Session : Joinable(r) => Joinable(r)'
  BY <1>2 DEF Joinable
<1>5. UnbornInv'
  BY <1>3 DEF UnbornInv
<1>6. StartInv'
  <2>1. ann \in Starting => annSession \in Session
    BY DEF TypeOK, AnnType
  <2>2. Unlisted \subseteq Starting
    BY DEF Unlisted, Starting
  <2>3. QED
    BY <1>3, <1>4, <2>1, <2>2 DEF StartInv
<1>7. FreeInv'
  BY <1>2 DEF FreeInv, Active
<1>8. QED
  BY <1>5, <1>6, <1>7

\* The scan drops a session.
LEMMA DropKeepsSafe ==
  ASSUME TypeOK, SafeInv, NEW s \in Session, NEW late \in BOOLEAN, CtlScanDrop(s, late)
  PROVE  SafeInv'
<1> USE DEF SafeInv
<1>1. /\ UNCHANGED <<life, av, slots, pc, cur, ann, annSession, ctl, peerOf, ctx, holders>>
      /\ ctl = "scan" /\ s \in ctlTodo
      /\ ctlTodo' = ctlTodo \ {s} /\ sessions' = sessions \ {s}
      /\ controlEnd' = [controlEnd EXCEPT ![s] = TRUE]
  BY DEF CtlScanDrop, CtlAt, slotVars, clearVars, annVars, ctxVars
<1>2. \A r \in Session : /\ r # s => controlEnd'[r] = controlEnd[r]
                         /\ controlEnd[r] => controlEnd'[r]
  BY <1>1 DEF TypeOK, SessionType
<1>3. HolderInv' /\ EndInv' /\ CtxInv' /\ JoinInv'
  BY <1>1, <1>2, CtlKeepsOthers
<1>4. UnbornInv' /\ StartInv' /\ FreeInv'
  BY <1>1, TellKeepsUntouched
<1>5. ListInv'
  BY <1>1 DEF ListInv
<1>6. PeerMapSound'
  <2>1. \A p \in Peer : peerToSession'[p] = IF p = peerOf[s] THEN NoSession
                                                           ELSE peerToSession[p]
    BY DEF CtlScanDrop, Unmap
  <2>2. \A p \in Peer : peerToSession'[p] # NoSession =>
          peerToSession[p] # s /\ peerToSession'[p] = peerToSession[p]
    BY <2>1 DEF PeerMapSound
  <2>3. \A r \in sessions : peerOf[r] # NoPeer => peerOf[r] \in Peer
    BY DEF TypeOK, EnetType
  <2>4. \A r \in sessions : r # s /\ peerOf[r] # NoPeer => peerOf[r] # peerOf[s]
    BY <1>1 DEF PeerMapSound, ListInv
  <2>5. QED
    BY <1>1, <2>1, <2>2, <2>3, <2>4 DEF PeerMapSound
<1>7. ToldInv'
  BY <1>1, <1>2 DEF ToldInv
<1>8. QED
  BY <1>3, <1>4, <1>5, <1>6, <1>7

\* A session is told after the loop.
LEMMA FarewellKeepsSafe ==
  ASSUME TypeOK, SafeInv, NEW s \in Session, CtlFarewell(s)
  PROVE  SafeInv'
<1> USE DEF SafeInv
<1>1. /\ UNCHANGED <<life, av, slots, pc, cur, ann, annSession, ctl, sessions, peerOf,
                     peerToSession, ctx, holders>>
      /\ ctl = "farewell" /\ s \in ctlTodo /\ ctlTodo' = ctlTodo \ {s}
      /\ controlEnd' = [controlEnd EXCEPT ![s] = TRUE]
  BY DEF CtlFarewell, CtlAt, slotVars, clearVars, annVars, enetVars, ctxVars
<1>2. \A r \in Session : /\ r # s => controlEnd'[r] = controlEnd[r]
                         /\ controlEnd[r] => controlEnd'[r]
  BY <1>1 DEF TypeOK, SessionType
<1>3. HolderInv' /\ EndInv' /\ CtxInv' /\ JoinInv'
  BY <1>1, <1>2, CtlKeepsOthers
<1>4. UnbornInv' /\ StartInv' /\ FreeInv'
  BY <1>1, TellKeepsUntouched
<1>5. ListInv' /\ PeerMapSound'
  BY <1>1 DEF ListInv, PeerMapSound
<1>6. ToldInv'
  BY <1>1, <1>2 DEF ToldInv
<1>7. QED
  BY <1>3, <1>4, <1>5, <1>6

\* A peer connects.
LEMMA ConnectKeepsSafe ==
  ASSUME TypeOK, SafeInv, NEW p \in Peer, NEW s \in Session, CtlConnect(p, s)
  PROVE  SafeInv'
<1> USE DEF SafeInv
<1>1. /\ UNCHANGED <<life, controlEnd, av, slots, pc, cur, ann, annSession, ctlTodo,
                     sessions, ctx, holders>>
      /\ ctl = "serve" /\ ctl' = "while"
  BY DEF CtlConnect, CtlAt, slotVars, clearVars, annVars, ctxVars
<1>2. ctlTodo = {}
  BY <1>1 DEF ListInv
<1>3. HolderInv' /\ EndInv' /\ CtxInv' /\ JoinInv'
  BY <1>1, CtlKeepsOthers
<1>4. ListInv' /\ ToldInv'
  BY <1>1, <1>2 DEF ListInv, ToldInv
<1>5. CASE peerToSession[p] # NoSession
  <2>1. UNCHANGED <<peerOf, peerToSession>>
    BY <1>5 DEF CtlConnect
  <2>2. UnbornInv' /\ StartInv' /\ FreeInv' /\ PeerMapSound'
    BY <1>1, <2>1 DEF UnbornInv, StartInv, FreeInv, PeerMapSound, Untouched, Active,
                      Joinable
  <2>3. QED
    BY <1>3, <1>4, <2>2
<1>6. CASE peerToSession[p] = NoSession
  <2>1. /\ s \in sessions /\ peerOf[s] = NoPeer
        /\ peerOf'[s] = p /\ \A r \in Session : r # s => peerOf'[r] = peerOf[r]
        /\ peerToSession'[p] = s
        /\ \A q \in Peer : q # p => peerToSession'[q] = peerToSession[q]
    BY <1>6 DEF CtlConnect, TypeOK, EnetType
  <2>2. \A r \in Session : Untouched(r) => Untouched(r)'
    BY <1>1, <2>1 DEF Untouched
  <2>3. UnbornInv' /\ FreeInv'
    BY <1>1, <2>2 DEF UnbornInv, FreeInv, Active
  <2>4. StartInv'
    <3>1. ann \in Starting => annSession \in Session
      BY DEF TypeOK, AnnType
    <3>2. Unlisted \subseteq Starting
      BY DEF Unlisted, Starting
    <3>3. QED
      BY <1>1, <2>2, <3>1, <3>2 DEF StartInv, Joinable
  <2>5. PeerMapSound'
    <3>1. \A q \in Peer : peerToSession[q] # s
      BY <2>1, NoneAssumption DEF PeerMapSound, TypeOK, EnetType
    <3>2. \A r \in sessions : r \in Session /\ (peerOf[r] # NoPeer => peerOf[r] # p)
      BY <1>6, NoneAssumption DEF PeerMapSound, TypeOK, EnetType
    <3>3. \A r \in sessions : peerOf[r] # NoPeer => peerOf[r] \in Peer
      BY DEF TypeOK, EnetType
    <3>4. QED
      BY <1>1, <2>1, <3>1, <3>2, <3>3 DEF PeerMapSound
  <2>6. QED
    BY <1>3, <1>4, <2>3, <2>4, <2>5
<1>7. QED
  BY <1>5, <1>6

\* The steps of the control thread.
LEMMA ControlKeepsSafe ==
  ASSUME TypeOK, SafeInv,
         \/ Control
         \/ \E p \in Peer : \/ \E s \in Session : CtlConnect(p, s)
                            \/ \E bad \in BOOLEAN : CtlReceive(p, bad)
                            \/ CtlDisconnect(p)
  PROVE  SafeInv'
BY LoopKeepsSafe, DropKeepsSafe, FarewellKeepsSafe, ConnectKeepsSafe DEF Control

\* The steps of the media threads.
LEMMA MediaKeepsSafe ==
  ASSUME TypeOK, SafeInv, NEW s \in Session, NEW k \in Kind, Media(s, k)
  PROVE  SafeInv'
<1> USE DEF SafeInv
<1>1. /\ UNCHANGED <<life, controlEnd, slots, pc, cur, ann, annSession, ctl, ctlTodo,
                     sessions, peerOf, peerToSession, ctx>>
      /\ av[s][k] # "none" /\ Active(s, k)
  BY DEF Media, AvBegin, AvPing, AvPingTimeout, AvShutdown, AvFail, AvLeave, AvMove,
         AvAt, Active, slotVars, clearVars, annVars, ctlVars, enetVars
<1>2. PICK l \in {"ping", "capture", "done"} : av' = [av EXCEPT ![s][k] = l]
  BY DEF Media, AvBegin, AvPing, AvPingTimeout, AvShutdown, AvFail, AvLeave, AvMove
<1>3. /\ \A r \in Session : r # s => av'[r] = av[r]
      /\ \A j \in Kind : j # k => av'[s][j] = av[s][j]
      /\ av'[s][k] = l
  BY <1>2 DEF TypeOK, SessionType
<1>4. \A r \in Session, j \in Kind : Active(r, j)' => Active(r, j)
  BY <1>1, <1>3 DEF Active
<1>5. /\ <<s, "session">> \in holders /\ ctx = "up"
      /\ \A r \in Session : <<r, "session">> \in holders' <=> <<r, "session">> \in holders
  <2>1. <<s, "session">> \in holders /\ k # "session"
    BY <1>1, KindAssumption DEF HolderInv
  <2>2. \/ holders' = holders \/ holders' = holders \ {<<s, k>>}
        \/ holders' = holders \cup {<<s, k>>}
    BY DEF Media, AvBegin, AvPing, AvPingTimeout, AvShutdown, AvFail, AvLeave
  <2>3. QED
    BY <2>1, <2>2 DEF CtxInv
<1>6. \A r \in Session : Untouched(r) => Untouched(r)' /\ r # s
  BY <1>1, <1>3 DEF Untouched
<1>7. \A r \in Session : Joinable(r) => Joinable(r)'
  BY <1>1, <1>3 DEF Joinable, Active
<1>8. UnbornInv' /\ FreeInv'
  BY <1>1, <1>4, <1>6 DEF UnbornInv, FreeInv
<1>9. HolderInv'
  BY <1>4, <1>5 DEF HolderInv
<1>10. StartInv'
  <2>1. ann \in Starting => annSession \in Session
    BY DEF TypeOK, AnnType
  <2>2. Unlisted \subseteq Starting /\ Held \subseteq Starting
    BY DEF Unlisted, Held, Starting
  <2>3. QED
    BY <1>1, <1>5, <1>6, <1>7, <2>1, <2>2 DEF StartInv
<1>11. JoinInv'
  <2>1. \A c \in Clearer : pc[c] \in {"last", "erase"} => cur[c] \in Session
    BY DEF TypeOK, ClearerType
  <2>2. QED
    BY <1>1, <1>7, <2>1 DEF JoinInv
<1>12. EndInv' /\ CtxInv' /\ ListInv' /\ PeerMapSound' /\ ToldInv'
  BY <1>1, <1>5 DEF EndInv, CtxInv, ListInv, PeerMapSound, ToldInv
<1>13. QED
  BY <1>8, <1>9, <1>10, <1>11, <1>12

----------------------------------------------------------------------------
(* The theorems.                                                            *)

\* At the start there is nothing to reach.
LEMMA InitSafe == Init => SafeInv
<1> SUFFICES ASSUME Init PROVE SafeInv
  OBVIOUS
<1>1. UnbornInv /\ HolderInv /\ FreeInv
  BY DEF Init, UnbornInv, HolderInv, FreeInv, Untouched, Active
<1>2. StartInv
  BY DEF Init, StartInv, Starting, Unlisted, Held
<1>3. JoinInv /\ EndInv
  BY DEF Init, JoinInv, EndInv
<1>4. CtxInv /\ ListInv /\ PeerMapSound
  BY DEF Init, CtxInv, ListInv, PeerMapSound
<1>5. ToldInv
  BY DEF Init, ToldInv
<1>6. QED
  BY <1>1, <1>2, <1>3, <1>4, <1>5 DEF SafeInv

\* Every step keeps the invariant.
LEMMA NextSafe == TypeOK /\ TypeOK' /\ SafeInv /\ [Next]_vars => SafeInv'
<1> SUFFICES ASSUME TypeOK, TypeOK', SafeInv, [Next]_vars PROVE SafeInv'
  OBVIOUS
<1>1. CASE Host \/ UNCHANGED vars
  BY <1>1, HostQuiet, QuietKeepsSafe
<1>2. CASE Next
  BY <1>1, <1>2, ClearKeepsSafe, RtspKeepsSafe, ControlKeepsSafe, MediaKeepsSafe
     DEF Next, Media, Host, Terminated
<1>3. QED
  BY <1>1, <1>2

\* The invariant, for every instance.
THEOREM Safe == Spec => []SafeInv
BY InitSafe, NextSafe, TypeCorrect, PTL DEF Spec

\* The broadcast context is up exactly while somebody holds it, every media thread
\* that is not done finds it up, and its control thread lives and goes with it.
THEOREM ContextAlwaysHeld == Spec => []ContextHeld
<1>1. SafeInv => ContextHeld
  BY DEF SafeInv, CtxInv, HolderInv, Active, ContextHeld
<1>2. QED
  BY <1>1, Safe, PTL

\* Wherever a session object is freed, by the clearing threads or by the return of
\* cmd_announce, no media thread runs, no slot holds it, and the control thread
\* reaches it neither through its list, nor through a scan, nor through a peer.
THEOREM NeverUsedAfterFree == Spec => []NoUseAfterFree
<1>1. TypeOK /\ SafeInv => NoUseAfterFree
  <2> SUFFICES ASSUME TypeOK, SafeInv, NEW s \in Session, life[s] = "freed"
               PROVE  /\ \A k \in Kind : av[s][k] \in {"none", "done"}
                      /\ s \notin slots
                      /\ ctl \notin {"none", "exited"} =>
                           /\ s \notin ctlTodo
                           /\ ctl # "farewell" => s \notin sessions
                           /\ \A p \in Peer : peerToSession[p] = s => ctl = "farewell"
    BY DEF NoUseAfterFree
  <2>1. \A k \in Kind : av[s][k] \in {"none", "done"}
    BY DEF SafeInv, FreeInv, Active, TypeOK, SessionType, AvLabel
  <2>2. s \notin slots /\ (~controlEnd[s] => s \notin sessions)
    BY DEF SafeInv, FreeInv
  <2>3. ctl \notin {"none", "exited"} =>
          s \notin ctlTodo /\ (ctl # "farewell" => s \notin sessions)
    BY <2>2 DEF SafeInv, ToldInv, ListInv
  <2>4. \A p \in Peer : peerToSession[p] = s => s \in sessions
    BY NoneAssumption DEF SafeInv, PeerMapSound
  <2>5. QED
    BY <2>1, <2>2, <2>3, <2>4
<1>2. QED
  BY <1>1, Safe, TypeCorrect, PTL

\* A mapped peer and the peer of a listed session agree at all times, so that an
\* event of a peer reaches its own session.
THEOREM PeersAgree == Spec => []PeerMapSound
<1>1. SafeInv => PeerMapSound
  BY DEF SafeInv
<1>2. QED
  BY <1>1, Safe, PTL

----------------------------------------------------------------------------
(* running_sessions counts the slots: start() and join() keep the counter  *)
(* on their own, three threads keep the slots.  The proof follows the      *)
(* mutex of the slots through clear, and the two moments at which the      *)
(* counter and the slots may differ by one each.                           *)

\* The labels at which a clearing thread has the mutex of the slots.
Critical == {"pick", "join", "last", "erase", "ending"}

\* A session was joined and still has its slot; cmd_announce has a slot it has not
\* counted and will either count or remove.
JoinedSlot == \E c \in Clearer : pc[c] \in {"last", "erase"}
Uncounted == ann \in {"ref", "remove", "push", "spawn", "run", "count"}

\* Whoever clears owns the mutex, and what it has in hand and has yet to look at are
\* different slots.
LockInv ==
  /\ \A c \in Clearer : pc[c] \in Critical => slotOwner = c /\ todo[c] \subseteq slots
  /\ \A c \in Clearer : pc[c] \in {"join", "last", "erase"} =>
       cur[c] \in slots /\ cur[c] \notin todo[c]

\* Only an allocated session has a slot, and there are finitely many.
FiniteInv ==
  /\ \A s \in Session : life[s] = "unborn" => s \notin slots
  /\ IsFiniteSet(slots)

\* What the counter and the slots may differ by.
CountInv ==
  running = Cardinality(slots) - (IF JoinedSlot THEN 1 ELSE 0)
                               - (IF Uncounted THEN 1 ELSE 0)

\* The parts of the invariant, together.
SlotInv == LockInv /\ FiniteInv /\ CountInv

----------------------------------------------------------------------------

\* A step that leaves the slots, their mutex, the counter and the threads that have
\* the mutex alone.
Aside ==
  /\ UNCHANGED <<slots, slotOwner, running>>
  /\ \A s \in Session : life'[s] = "unborn" => life[s] = "unborn"
  /\ Uncounted' <=> Uncounted
  /\ \A c \in Clearer : pc[c] \in Critical \/ pc'[c] \in Critical =>
       pc'[c] = pc[c] /\ todo'[c] = todo[c] /\ cur'[c] = cur[c]

\* Such a step keeps the invariant.
LEMMA AsideKeepsSlots ==
  ASSUME SlotInv, Aside
  PROVE  SlotInv'
<1> USE DEF SlotInv, Aside
<1>1. LockInv'
  BY DEF LockInv, Critical
<1>2. FiniteInv'
  BY DEF FiniteInv
<1>3. JoinedSlot' <=> JoinedSlot
  BY DEF JoinedSlot, Critical
<1>4. CountInv'
  BY <1>3 DEF CountInv
<1>5. QED
  BY <1>1, <1>2, <1>4

\* The steps of the control thread, the media threads and the host stand aside, and so
\* do those of the rtsp::handler thread but for three.
LEMMA OthersAside ==
  ASSUME TypeOK,
         \/ Control
         \/ \E p \in Peer : \/ \E s \in Session : CtlConnect(p, s)
                            \/ \E bad \in BOOLEAN : CtlReceive(p, bad)
                            \/ CtlDisconnect(p)
         \/ \E s \in Session, k \in Kind : Media(s, k)
  PROVE  Aside
<1>1. UNCHANGED <<slots, slotOwner, running, life, ann, pc, todo, cur>>
  <2>1. CASE Control
    BY <2>1 DEF Control, CtlLoop, CtlScanEnd, CtlCheck, CtlIdle, CtlExit, CtlFarewell,
                CtlScanDrop, CtlScanKeep, sessionVars, slotVars, clearVars, annVars,
                countVars
  <2>2. ASSUME NEW p \in Peer,
               \/ \E s \in Session : CtlConnect(p, s)
               \/ \E bad \in BOOLEAN : CtlReceive(p, bad)
               \/ CtlDisconnect(p)
        PROVE  UNCHANGED <<slots, slotOwner, running, life, ann, pc, todo, cur>>
    BY <2>2 DEF CtlConnect, CtlReceive, CtlDisconnect, slotVars, clearVars, annVars,
                countVars
  <2>3. ASSUME NEW s \in Session, NEW k \in Kind, Media(s, k)
        PROVE  UNCHANGED <<slots, slotOwner, running, life, ann, pc, todo, cur>>
    BY <2>3 DEF Media, AvBegin, AvPing, AvPingTimeout, AvShutdown, AvFail, AvLeave,
                AvMove, slotVars, clearVars, annVars, countVars
  <2>4. QED
    BY <2>1, <2>2, <2>3
<1>2. QED
  BY <1>1 DEF Aside, Uncounted

LEMMA HostAside ==
  ASSUME TypeOK, Host \/ UNCHANGED vars
  PROVE  Aside
<1>1. UNCHANGED <<slots, slotOwner, running, life, ann>>
  BY DEF Host, HttpLaunch, HttpResume, HttpCancel, Http, HttpReturns, HttpLaunched,
         HttpResumed, HttpCancelled, HttpFailed, HttpReturn, MainStop, BroadcastFail,
         Shutdown, vars, sessionVars, slotVars, annVars, countVars
<1>2. \A c \in Clearer : pc[c] \in Critical \/ pc'[c] \in Critical =>
        pc'[c] = pc[c] /\ todo'[c] = todo[c] /\ cur'[c] = cur[c]
  BY DEF Host, HttpLaunch, HttpResume, HttpCancel, Http, HttpReturns, HttpLaunched,
         HttpResumed, HttpCancelled, HttpFailed, HttpReturn, MainStop, BroadcastFail,
         Shutdown, vars, BeginClear, Goto, clearVars, Critical, TypeOK, ClearerType
<1>3. QED
  BY <1>1, <1>2 DEF Aside, Uncounted

LEMMA RtspAside ==
  ASSUME TypeOK, SafeInv, Rtsp \/ RtspCleanup, ~AnnRemove, ~AnnCount
  PROVE  Aside
<1>1. UNCHANGED <<slots, slotOwner, running>>
  BY DEF Rtsp, RtspLoop, RtspExit, AnnRef, AnnRefFails, AnnPush, AnnSpawn, AnnRun,
         AnnFirst, AnnReturn, AnnEndBroadcast, RtspCleanup, slotVars, countVars
<1>2. \A s \in Session : life'[s] = "unborn" => life[s] = "unborn"
  BY FreeAllocatesNone
     DEF Rtsp, RtspLoop, RtspExit, AnnRef, AnnRefFails, AnnPush, AnnSpawn, AnnRun,
         AnnFirst, AnnReturn, AnnEndBroadcast, RtspCleanup, sessionVars, AnnAt, TypeOK,
         AnnType, Starting
<1>3. Uncounted' <=> Uncounted
  BY DEF Rtsp, RtspLoop, RtspExit, AnnRef, AnnRefFails, AnnPush, AnnSpawn, AnnRun,
         AnnFirst, AnnReturn, AnnEndBroadcast, RtspCleanup, AnnAt, Uncounted
<1>4. \A c \in Clearer : pc[c] \in Critical \/ pc'[c] \in Critical =>
        pc'[c] = pc[c] /\ todo'[c] = todo[c] /\ cur'[c] = cur[c]
  BY DEF Rtsp, RtspLoop, RtspExit, AnnRef, AnnRefFails, AnnPush, AnnSpawn, AnnRun,
         AnnFirst, AnnReturn, AnnEndBroadcast, RtspCleanup, BeginClear, Goto, clearVars,
         Critical, TypeOK, ClearerType
<1>5. QED
  BY <1>1, <1>2, <1>3, <1>4 DEF Aside

----------------------------------------------------------------------------

\* ANNOUNCE inserts a slot it has not counted, removes it again, or counts it.
LEMMA AnnounceKeepsSlots ==
  ASSUME TypeOK, SafeInv, SlotInv,
         AnnRemove \/ AnnCount \/ \E s \in Session : AnnInsert(s)
  PROVE  SlotInv'
<1> USE DEF SlotInv
<1>1. UNCHANGED <<pc, todo, cur, slotOwner>>
  BY DEF AnnRemove, AnnCount, AnnInsert, clearVars, slotVars
<1>2. JoinedSlot' <=> JoinedSlot
  BY <1>1 DEF JoinedSlot
<1>3. slotOwner = NoOwner => \A c \in Clearer : pc[c] \notin Critical
  BY OwnerAssumption DEF LockInv
<1>4. Cardinality(slots) \in Nat
  BY FS_CardinalityType DEF FiniteInv
<1>5. CASE AnnCount
  <2>1. /\ UNCHANGED <<slots, life>> /\ running' = running + 1
        /\ ann = "count" /\ ann' \in {"first", "return"}
    BY <1>5 DEF AnnCount, AnnAt, slotVars, sessionVars
  <2>2. LockInv' /\ FiniteInv'
    BY <1>1, <2>1 DEF LockInv, FiniteInv
  <2>3. CountInv'
    BY <1>2, <1>4, <2>1 DEF CountInv, Uncounted
  <2>4. QED
    BY <2>2, <2>3
<1>6. CASE AnnRemove
  <2>1. /\ UNCHANGED <<life, running>> /\ slots' = slots \ {annSession}
        /\ slotOwner = NoOwner /\ ann = "remove" /\ ann' = "return"
    BY <1>6 DEF AnnRemove, AnnAt, sessionVars, countVars
  <2>2. annSession \in slots
    BY <2>1 DEF SafeInv, StartInv, Starting, Unlisted, Untouched, Joinable
  <2>3. LockInv'
    BY <1>1, <1>3, <2>1 DEF LockInv, Critical
  <2>4. /\ IsFiniteSet(slots')
        /\ Cardinality(slots') = Cardinality(slots) - 1
    BY <2>1, <2>2, FS_RemoveElement DEF FiniteInv
  <2>5. FiniteInv'
    BY <2>1, <2>4 DEF FiniteInv
  <2>6. CountInv'
    BY <1>2, <1>4, <2>1, <2>4 DEF CountInv, Uncounted
  <2>7. QED
    BY <2>3, <2>5, <2>6
<1>7. ASSUME NEW s \in Session, AnnInsert(s) PROVE SlotInv'
  <2>1. /\ UNCHANGED running /\ slots' = slots \cup {s}
        /\ life[s] = "unborn" /\ life'[s] = "live"
        /\ \A r \in Session : r # s => life'[r] = life[r]
        /\ slotOwner = NoOwner /\ ann = "iterate" /\ ann' = "ref"
    BY <1>7 DEF AnnInsert, AnnAt, countVars, TypeOK, SessionType
  <2>2. s \notin slots
    BY <2>1 DEF FiniteInv
  <2>3. LockInv'
    BY <1>1, <1>3, <2>1 DEF LockInv, Critical
  <2>4. /\ IsFiniteSet(slots')
        /\ Cardinality(slots') = Cardinality(slots) + 1
    BY <2>1, <2>2, FS_AddElement DEF FiniteInv
  <2>5. FiniteInv'
    BY <2>1, <2>4 DEF FiniteInv
  <2>6. CountInv'
    BY <1>2, <1>4, <2>1, <2>4 DEF CountInv, Uncounted
  <2>7. QED
    BY <2>3, <2>5, <2>6
<1>8. QED
  BY <1>5, <1>6, <1>7

----------------------------------------------------------------------------

\* A clearing thread that has the mutex moves on: the other threads have nothing to
\* do with the slots.
LEMMA AloneInClear ==
  ASSUME SlotInv, NEW c \in Clearer, pc[c] \in Critical
  PROVE  /\ slotOwner = c
         /\ \A d \in Clearer : d # c => pc[d] \notin Critical
         /\ JoinedSlot <=> pc[c] \in {"last", "erase"}
BY DEF SlotInv, LockInv, JoinedSlot, Critical

\* A step of a clearing thread that changes neither the slots nor the counter.
LEMMA MoveKeepsSlots ==
  ASSUME TypeOK, SlotInv, NEW c \in Clearer, pc[c] \in Critical,
         UNCHANGED <<slots, running, life, ann>>,
         \A d \in Clearer : d # c => pc'[d] = pc[d],
         pc'[c] \in {"last", "erase"} <=> pc[c] \in {"last", "erase"},
         pc'[c] \in Critical =>
           slotOwner' = slotOwner /\ todo'[c] \subseteq todo[c],
         pc'[c] \in {"join", "last", "erase"} =>
           cur'[c] \in slots /\ cur'[c] \notin todo'[c]
  PROVE  SlotInv'
<1> USE DEF SlotInv
<1>1. /\ slotOwner = c
      /\ \A d \in Clearer : d # c => pc[d] \notin Critical
      /\ JoinedSlot <=> pc[c] \in {"last", "erase"}
  BY AloneInClear
<1>2. LockInv'
  BY <1>1 DEF LockInv, Critical
<1>3. FiniteInv'
  BY DEF FiniteInv
<1>4. JoinedSlot' <=> JoinedSlot
  BY <1>1 DEF JoinedSlot, Critical
<1>5. CountInv'
  BY <1>4 DEF CountInv, Uncounted
<1>6. QED
  BY <1>2, <1>3, <1>5

\* The steps of a clearing thread.
LEMMA ClearKeepsSlots ==
  ASSUME TypeOK, SafeInv, SlotInv, NEW c \in Clearer, Clear(c) \/ HangKill(c)
  PROVE  SlotInv'
<1>1. UNCHANGED <<ann, annSession>>
  BY DEF Clear, ClearAcquire, ClearSkip, ClearStop, ClearJoin, ClearJoinThrows,
         ClearLast, ClearErase, ClearEndBroadcast, ClearDone, HangKill, annVars
<1>2. CASE ClearAcquire(c)
  <2>1. /\ UNCHANGED <<slots, running, life, cur>>
        /\ slotOwner = NoOwner /\ slotOwner' = c /\ todo'[c] = slots
        /\ pc'[c] = "pick" /\ \A d \in Clearer : d # c => pc'[d] = pc[d]
    BY <1>2 DEF ClearAcquire, Goto, TypeOK, ClearerType, sessionVars, countVars
  <2>2. \A d \in Clearer : pc[d] \notin Critical
    BY <2>1, OwnerAssumption DEF SlotInv, LockInv
  <2>3. LockInv' /\ FiniteInv'
    BY <2>1, <2>2 DEF SlotInv, LockInv, FiniteInv, Critical
  <2>4. ~JoinedSlot /\ ~JoinedSlot'
    BY <2>1, <2>2 DEF JoinedSlot, Critical
  <2>5. CountInv'
    BY <1>1, <2>1, <2>4 DEF SlotInv, CountInv, Uncounted
  <2>6. QED
    BY <2>3, <2>5 DEF SlotInv
<1>3. ASSUME NEW s \in Session, ClearSkip(c, s) \/ ClearStop(c, s) PROVE SlotInv'
  <2>1. /\ UNCHANGED <<slots, slotOwner, running, life>>
        /\ pc[c] = "pick" /\ s \in todo[c] /\ todo'[c] = todo[c] \ {s}
        /\ \A d \in Clearer : d # c => pc'[d] = pc[d]
        /\ pc'[c] = "pick" \/ (pc'[c] = "join" /\ cur'[c] = s)
    BY <1>3 DEF ClearSkip, ClearStop, At, Goto, TypeOK, ClearerType, sessionVars,
                slotVars, countVars
  <2>2. s \in slots
    BY <2>1 DEF SlotInv, LockInv, Critical
  <2>3. QED
    BY <1>1, <2>1, <2>2, MoveKeepsSlots DEF Critical
<1>4. CASE ClearJoin(c)
  <2>1. /\ UNCHANGED <<slots, slotOwner, life, todo, cur>> /\ running' = running - 1
        /\ pc[c] = "join" /\ pc'[c] \in {"last", "erase"}
        /\ \A d \in Clearer : d # c => pc'[d] = pc[d]
    BY <1>4 DEF ClearJoin, At, Goto, TypeOK, ClearerType, sessionVars, slotVars
  <2>2. LockInv' /\ FiniteInv'
    BY <2>1 DEF SlotInv, LockInv, FiniteInv, Critical
  <2>3. ~JoinedSlot
    BY <2>1, AloneInClear DEF Critical
  <2>4. JoinedSlot'
    BY <2>1 DEF JoinedSlot
  <2>5. Cardinality(slots) \in Nat
    BY FS_CardinalityType DEF SlotInv, FiniteInv
  <2>6. CountInv'
    BY <1>1, <2>1, <2>3, <2>4, <2>5 DEF SlotInv, CountInv, Uncounted
  <2>7. QED
    BY <2>2, <2>6 DEF SlotInv
<1>5. CASE ClearJoinThrows(c)
  <2>1. /\ UNCHANGED <<slots, running, life>>
        /\ pc[c] = "join" /\ pc'[c] = "idle"
        /\ \A d \in Clearer : d # c => pc'[d] = pc[d]
    BY <1>5 DEF ClearJoinThrows, At, Goto, TypeOK, ClearerType, sessionVars, countVars
  <2>2. QED
    BY <1>1, <2>1, MoveKeepsSlots DEF Critical
<1>6. CASE ClearLast(c)
  <2>1. /\ UNCHANGED <<slots, slotOwner, running, life, todo, cur>>
        /\ pc[c] = "last" /\ pc'[c] = "erase"
        /\ \A d \in Clearer : d # c => pc'[d] = pc[d]
    BY <1>6 DEF ClearLast, At, Goto, TypeOK, ClearerType, sessionVars, slotVars
  <2>2. cur[c] \in slots /\ cur[c] \notin todo[c]
    BY <2>1 DEF SlotInv, LockInv
  <2>3. QED
    BY <1>1, <2>1, <2>2, MoveKeepsSlots DEF Critical
<1>7. CASE ClearErase(c)
  <2>1. /\ UNCHANGED <<slotOwner, running, todo>> /\ slots' = slots \ {cur[c]}
        /\ pc[c] = "erase" /\ pc'[c] \in {"pick", "ending"}
        /\ \A d \in Clearer : d # c => pc'[d] = pc[d]
    BY <1>7 DEF ClearErase, At, Goto, TypeOK, ClearerType, countVars
  <2>2. cur[c] \in slots /\ cur[c] \notin todo[c]
    BY <2>1 DEF SlotInv, LockInv
  <2>3. /\ \A d \in Clearer : d # c => pc[d] \notin Critical
        /\ JoinedSlot /\ ~JoinedSlot'
    BY <2>1, AloneInClear DEF Critical, JoinedSlot
  <2>4. LockInv'
    BY <2>1, <2>2, <2>3 DEF SlotInv, LockInv, Critical
  <2>5. /\ IsFiniteSet(slots')
        /\ Cardinality(slots') = Cardinality(slots) - 1
    BY <2>1, <2>2, FS_RemoveElement DEF SlotInv, FiniteInv
  <2>6. \A s \in Session : life'[s] = "unborn" => life[s] = "unborn"
    BY <1>7, <2>1, FreeAllocatesNone DEF ClearErase, TypeOK, ClearerType
  <2>7. FiniteInv'
    BY <2>1, <2>5, <2>6 DEF SlotInv, FiniteInv
  <2>8. Cardinality(slots) \in Nat
    BY FS_CardinalityType DEF SlotInv, FiniteInv
  <2>9. CountInv'
    BY <1>1, <2>1, <2>3, <2>5, <2>8 DEF SlotInv, CountInv, Uncounted
  <2>10. QED
    BY <2>4, <2>7, <2>9 DEF SlotInv
<1>8. CASE ClearEndBroadcast(c) \/ ClearDone(c)
  <2>1. /\ UNCHANGED <<slots, running, life, todo>>
        /\ pc[c] \in {"ending", "pick"}
        /\ pc'[c] = "cleared" \/ (pc'[c] = "pick" /\ UNCHANGED slotOwner)
        /\ \A d \in Clearer : d # c => pc'[d] = pc[d]
    BY <1>8 DEF ClearEndBroadcast, ClearDone, At, Goto, TypeOK, ClearerType,
                sessionVars, slotVars, countVars
  <2>2. QED
    BY <1>1, <2>1, MoveKeepsSlots DEF Critical
<1>9. CASE HangKill(c)
  <2>1. Aside
    BY <1>9 DEF HangKill, Aside, Uncounted, sessionVars, slotVars, clearVars, annVars,
                countVars
  <2>2. QED
    BY <2>1, AsideKeepsSlots
<1>10. QED
  BY <1>2, <1>3, <1>4, <1>5, <1>6, <1>7, <1>8, <1>9 DEF Clear

----------------------------------------------------------------------------

\* The invariant, for every instance.
THEOREM SlotsCounted == Spec => []SlotInv
<1>1. Init => SlotInv
  <2> SUFFICES ASSUME Init PROVE SlotInv
    OBVIOUS
  <2>1. /\ slots = {} /\ running = 0 /\ ann = "iterate"
        /\ \A c \in Clearer : pc[c] = "idle"
    BY DEF Init
  <2>2. IsFiniteSet(slots) /\ Cardinality(slots) = 0
    BY <2>1, FS_EmptySet
  <2>3. QED
    BY <2>1, <2>2 DEF SlotInv, LockInv, FiniteInv, CountInv, JoinedSlot, Uncounted,
                      Critical
<1>2. TypeOK /\ SafeInv /\ SlotInv /\ [Next]_vars => SlotInv'
  <2> SUFFICES ASSUME TypeOK, SafeInv, SlotInv, [Next]_vars PROVE SlotInv'
    OBVIOUS
  <2>1. CASE Host \/ UNCHANGED vars
    BY <2>1, HostAside, AsideKeepsSlots
  <2>2. CASE Next
    BY <2>1, <2>2, ClearKeepsSlots, AnnounceKeepsSlots, RtspAside, OthersAside,
       AsideKeepsSlots
       DEF Next, Media, Host, Terminated
  <2>3. QED
    BY <2>1, <2>2
<1>3. QED
  BY <1>1, <1>2, TypeCorrect, Safe, PTL DEF Spec

\* Whenever no session is being started and none is being removed, running_sessions
\* is the number of slots, however ANNOUNCE, its failures and the three
\* clearing threads interleave.
THEOREM CountIsRight == Spec => []CountMatchesSlots
<1>1. TypeOK /\ SlotInv => CountMatchesSlots
  <2> SUFFICES ASSUME TypeOK, SlotInv, slotOwner = NoOwner, annSession = NoSession
               PROVE  running = Cardinality(slots)
    BY DEF CountMatchesSlots
  <2>1. ~Uncounted
    BY DEF TypeOK, AnnType, Starting, Uncounted
  <2>2. ~JoinedSlot
    BY OwnerAssumption DEF SlotInv, LockInv, JoinedSlot, Critical
  <2>3. Cardinality(slots) \in Nat
    BY FS_CardinalityType DEF SlotInv, FiniteInv
  <2>4. QED
    BY <2>1, <2>2, <2>3 DEF SlotInv, CountInv
<1>2. QED
  BY <1>1, SlotsCounted, TypeCorrect, PTL
=============================================================================

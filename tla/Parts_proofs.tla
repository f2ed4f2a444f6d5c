----------------------------- MODULE Parts_proofs -----------------------------
(*****************************************************************************)
(* Proofs about Mail, for any threads, names, objects and bounds, about      *)
(* Probe, which has no constants, and about the components side by side.     *)
(*****************************************************************************)
EXTENDS MCParts, Client_proofs, Host_proofs, Nvhttp_proofs, Video_proofs, TLAPS

----------------------------------------------------------------------------
(* The mail.                                                               *)

\* Who holds a post is registered with it under its name.  OneObjectPerName is
\* not inductive by itself: it says nothing of a thread that holds a post alone,
\* whose entry another thread could then replace.
HolderInv ==
  /\ holds \in [Thread -> PostObject \cup {Nobody0, Missing}]
  /\ nameOf \in [PostObject -> PostName \cup {"none"}]
  /\ registered \in [PostName -> PostObject \cup {Nobody0}]
  /\ \A t \in Thread : holds[t] \in PostObject =>
       /\ nameOf[holds[t]] \in PostName
       /\ registered[nameOf[holds[t]]] = holds[t]

\* The steps of queue_t leave the registry alone.
LEMMA RegistryKept == HolderInv /\ UNCHANGED <<holds, nameOf, registered>> => HolderInv'
  BY DEF HolderInv

LEMMA MakeStep ==
  ASSUME NEW t \in Thread, NEW n \in PostName, HolderInv,
         holds[t] = Nobody0, registered[n] = Nobody0, Make(t, n, TRUE)
  PROVE  HolderInv'
<1>1. PICK o \in FreshPosts : /\ holds' = [holds EXCEPT ![t] = o]
                         /\ nameOf' = [nameOf EXCEPT ![o] = n]
                         /\ registered' = [registered EXCEPT ![n] = o]
  BY DEF Make
<1>2. o \in PostObject /\ nameOf[o] = "none"
  BY <1>1 DEF FreshPosts
<1>3. ASSUME NEW u \in Thread, u # t, holds[u] \in PostObject
      PROVE  holds[u] # o /\ nameOf[holds[u]] # n
  <2>1. holds[u] # o
    BY <1>2, <1>3, MailAssumption DEF HolderInv
  <2>2. nameOf[holds[u]] # n
    BY <1>3, MailAssumption DEF HolderInv, Nobody0
  <2>3. QED
    BY <2>1, <2>2
<1>4. QED
  BY <1>1, <1>2, <1>3 DEF HolderInv

LEMMA LookupStep ==
  ASSUME NEW t \in Thread, NEW n \in PostName, HolderInv, Lookup(t, n)
  PROVE  HolderInv'
<1>1. CASE registered[n] = Nobody0
  BY <1>1, MakeStep DEF Lookup
<1>2. CASE registered[n] # Nobody0 /\ Expired(registered[n])
  BY <1>2, MailAssumption DEF Lookup, HolderInv, Missing
<1>3. CASE registered[n] # Nobody0 /\ ~Expired(registered[n])
  <2>1. PICK u \in Thread : holds[u] = registered[n]
    BY <1>3 DEF Expired, Refs
  <2>2. registered[n] \in PostObject /\ registered[nameOf[registered[n]]] = registered[n]
        /\ nameOf[registered[n]] \in PostName
    BY <1>3, <2>1 DEF HolderInv
  <2>3. QED
    BY <1>3, <2>2 DEF Lookup, HolderInv
<1>4. QED
  BY <1>1, <1>2, <1>3

\* What nobody holds may leave the registry.
LEMMA CleanupStep ==
  ASSUME NEW o \in PostObject, HolderInv, Cleanup(o)
  PROVE  HolderInv'
<1> DEFINE dead == {n \in PostName : registered[n] # Nobody0 /\ Expired(registered[n])}
           erased == CHOOSE n \in dead : TRUE
<1>1. CASE dead = {}
  BY <1>1 DEF Cleanup, HolderInv
<1>2. CASE dead # {}
  <2>1. erased \in dead
    BY <1>2
  <2>2. registered' = [registered EXCEPT ![erased] = Nobody0] /\ UNCHANGED <<holds, nameOf>>
    BY <1>2 DEF Cleanup
  <2>3. \A t \in Thread : holds[t] # registered[erased]
    BY <2>1 DEF Expired, Refs
  <2> HIDE DEF erased
  <2>4. QED
    BY <2>1, <2>2, <2>3 DEF HolderInv
<1>3. QED
  BY <1>1, <1>2

\* Whoever waits in pop() holds a post, and what is queued is the number of a raise.
QueueInv ==
  /\ \A t \in popping : holds[t] \in PostObject
  /\ contents \in [PostObject -> Seq(0 .. MaxRaised)]
  /\ ending \subseteq PostObject /\ popping \subseteq Thread
  /\ \A o \in PostObject : Len(contents[o]) <= MaxElements
  /\ raised \in 0 .. MaxRaised /\ got \in [Thread -> 0 .. MaxRaised]
  /\ going \in [PostObject -> BOOLEAN]

\* A thread that takes a post, or a null pointer, was not waiting.
LEMMA TakenStep ==
  ASSUME NEW t \in Thread, HolderInv, QueueInv, HolderInv', holds[t] \notin PostObject,
         \A u \in Thread \ {t} : holds'[u] = holds[u],
         UNCHANGED <<ending, queueVars>>
  PROVE  QueueInv'
<1>1. t \notin popping
  BY DEF QueueInv
<1>2. UNCHANGED <<ending, contents, raised, got, going, popping>>
  BY DEF queueVars
<1>3. \A u \in popping : holds'[u] \in PostObject
  BY <1>1 DEF QueueInv
<1>4. QED
  BY <1>2, <1>3 DEF QueueInv

LEMMA LookupTakes ==
  ASSUME NEW t \in Thread, NEW n \in PostName, HolderInv, Lookup(t, n)
  PROVE  /\ holds[t] \notin PostObject
         /\ \A u \in Thread \ {t} : holds'[u] = holds[u]
         /\ UNCHANGED <<ending, queueVars>>
<1>1. holds[t] = Nobody0 /\ UNCHANGED <<ending, queueVars>>
  BY DEF Lookup
<1>2. holds[t] \notin PostObject
  BY <1>1, MailAssumption DEF Nobody0
<1>3. \E v : holds' = [holds EXCEPT ![t] = v]
  BY DEF Lookup, Make
<1>4. \A u \in Thread \ {t} : holds'[u] = holds[u]
  BY <1>3 DEF HolderInv
<1>5. QED
  BY <1>1, <1>2, <1>4

\* An element goes into the queue of a post, which is emptied first when it is full.
LEMMA RaiseKeeps ==
  ASSUME NEW t \in Thread, QueueInv, Raise(t)
  PROVE  QueueInv'
<1>1. holds[t] \in PostObject /\ raised + 1 \in 0 .. MaxRaised /\ raised' = raised + 1
  BY MailAssumption DEF QueueInv, Raise
<1> DEFINE o == holds[t]
           kept == Kept(contents[o])
<1>2. /\ contents[o] \in Seq(0 .. MaxRaised) /\ Len(contents[o]) <= MaxElements
      /\ Len(contents[o]) \in Nat /\ MaxElements \in Nat \ {0}
  BY <1>1, LenProperties, MailAssumption DEF QueueInv
<1>3. kept \in Seq(0 .. MaxRaised) /\ Len(kept) < MaxElements /\ Len(kept) \in Nat
  <2>1. CASE Len(contents[o]) = MaxElements
    BY <1>2, <2>1 DEF Kept
  <2>2. CASE Len(contents[o]) # MaxElements
    BY <1>2, <2>2 DEF Kept
  <2>3. QED
    BY <2>1, <2>2
<1> DEFINE longer == Append(kept, raised + 1)
<1> HIDE DEF kept
<1>4. longer \in Seq(0 .. MaxRaised) /\ Len(longer) <= MaxElements
  BY <1>1, <1>2, <1>3
<1>5. contents' = contents \/ contents' = [contents EXCEPT ![o] = longer]
  BY DEF Raise, kept
<1> HIDE DEF longer, o
<1>6. o \in PostObject
  BY <1>1 DEF o
<1>7. /\ contents' \in [PostObject -> Seq(0 .. MaxRaised)]
      /\ \A p \in PostObject : Len(contents'[p]) <= MaxElements
  BY <1>4, <1>5, <1>6 DEF QueueInv
<1>8. QED
  BY <1>1, <1>7 DEF QueueInv, Raise

\* Who wakes takes the front of the queue that it waited for.
LEMMA PopKeeps ==
  ASSUME NEW t \in Thread, QueueInv, LeavePop(t)
  PROVE  QueueInv'
<1> DEFINE o == holds[t]
<1>1. t \in popping /\ o \in PostObject /\ popping' = popping \ {t}
  BY DEF QueueInv, LeavePop
<1>2. CASE contents[o] # <<>> /\ got' = [got EXCEPT ![t] = Head(contents[o])]
           /\ contents' = [contents EXCEPT ![o] = Tail(@)]
  <2>1. /\ contents[o] \in Seq(0 .. MaxRaised) /\ Len(contents[o]) <= MaxElements
        /\ Len(contents[o]) \in Nat
    BY <1>1, LenProperties DEF QueueInv
  <2>2. /\ Head(contents[o]) \in 0 .. MaxRaised /\ Tail(contents[o]) \in Seq(0 .. MaxRaised)
        /\ Len(Tail(contents[o])) = Len(contents[o]) - 1
    BY <1>2, <2>1, HeadTailProperties
  <2>3. Len(Tail(contents[o])) <= MaxElements
    BY <2>1, <2>2, MailAssumption
  <2> HIDE DEF o
  <2>4. /\ contents' \in [PostObject -> Seq(0 .. MaxRaised)]
        /\ \A p \in PostObject : Len(contents'[p]) <= MaxElements
    BY <1>1, <1>2, <2>2, <2>3 DEF QueueInv
  <2>5. got' \in [Thread -> 0 .. MaxRaised]
    BY <1>2, <2>2 DEF QueueInv
  <2>6. QED
    BY <1>1, <2>4, <2>5 DEF QueueInv, LeavePop
<1>3. CASE UNCHANGED <<got, contents>>
  BY <1>1, <1>3 DEF QueueInv, LeavePop
<1>4. QED
  BY <1>2, <1>3 DEF LeavePop

LEMMA OtherKeeps ==
  ASSUME NEW t \in Thread, HolderInv, QueueInv,
         UseNull(t) \/ LetGo(t) \/ EnterPop(t) \/ StopQueue(t)
  PROVE  HolderInv' /\ QueueInv'
<1>1. CASE UseNull(t)
  <2>1. HolderInv'
    BY <1>1, MailAssumption DEF UseNull, HolderInv, Nobody0
  <2>2. holds[t] \notin PostObject
    BY <1>1, MailAssumption DEF UseNull, Missing
  <2>3. \A u \in Thread \ {t} : holds'[u] = holds[u]
    BY <1>1 DEF UseNull, HolderInv
  <2>4. QED
    BY <1>1, <2>1, <2>2, <2>3, TakenStep DEF UseNull
<1>2. CASE LetGo(t)
  <2>1. HolderInv'
    BY <1>2, MailAssumption DEF LetGo, HolderInv, Nobody0
  <2>2. \A u \in popping : holds'[u] = holds[u]
    BY <1>2 DEF LetGo, HolderInv, QueueInv
  <2>3. ending' \subseteq PostObject
    BY <1>2 DEF LetGo, QueueInv
  <2>4. UNCHANGED <<contents, raised, got, going, popping>>
    BY <1>2 DEF LetGo, queueVars
  <2>5. QED
    BY <2>1, <2>2, <2>3, <2>4 DEF QueueInv
<1>3. CASE EnterPop(t)
  BY <1>3, RegistryKept DEF EnterPop, QueueInv
<1>4. CASE StopQueue(t)
  BY <1>4, RegistryKept DEF StopQueue, QueueInv
<1>5. QED
  BY <1>1, <1>2, <1>3, <1>4

LEMMA MailAlways == MailSpec => [](HolderInv /\ QueueInv)
<1>1. MailInit => HolderInv /\ QueueInv
  <2> SUFFICES ASSUME MailInit PROVE HolderInv /\ QueueInv
    OBVIOUS
  <2>1. HolderInv
    BY MailAssumption DEF MailInit, HolderInv, Nobody0
  <2>2. 0 \in 0 .. MaxRaised /\ \A o \in PostObject : contents[o] = <<>>
    BY MailAssumption DEF MailInit
  <2>3. \A o \in PostObject : Len(contents[o]) <= MaxElements
    BY <2>2, MailAssumption
  <2>4. QED
    BY <2>1, <2>2, <2>3 DEF MailInit, QueueInv
<1>2. HolderInv /\ QueueInv /\ [MailNext]_mailVars => HolderInv' /\ QueueInv'
  <2> SUFFICES ASSUME HolderInv, QueueInv, [MailNext]_mailVars
               PROVE  HolderInv' /\ QueueInv'
    OBVIOUS
  <2>1. ASSUME NEW t \in Thread, NEW n \in PostName, Lookup(t, n)
        PROVE  HolderInv' /\ QueueInv'
    BY <2>1, LookupStep, LookupTakes, TakenStep
  <2>2. ASSUME NEW t \in Thread, UseNull(t) \/ LetGo(t) \/ EnterPop(t) \/ StopQueue(t)
        PROVE  HolderInv' /\ QueueInv'
    BY <2>2, OtherKeeps
  <2>3. ASSUME NEW t \in Thread, Raise(t) PROVE HolderInv' /\ QueueInv'
    BY <2>3, RaiseKeeps, RegistryKept DEF Raise
  <2>4. ASSUME NEW t \in Thread, LeavePop(t) PROVE HolderInv' /\ QueueInv'
    BY <2>4, PopKeeps, RegistryKept DEF LeavePop
  <2>5. ASSUME NEW o \in PostObject, Cleanup(o) PROVE HolderInv' /\ QueueInv'
    BY <2>5, CleanupStep DEF Cleanup, QueueInv, queueVars
  <2>6. CASE UNCHANGED mailVars
    BY <2>6, RegistryKept DEF mailVars, QueueInv
  <2>7. QED
    BY <2>1, <2>2, <2>3, <2>4, <2>5, <2>6 DEF MailNext
<1>3. QED
  BY <1>1, <1>2, PTL DEF MailSpec

\* Who is inside pop() holds a post, and no queue is longer than its limit.
THEOREM MailTypeCorrect == MailSpec => []MailTypeOK
<1>1. HolderInv /\ QueueInv => MailTypeOK
  BY DEF HolderInv, QueueInv, MailTypeOK
<1>2. QED
  BY <1>1, MailAlways, PTL

\* Threads that hold a post of the same name hold the same object, the one the
\* registry has (mail_raw_t::queue, post_t::~post_t, cleanup).
THEOREM OneObject == MailSpec => []OneObjectPerName
<1>1. HolderInv => OneObjectPerName
  BY DEF HolderInv, OneObjectPerName
<1>2. QED
  BY <1>1, MailAlways, PTL

----------------------------------------------------------------------------
(* The probe.                                                              *)

\* What ModeFor and Offers give.
LEMMA ModeType ==
  ASSUME NEW required \in 0..3, NEW hevc PROVE ModeFor(required, hevc) \in 0..3
  BY DEF ModeFor

LEMMA OfferType ==
  ASSUME NEW mode, NEW yuv
  PROVE  Offers(mode, yuv) \subseteq {"H264", "H264_HIGH8_444", "HEVC", "HEVC_REXT8_444",
                                      "HEVC_MAIN10", "HEVC_REXT10_444"}
  BY DEF Offers

LEMMA ProbeInitially == ProbeInit => ProbeTypeOK
<1> SUFFICES ASSUME ProbeInit PROVE ProbeTypeOK
  OBVIOUS
<1>1. /\ activeHevc \in 0..3 /\ probeConfig \in 0..3
      /\ encoderFlags \in [Codec -> SUBSET Flag]
      /\ yuvOffered = {} /\ serverOffer = {}
  BY DEF ProbeInit
<1>2. QED
  BY <1>1, Zenon DEF ProbeInit, ProbeTypeOK

LEMMA ProbeStep == ProbeTypeOK /\ [ProbeNext]_probeVars => ProbeTypeOK'
<1> SUFFICES ASSUME ProbeTypeOK, [ProbeNext]_probeVars PROVE ProbeTypeOK'
  OBVIOUS
<1> USE DEF ProbeTypeOK, ProbeGoto, probeGlobals
<1>1. CASE BeginProbe
  <2>1. /\ probeCurrent' \in BOOLEAN /\ chosenEncoder' \in BOOLEAN /\ refsOffered' \in BOOLEAN
        /\ activeHevc' \in 0..3
    BY <1>1, Zenon DEF BeginProbe
  <2>2. encoderFlags' \in [Codec -> SUBSET Flag]
    BY <1>1 DEF BeginProbe
  <2>3. QED
    BY <1>1, <2>1, <2>2, Zenon DEF BeginProbe
<1>2. CASE ProbeH264
  <2>1. encoderFlags' \in [Codec -> SUBSET Flag]
    BY <1>2 DEF ProbeH264, Fail
  <2>2. probePhase' \in {"failed", "hevc", "noHevc"}
    BY <1>2 DEF ProbeH264, Fail
  <2>3. QED
    BY <1>2, <2>1, <2>2, Zenon DEF ProbeH264
<1>3. CASE ProbeHevc
  <2>1. encoderFlags' \in [Codec -> SUBSET Flag]
    BY <1>3 DEF ProbeHevc, Codec, Flag
  <2>2. QED
    BY <1>3, <2>1, Zenon DEF ProbeHevc
<1>4. CASE ProbeHdr
  <2>1. encoderFlags' \in [Codec -> SUBSET Flag]
    BY <1>4 DEF ProbeHdr, Fail, Codec, Flag, WithoutVui
  <2>2. probePhase' \in {"failed", "choose"}
    BY <1>4, Zenon DEF ProbeHdr, Fail
  <2>3. QED
    BY <1>4, <2>1, <2>2, Zenon DEF ProbeHdr
<1>5. CASE ChooseEncoder
  <2>1. activeHevc' \in 0..3
    BY <1>5, ModeType DEF ChooseEncoder
  <2>2. yuvOffered' \subseteq Codec
    BY <1>5 DEF ChooseEncoder
  <2>3. QED
    BY <1>5, <2>1, <2>2, Zenon DEF ChooseEncoder
<1>6. CASE AdaptersChange
  BY <1>6, Zenon DEF AdaptersChange
<1>7. CASE ServerInfo
  BY <1>7, OfferType, Zenon DEF ServerInfo
<1>8. CASE UNCHANGED probeVars
  BY <1>8, Zenon DEF probeVars
<1>9. QED
  BY <1>1, <1>2, <1>3, <1>4, <1>5, <1>6, <1>7, <1>8 DEF ProbeNext

\* The phase and the globals of the probe, and the answer of /serverinfo.
THEOREM ProbeTypeCorrect == ProbeSpec => []ProbeTypeOK
  BY ProbeInitially, ProbeStep, PTL DEF ProbeSpec

----------------------------------------------------------------------------
(* The components side by side.                                           *)

\* A part takes the steps of its component alone, and the choice stands.
LEMMA SndSteps ==
  /\ part = "audio" /\ [PartsNext]_partsVars => [SndNext]_sndVars /\ (part = "audio")'
  /\ ~(part = "audio") /\ [PartsNext]_partsVars => ~(part = "audio")'
  BY DEF PartsNext, partsVars

LEMMA DdSteps ==
  /\ part = "device" /\ [PartsNext]_partsVars => [DdNext]_ddVars /\ (part = "device")'
  /\ ~(part = "device") /\ [PartsNext]_partsVars => ~(part = "device")'
  BY DEF PartsNext, partsVars

LEMMA DspSteps ==
  /\ part = "displays" /\ [PartsNext]_partsVars => [DspNext]_dspVars /\ (part = "displays")'
  /\ ~(part = "displays") /\ [PartsNext]_partsVars => ~(part = "displays")'
  BY DEF PartsNext, partsVars

LEMMA GateSteps ==
  /\ part = "gate" /\ [PartsNext]_partsVars => [GateNext]_gateVars /\ (part = "gate")'
  /\ ~(part = "gate") /\ [PartsNext]_partsVars => ~(part = "gate")'
  BY DEF PartsNext, partsVars

LEMMA HandlerSteps ==
  /\ part = "handlers" /\ [PartsNext]_partsVars => [HandlerNext]_handlerVars /\ (part = "handlers")'
  /\ ~(part = "handlers") /\ [PartsNext]_partsVars => ~(part = "handlers")'
  BY DEF PartsNext, partsVars

LEMMA InputSteps ==
  /\ part = "input" /\ [PartsNext]_partsVars => [InputNext]_inputVars /\ (part = "input")'
  /\ ~(part = "input") /\ [PartsNext]_partsVars => ~(part = "input")'
  BY DEF PartsNext, partsVars

LEMMA MailSteps ==
  /\ part = "mail" /\ [PartsNext]_partsVars => [MailNext]_mailVars /\ (part = "mail")'
  /\ ~(part = "mail") /\ [PartsNext]_partsVars => ~(part = "mail")'
  BY DEF PartsNext, partsVars

LEMMA NvSteps ==
  /\ part = "nvprefs" /\ [PartsNext]_partsVars => [NvNext]_nvVars /\ (part = "nvprefs")'
  /\ ~(part = "nvprefs") /\ [PartsNext]_partsVars => ~(part = "nvprefs")'
  BY DEF PartsNext, partsVars

LEMMA ProbeSteps ==
  /\ part = "probe" /\ [PartsNext]_partsVars => [ProbeNext]_probeVars /\ (part = "probe")'
  /\ ~(part = "probe") /\ [PartsNext]_partsVars => ~(part = "probe")'
  BY DEF PartsNext, partsVars

LEMMA RefSteps ==
  /\ part = "references" /\ [PartsNext]_partsVars => [RefNext]_refVars /\ (part = "references")'
  /\ ~(part = "references") /\ [PartsNext]_partsVars => ~(part = "references")'
  BY DEF PartsNext, partsVars

LEMMA RtspSteps ==
  /\ part = "rtsp" /\ [PartsNext]_partsVars => [RtspNext]_rtspVars /\ (part = "rtsp")'
  /\ ~(part = "rtsp") /\ [PartsNext]_partsVars => ~(part = "rtsp")'
  BY DEF PartsNext, partsVars

LEMMA SnapSteps ==
  /\ part = "snapshot" /\ [PartsNext]_partsVars => [SnapNext]_snapVars /\ (part = "snapshot")'
  /\ ~(part = "snapshot") /\ [PartsNext]_partsVars => ~(part = "snapshot")'
  BY DEF PartsNext, partsVars

LEMMA WireSteps ==
  /\ part = "wire" /\ [PartsNext]_partsVars => [WireNext]_wireVars /\ (part = "wire")'
  /\ ~(part = "wire") /\ [PartsNext]_partsVars => ~(part = "wire")'
  BY DEF PartsNext, partsVars

\* The behaviours of the parts are those of their components: what is proved of a
\* component holds of its part (PartsTypeOK and the properties of the run of all parts).
THEOREM PartsAreComponents ==
  PartsSpec =>
    /\ part = "audio" => SndSpec
    /\ part = "device" => DdSpec
    /\ part = "displays" => DspSpec
    /\ part = "gate" => GateSpec
    /\ part = "handlers" => HandlerSpec
    /\ part = "input" => InputSpec
    /\ part = "mail" => MailSpec
    /\ part = "nvprefs" => NvSpec
    /\ part = "probe" => ProbeSpec
    /\ part = "references" => RefSpec
    /\ part = "rtsp" => RtspSpec
    /\ part = "snapshot" => SnapSpec
    /\ part = "wire" => WireSpec
<1>1. PartsInit =>
        /\ SndInit /\ DdInit /\ DspInit /\ GateInit /\ HandlerInit /\ InputInit /\ MailInit
        /\ NvInit /\ ProbeInit /\ RefInit /\ RtspInit /\ SnapInit /\ WireInit
  BY DEF PartsInit
<1>2. PartsSpec => (part = "audio" => SndSpec)
  BY <1>1, SndSteps, PTL DEF PartsSpec, SndSpec
<1>3. PartsSpec => (part = "device" => DdSpec)
  BY <1>1, DdSteps, PTL DEF PartsSpec, DdSpec
<1>4. PartsSpec => (part = "displays" => DspSpec)
  BY <1>1, DspSteps, PTL DEF PartsSpec, DspSpec
<1>5. PartsSpec => (part = "gate" => GateSpec)
  BY <1>1, GateSteps, PTL DEF PartsSpec, GateSpec
<1>6. PartsSpec => (part = "handlers" => HandlerSpec)
  BY <1>1, HandlerSteps, PTL DEF PartsSpec, HandlerSpec
<1>7. PartsSpec => (part = "input" => InputSpec)
  BY <1>1, InputSteps, PTL DEF PartsSpec, InputSpec
<1>8. PartsSpec => (part = "mail" => MailSpec)
  BY <1>1, MailSteps, PTL DEF PartsSpec, MailSpec
<1>9. PartsSpec => (part = "nvprefs" => NvSpec)
  BY <1>1, NvSteps, PTL DEF PartsSpec, NvSpec
<1>10. PartsSpec => (part = "probe" => ProbeSpec)
  BY <1>1, ProbeSteps, PTL DEF PartsSpec, ProbeSpec
<1>11. PartsSpec => (part = "references" => RefSpec)
  BY <1>1, RefSteps, PTL DEF PartsSpec, RefSpec
<1>12. PartsSpec => (part = "rtsp" => RtspSpec)
  BY <1>1, RtspSteps, PTL DEF PartsSpec, RtspSpec
<1>13. PartsSpec => (part = "snapshot" => SnapSpec)
  BY <1>1, SnapSteps, PTL DEF PartsSpec, SnapSpec
<1>14. PartsSpec => (part = "wire" => WireSpec)
  BY <1>1, WireSteps, PTL DEF PartsSpec, WireSpec
<1>15. QED
  BY <1>2, <1>3, <1>4, <1>5, <1>6, <1>7, <1>8, <1>9, <1>10, <1>11, <1>12, <1>13, <1>14

\* The variables of the component that runs keep their types, for every value of the
\* constants of all components.
THEOREM PartsTypeCorrect == PartsSpec => []PartsTypeOK
<1>1. PartsSpec => [](part = "audio" => SndTypeOK)
  BY PartsAreComponents, SndSteps, SndTypeCorrect, PTL DEF PartsSpec
<1>2. PartsSpec => [](part = "device" => DdTypeOK)
  BY PartsAreComponents, DdSteps, DdTypeCorrect, PTL DEF PartsSpec
<1>3. PartsSpec => [](part = "displays" => DspTypeOK)
  BY PartsAreComponents, DspSteps, DspTypeCorrect, PTL DEF PartsSpec
<1>4. PartsSpec => [](part = "gate" => GateTypeOK)
  BY PartsAreComponents, GateSteps, GateTypeCorrect, PTL DEF PartsSpec
<1>5. PartsSpec => [](part = "handlers" => HandlerTypeOK)
  BY PartsAreComponents, HandlerSteps, HandlerTypeCorrect, PTL DEF PartsSpec
<1>6. PartsSpec => [](part = "input" => InputTypeOK)
  BY PartsAreComponents, InputSteps, InputTypeCorrect, PTL DEF PartsSpec
<1>7. PartsSpec => [](part = "mail" => MailTypeOK)
  BY PartsAreComponents, MailSteps, MailTypeCorrect, PTL DEF PartsSpec
<1>8. PartsSpec => [](part = "nvprefs" => NvTypeOK)
  BY PartsAreComponents, NvSteps, NvTypeCorrect, PTL DEF PartsSpec
<1>9. PartsSpec => [](part = "probe" => ProbeTypeOK)
  BY PartsAreComponents, ProbeSteps, ProbeTypeCorrect, PTL DEF PartsSpec
<1>10. PartsSpec => [](part = "references" => RefTypeOK)
  BY PartsAreComponents, RefSteps, RefTypeCorrect, PTL DEF PartsSpec
<1>11. PartsSpec => [](part = "rtsp" => RtspTypeOK)
  BY PartsAreComponents, RtspSteps, RtspTypeCorrect, PTL DEF PartsSpec
<1>12. PartsSpec => [](part = "snapshot" => SnapTypeOK)
  BY PartsAreComponents, SnapSteps, SnapTypeCorrect, PTL DEF PartsSpec
<1>13. PartsSpec => [](part = "wire" => WireTypeOK)
  BY PartsAreComponents, WireSteps, WireTypeCorrect, PTL DEF PartsSpec
<1> DEFINE HostTypes ==
             /\ part = "audio" => SndTypeOK
             /\ part = "device" => DdTypeOK
             /\ part = "nvprefs" => NvTypeOK
           VideoTypes ==
             /\ part = "displays" => DspTypeOK
             /\ part = "probe" => ProbeTypeOK
             /\ part = "references" => RefTypeOK
             /\ part = "snapshot" => SnapTypeOK
           StreamTypes ==
             /\ part = "input" => InputTypeOK
             /\ part = "rtsp" => RtspTypeOK
             /\ part = "wire" => WireTypeOK
           ServerTypes ==
             /\ part = "gate" => GateTypeOK
             /\ part = "handlers" => HandlerTypeOK
             /\ part = "mail" => MailTypeOK
<1>14. PartsSpec => []HostTypes
  BY <1>1, <1>2, <1>8, PTL
<1>15. PartsSpec => []VideoTypes
  BY <1>3, <1>9, <1>10, <1>12, PTL
<1>16. PartsSpec => []StreamTypes
  BY <1>6, <1>11, <1>13, PTL
<1>17. PartsSpec => []ServerTypes
  BY <1>4, <1>5, <1>7, PTL
<1>18. HostTypes /\ VideoTypes /\ StreamTypes /\ ServerTypes => PartsTypeOK
  BY DEF PartsTypeOK
<1> HIDE DEF HostTypes, VideoTypes, StreamTypes, ServerTypes
<1>19. QED
  BY <1>14, <1>15, <1>16, <1>17, <1>18, PTL
===============================================================================

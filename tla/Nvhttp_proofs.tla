---------------------------- MODULE Nvhttp_proofs ----------------------------
(***************************************************************************)
(* Proofs about the HTTPS server of nvhttp.cpp: what its handlers leave    *)
(* behind (Handlers), and the gate in front of them (Gate).                *)
(***************************************************************************)
EXTENDS Handlers, Gate, SequenceTheorems, TLAPS

----------------------------------------------------------------------------
(* The handlers.                                                           *)

\* A handler that has configured the display and not handed it on yet has its
\* guard armed, unless it is a /resume, which an app stands behind; /cancel
\* gives the display back at its end.  DisplayHasOwner names the handler alone.
HandlerShape ==
  /\ handler.op = "resume" => app > 0
  /\ (handler.at \in {"terminate", "kill"}) <=> (handler.op = "cancel")
  /\ handler.revert = TRUE => handler.op # "none"
  /\ handler.op = "none" => handler.at = "idle"
  /\ handler.at = "configure" /\ handler.op = "launch" => handler.revert = TRUE

Owned ==
  display = "stream" =>
    \/ app > 0 \/ streams > 0 \/ pendingLaunch = TRUE \/ unclaimed = TRUE
    \/ handler.revert = TRUE \/ handler.op = "cancel"

OwnerInv == HandlerTypeOK /\ HandlerShape /\ Owned

LEMMA OwnerInit == HandlerInit => OwnerInv
<1> SUFFICES ASSUME HandlerInit
             PROVE  OwnerInv
  OBVIOUS
<1> USE HandlersAssumption DEF HandlerInit, NoHandler
<1>1. HandlerTypeOK
  <2>1. handler \in [op : {"none", "launch", "resume", "cancel"}, at : HandlerAt,
                     appid : AppId, revert : BOOLEAN, plain : BOOLEAN]
    BY DEF HandlerAt, AppId
  <2>2. streams \in 0 .. MaxStreams
    OBVIOUS
  <2>3. app \in KnownApp \cup {0} /\ display \in {"own", "stream"}
    OBVIOUS
  <2>4. QED
    BY <2>1, <2>2, <2>3 DEF HandlerTypeOK
<1>2. HandlerShape
  BY DEF HandlerShape
<1>3. Owned
  BY DEF Owned
<1>4. QED
  BY <1>1, <1>2, <1>3 DEF OwnerInv

LEMMA LaunchStep ==
  OwnerInv /\ (Launch \/ Resume \/ Cancel) => OwnerInv'
<1> SUFFICES ASSUME OwnerInv, Launch \/ Resume \/ Cancel
             PROVE  OwnerInv'
  OBVIOUS
<1> USE HandlersAssumption DEF OwnerInv, NoHandler, SameDisplay, Goto, GivenBack, Configured, LastJoin
<1>1. CASE Launch
  <2>1. HandlerTypeOK'
    BY <1>1 DEF Launch, HandlerTypeOK, HandlerAt, AppId
  <2>2. HandlerShape'
    BY <1>1 DEF Launch, HandlerTypeOK, HandlerShape, AppId
  <2>3. Owned'
    BY <1>1 DEF Launch, HandlerTypeOK, HandlerShape, Owned, AppId
  <2>4. QED
    BY <2>1, <2>2, <2>3
<1>2. CASE Resume
  <2>1. HandlerTypeOK'
    BY <1>2 DEF Resume, HandlerTypeOK, HandlerAt, AppId
  <2>2. HandlerShape'
    BY <1>2 DEF Resume, HandlerTypeOK, HandlerShape, AppId
  <2>3. Owned'
    BY <1>2 DEF Resume, HandlerTypeOK, HandlerShape, Owned, AppId
  <2>4. QED
    BY <2>1, <2>2, <2>3
<1>3. CASE Cancel
  <2>1. HandlerTypeOK'
    BY <1>3 DEF Cancel, HandlerTypeOK, HandlerAt, AppId
  <2>2. HandlerShape'
    BY <1>3 DEF Cancel, HandlerTypeOK, HandlerShape, AppId
  <2>3. Owned'
    BY <1>3 DEF Cancel, HandlerTypeOK, HandlerShape, Owned, AppId
  <2>4. QED
    BY <2>1, <2>2, <2>3
<1>4. QED
  BY <1>1, <1>2, <1>3

LEMMA LocalStep ==
  OwnerInv /\ (\/ CountSessions \/ ConfigureDisplay \/ ProbeEncoders \/ CheckEncryption
               \/ ExecuteApp \/ RaiseLaunch \/ ReturnFromHandler) => OwnerInv'
<1> SUFFICES ASSUME OwnerInv, \/ CountSessions \/ ConfigureDisplay \/ ProbeEncoders
                              \/ CheckEncryption \/ ExecuteApp \/ RaiseLaunch
                              \/ ReturnFromHandler
             PROVE  OwnerInv'
  OBVIOUS
<1> USE HandlersAssumption DEF OwnerInv, NoHandler, SameDisplay, Goto, GivenBack, Configured, LastJoin
<1>1. CASE CountSessions
  <2>1. HandlerTypeOK'
    BY <1>1 DEF CountSessions, HandlerTypeOK, HandlerAt, AppId
  <2>2. HandlerShape'
    BY <1>1 DEF CountSessions, HandlerTypeOK, HandlerShape, AppId
  <2>3. Owned'
    BY <1>1 DEF CountSessions, HandlerTypeOK, HandlerShape, Owned, AppId
  <2>4. QED
    BY <2>1, <2>2, <2>3
<1>0. CASE ConfigureDisplay
  <2>1. HandlerTypeOK'
    BY <1>0 DEF ConfigureDisplay, HandlerTypeOK, HandlerAt, AppId
  <2>2. HandlerShape'
    BY <1>0 DEF ConfigureDisplay, HandlerTypeOK, HandlerShape, AppId
  <2>3. Owned'
    <3>1. /\ handler'.op = handler.op /\ handler'.revert = handler.revert /\ app' = app
          /\ handler.op \in {"launch", "resume"}
      BY <1>0 DEF ConfigureDisplay, HandlerTypeOK, HandlerShape
    <3>2. QED
      BY <1>0, <3>1 DEF ConfigureDisplay, HandlerShape, Owned
  <2>4. QED
    BY <2>1, <2>2, <2>3
<1>2. CASE ProbeEncoders
  <2>1. HandlerTypeOK'
    BY <1>2 DEF ProbeEncoders, HandlerTypeOK, HandlerAt, AppId
  <2>2. HandlerShape'
    BY <1>2 DEF ProbeEncoders, HandlerTypeOK, HandlerShape, AppId
  <2>3. Owned'
    BY <1>2 DEF ProbeEncoders, HandlerTypeOK, HandlerShape, Owned, AppId
  <2>4. QED
    BY <2>1, <2>2, <2>3
<1>3. CASE CheckEncryption
  <2>1. HandlerTypeOK'
    BY <1>3 DEF CheckEncryption, HandlerTypeOK, HandlerAt, AppId
  <2>2. HandlerShape'
    BY <1>3 DEF CheckEncryption, HandlerTypeOK, HandlerShape, AppId
  <2>3. Owned'
    BY <1>3 DEF CheckEncryption, HandlerTypeOK, HandlerShape, Owned, AppId
  <2>4. QED
    BY <2>1, <2>2, <2>3
<1>4. CASE ExecuteApp
  <2>1. HandlerTypeOK'
    BY <1>4 DEF ExecuteApp, HandlerTypeOK, HandlerAt, AppId
  <2>2. HandlerShape'
    BY <1>4 DEF ExecuteApp, HandlerTypeOK, HandlerShape, AppId
  <2>3. Owned'
    BY <1>4 DEF ExecuteApp, HandlerTypeOK, HandlerShape, Owned, AppId
  <2>4. QED
    BY <2>1, <2>2, <2>3
<1>5. CASE RaiseLaunch
  <2>1. HandlerTypeOK'
    BY <1>5 DEF RaiseLaunch, HandlerTypeOK, HandlerAt, AppId
  <2>2. HandlerShape'
    BY <1>5 DEF RaiseLaunch, HandlerTypeOK, HandlerShape, AppId
  <2>3. Owned'
    BY <1>5 DEF RaiseLaunch, HandlerTypeOK, HandlerShape, Owned, AppId
  <2>4. QED
    BY <2>1, <2>2, <2>3
<1>6. CASE ReturnFromHandler
  <2>1. HandlerTypeOK'
    BY <1>6 DEF ReturnFromHandler, HandlerTypeOK, HandlerAt, AppId
  <2>2. HandlerShape'
    BY <1>6 DEF ReturnFromHandler, HandlerTypeOK, HandlerShape, AppId
  <2>3. Owned'
    BY <1>6 DEF ReturnFromHandler, HandlerTypeOK, HandlerShape, Owned, AppId
  <2>4. QED
    BY <2>1, <2>2, <2>3
<1>7. QED
  BY <1>0, <1>1, <1>2, <1>3, <1>4, <1>5, <1>6

LEMMA WorldStep ==
  OwnerInv /\ (TerminateSessions \/ TerminateApp \/ StreamStarts \/ LaunchClaimed \/ LaunchExpires \/ StreamEnds) => OwnerInv'
<1> SUFFICES ASSUME OwnerInv, TerminateSessions \/ TerminateApp \/ StreamStarts \/ LaunchClaimed \/ LaunchExpires \/ StreamEnds
             PROVE  OwnerInv'
  OBVIOUS
<1> USE HandlersAssumption DEF OwnerInv, NoHandler, SameDisplay, Goto, GivenBack, Configured, LastJoin
<1>1. CASE TerminateSessions
  <2>1. HandlerTypeOK'
    <3>1. streams' \in 0 .. MaxStreams
      BY <1>1 DEF TerminateSessions
    <3>2. /\ display' \in {"own", "stream"} /\ unclaimed' \in BOOLEAN
          /\ UNCHANGED <<app, pendingLaunch, revertOnDisconnect>>
      BY <1>1 DEF TerminateSessions, HandlerTypeOK
    <3>3. handler' = [handler EXCEPT !.at = "kill"]
      BY <1>1 DEF TerminateSessions
    <3>4. QED
      BY <3>1, <3>2, <3>3 DEF HandlerTypeOK, HandlerAt
  <2>2. HandlerShape'
    BY <1>1 DEF TerminateSessions, HandlerTypeOK, HandlerShape, AppId
  <2>3. Owned'
    BY <1>1 DEF TerminateSessions, HandlerTypeOK, HandlerShape, Owned, AppId
  <2>4. QED
    BY <2>1, <2>2, <2>3
<1>2. CASE TerminateApp
  <2>1. HandlerTypeOK'
    BY <1>2 DEF TerminateApp, HandlerTypeOK, HandlerAt, AppId
  <2>2. HandlerShape'
    BY <1>2 DEF TerminateApp, HandlerTypeOK, HandlerShape, AppId
  <2>3. Owned'
    BY <1>2 DEF TerminateApp, HandlerTypeOK, HandlerShape, Owned, AppId
  <2>4. QED
    BY <2>1, <2>2, <2>3
<1>3. CASE StreamStarts
  <2>1. HandlerTypeOK'
    BY <1>3 DEF StreamStarts, HandlerTypeOK, HandlerAt, AppId
  <2>2. HandlerShape'
    BY <1>3 DEF StreamStarts, HandlerTypeOK, HandlerShape, AppId
  <2>3. Owned'
    BY <1>3 DEF StreamStarts, HandlerTypeOK, HandlerShape, Owned, AppId
  <2>4. QED
    BY <2>1, <2>2, <2>3
<1>4. CASE LaunchClaimed
  <2>1. HandlerTypeOK'
    <3>1. streams' \in 0 .. MaxStreams
      BY <1>4 DEF LaunchClaimed, HandlerTypeOK
    <3>2. QED
      BY <1>4, <3>1 DEF LaunchClaimed, HandlerTypeOK
  <2>2. HandlerShape'
    BY <1>4 DEF LaunchClaimed, HandlerTypeOK, HandlerShape, AppId
  <2>3. Owned'
    BY <1>4 DEF LaunchClaimed, HandlerTypeOK, HandlerShape, Owned, AppId
  <2>4. QED
    BY <2>1, <2>2, <2>3
<1>5. CASE LaunchExpires
  <2>1. HandlerTypeOK'
    BY <1>5 DEF LaunchExpires, HandlerTypeOK, HandlerAt, AppId
  <2>2. HandlerShape'
    BY <1>5 DEF LaunchExpires, HandlerTypeOK, HandlerShape, AppId
  <2>3. Owned'
    <3>1. CASE display = "stream" /\ streams = 0 /\ app = 0
      BY <1>5, <3>1 DEF LaunchExpires, Owned
    <3>2. CASE ~(display = "stream" /\ streams = 0 /\ app = 0)
      <4>1. display = "stream" => app > 0 \/ streams > 0
        BY <3>2 DEF HandlerTypeOK, AppId
      <4>2. QED
        BY <1>5, <4>1 DEF LaunchExpires, Owned
    <3>3. QED
      BY <3>1, <3>2
  <2>4. QED
    BY <2>1, <2>2, <2>3
<1>6. CASE StreamEnds
  <2>1. HandlerTypeOK'
    <3>1. streams' \in 0 .. MaxStreams
      BY <1>6 DEF StreamEnds, HandlerTypeOK
    <3>2. /\ display' \in {"own", "stream"} /\ unclaimed' \in BOOLEAN
          /\ UNCHANGED <<handler, app, pendingLaunch, revertOnDisconnect>>
      BY <1>6 DEF StreamEnds, HandlerTypeOK
    <3>3. QED
      BY <3>1, <3>2 DEF HandlerTypeOK
  <2>2. HandlerShape'
    BY <1>6 DEF StreamEnds, HandlerTypeOK, HandlerShape, AppId
  <2>3. Owned'
    BY <1>6 DEF StreamEnds, HandlerTypeOK, HandlerShape, Owned, AppId
  <2>4. QED
    BY <2>1, <2>2, <2>3
<1>7. QED
  BY <1>1, <1>2, <1>3, <1>4, <1>5, <1>6

LEMMA OwnerAlways == HandlerSpec => []OwnerInv
<1>1. OwnerInv /\ [HandlerNext]_handlerVars => OwnerInv'
  <2>1. OwnerInv /\ UNCHANGED handlerVars => OwnerInv'
    BY DEF handlerVars, OwnerInv, HandlerTypeOK, HandlerShape, Owned
  <2>2. QED
    BY <2>1, LaunchStep, LocalStep, WorldStep DEF HandlerNext
<1>2. QED
  BY OwnerInit, <1>1, PTL DEF HandlerSpec

\* The types of the handler in progress and of what it shares with the others.
THEOREM HandlerTypeCorrect == HandlerSpec => []HandlerTypeOK
<1>1. OwnerInv => HandlerTypeOK
  BY DEF OwnerInv
<1>2. QED
  BY <1>1, OwnerAlways, PTL

\* A display that is configured for a stream is given back by somebody: a session,
\* a pending launch, a running app or the handler at work (launch, resume, cancel,
\* join), for any apps and number of sessions.
THEOREM DisplayOwned == HandlerSpec => []DisplayHasOwner
<1>1. OwnerInv => DisplayHasOwner
  BY DEF OwnerInv, HandlerShape, Owned, HandlerTypeOK, DisplayHasOwner, NoHandler
<1>2. QED
  BY <1>1, OwnerAlways, PTL

----------------------------------------------------------------------------
(* The gate.                                                               *)

LEMMA RemoveAtElements ==
  ASSUME NEW S, NEW s \in Seq(S), NEW k \in 1 .. Len(s)
  PROVE  /\ RemoveAt(s, k) \in Seq(S)
         /\ Len(RemoveAt(s, k)) = Len(s) - 1
         /\ \A i \in 1 .. Len(s) - 1 :
              RemoveAt(s, k)[i] = IF i < k THEN s[i] ELSE s[i + 1]
<1> DEFINE before == SubSeq(s, 1, k - 1)
           behind == SubSeq(s, k + 1, Len(s))
<1>0. Len(s) \in Nat /\ \A i \in 1 .. Len(s) : s[i] \in S
  BY ElementOfSeq, LenProperties
<1>1. /\ before \in Seq(S) /\ Len(before) = k - 1
      /\ \A i \in 1 .. k - 1 : before[i] = s[i]
  BY <1>0
<1>2. /\ behind \in Seq(S) /\ Len(behind) = Len(s) - k
      /\ \A i \in 1 .. Len(s) - k : behind[i] = s[i + k]
  BY <1>0
<1> HIDE DEF before, behind
<1>3. /\ before \o behind \in Seq(S)
      /\ Len(before \o behind) = Len(s) - 1
      /\ \A i \in 1 .. Len(s) - 1 : (before \o behind)[i] = IF i < k THEN s[i] ELSE s[i + 1]
  <2>1. /\ before \o behind \in Seq(S)
        /\ Len(before \o behind) = Len(before) + Len(behind)
        /\ \A i \in 1 .. Len(before) + Len(behind) :
             (before \o behind)[i] = IF i <= Len(before) THEN before[i]
                                     ELSE behind[i - Len(before)]
    BY <1>1, <1>2, ConcatProperties
  <2>2. Len(before) + Len(behind) = Len(s) - 1
    BY <1>0, <1>1, <1>2
  <2>3. ASSUME NEW i \in 1 .. Len(s) - 1
        PROVE  (before \o behind)[i] = IF i < k THEN s[i] ELSE s[i + 1]
    <3>1. CASE i < k
      BY <1>1, <2>1, <2>2, <3>1, <1>0
    <3>2. CASE ~(i < k)
      <4>1. i - (k - 1) \in 1 .. Len(s) - k /\ ~(i <= k - 1) /\ i - (k - 1) + k = i + 1
        BY <3>2, <1>0
      <4>2. QED
        BY <1>1, <1>2, <2>1, <2>2, <3>2, <4>1
    <3>3. QED
      BY <3>1, <3>2
  <2>4. QED
    BY <2>1, <2>2, <2>3
<1>4. RemoveAt(s, k) = before \o behind
  BY DEF RemoveAt, before, behind
<1>5. QED
  BY <1>3, <1>4

RegistryEntry == [peer : PeerAddress, leaf : Leaf]
Keyed(r) == \A i, j \in 1 .. Len(r) : r[i].peer = r[j].peer => i = j
From(r, s) == \A i \in 1 .. Len(r) : \E j \in 1 .. Len(s) : r[i] = s[j]

LEMMA WithoutElements ==
  ASSUME registry \in Seq(RegistryEntry), Keyed(registry), NEW p
  PROVE  /\ Without(p) \in Seq(RegistryEntry) /\ Keyed(Without(p)) /\ From(Without(p), registry)
         /\ Len(Without(p)) <= Len(registry)
         /\ HasEntry(p) => Len(Without(p)) = Len(registry) - 1
         /\ \A i \in 1 .. Len(Without(p)) : Without(p)[i].peer # p
<1>0. Len(registry) \in Nat /\ DOMAIN registry = 1 .. Len(registry)
  BY LenProperties
<1>1. CASE HasEntry(p)
  <2> DEFINE k == EntryOf(p)
             w == RemoveAt(registry, k)
  <2>1. k \in 1 .. Len(registry) /\ registry[k].peer = p
    BY <1>0, <1>1 DEF HasEntry, EntryOf
  <2>2. Without(p) = w
    BY <1>1 DEF Without
  <2> HIDE DEF k
  <2>3. /\ w \in Seq(RegistryEntry) /\ Len(w) = Len(registry) - 1
        /\ \A i \in 1 .. Len(registry) - 1 :
             w[i] = IF i < k THEN registry[i] ELSE registry[i + 1]
    BY <2>1, RemoveAtElements
  <2> HIDE DEF w
  <2>4. \A i \in 1 .. Len(w) : \E j \in 1 .. Len(registry) :
           j # k /\ w[i] = registry[j] /\ j = IF i < k THEN i ELSE i + 1
    BY <1>0, <2>1, <2>3
  <2>5. Keyed(w)
    BY <1>0, <2>1, <2>3, <2>4 DEF Keyed
  <2>6. \A i \in 1 .. Len(w) : w[i].peer # p
    BY <2>1, <2>4 DEF Keyed
  <2>7. QED
    BY <1>0, <2>2, <2>3, <2>4, <2>5, <2>6 DEF From
<1>2. CASE ~HasEntry(p)
  <2>1. Without(p) = registry
    BY <1>2 DEF Without
  <2>2. \A i \in 1 .. Len(registry) : registry[i].peer # p
    BY <1>0, <1>2 DEF HasEntry
  <2>3. From(registry, registry) /\ Len(registry) <= Len(registry)
    BY <1>0 DEF From
  <2>4. QED
    BY <1>2, <2>1, <2>2, <2>3
<1>3. QED
  BY <1>1, <1>2

LEMMA NoteElements ==
  ASSUME registry \in Seq(RegistryEntry), Keyed(registry), Len(registry) <= RegistryCap,
         NEW p \in PeerAddress, NEW l \in Leaf
  PROVE  /\ Note(p, l) \in Seq(RegistryEntry) /\ Keyed(Note(p, l))
         /\ Len(Note(p, l)) <= RegistryCap
         /\ \A i \in 1 .. Len(Note(p, l)) :
              \/ Note(p, l)[i] = [peer |-> p, leaf |-> l]
              \/ Note(p, l)[i].peer # p
                   /\ \E j \in 1 .. Len(registry) : Note(p, l)[i] = registry[j]
<1> DEFINE entry == [peer |-> p, leaf |-> l]
           evict == Len(registry) >= RegistryCap /\ ~HasEntry(p)
           kept  == IF evict THEN Tail(registry) ELSE Without(p)
<1>0. /\ Len(registry) \in Nat /\ DOMAIN registry = 1 .. Len(registry)
      /\ RegistryCap \in Nat /\ RegistryCap > 0 /\ entry \in RegistryEntry
  BY LenProperties, GateAssumption DEF RegistryEntry
<1>1. /\ kept \in Seq(RegistryEntry) /\ Keyed(kept) /\ From(kept, registry)
      /\ Len(kept) < RegistryCap /\ \A i \in 1 .. Len(kept) : kept[i].peer # p
  <2>1. CASE evict
    <3>1. registry # <<>>
      BY <1>0, <2>1
    <3>2. /\ Tail(registry) \in Seq(RegistryEntry) /\ Len(Tail(registry)) = Len(registry) - 1
          /\ \A i \in 1 .. Len(Tail(registry)) : Tail(registry)[i] = registry[i + 1]
      BY <3>1, HeadTailProperties
    <3>3. Keyed(Tail(registry))
      BY <1>0, <3>2 DEF Keyed
    <3>4. \A i \in 1 .. Len(Tail(registry)) : Tail(registry)[i].peer # p
      BY <1>0, <3>2, <2>1 DEF HasEntry
    <3>5. QED
      BY <1>0, <2>1, <3>2, <3>3, <3>4 DEF From
  <2>2. CASE ~evict
    <3>1. kept = Without(p)
      BY <2>2
    <3>2. /\ Without(p) \in Seq(RegistryEntry) /\ Keyed(Without(p))
          /\ From(Without(p), registry) /\ Len(Without(p)) <= Len(registry)
          /\ HasEntry(p) => Len(Without(p)) = Len(registry) - 1
          /\ \A i \in 1 .. Len(Without(p)) : Without(p)[i].peer # p
      BY WithoutElements
    <3>3. Len(Without(p)) \in Nat
      BY <3>2, LenProperties
    <3>4. Len(Without(p)) < RegistryCap
      <4>1. CASE HasEntry(p)
        <5>1. Len(Without(p)) = Len(registry) - 1
          BY <3>2, <4>1
        <5>2. QED
          BY <1>0, <5>1
      <4>2. CASE ~HasEntry(p)
        <5>1. ~(Len(registry) >= RegistryCap)
          BY <2>2, <4>2
        <5>2. QED
          <6>1. Len(Without(p)) <= Len(registry)
            BY <3>2
          <6>2. Len(registry) < RegistryCap
            BY <1>0, <5>1
          <6>3. QED
            BY <1>0, <3>3, <6>1, <6>2
      <4>3. QED
        BY <4>1, <4>2
    <3>5. QED
      BY <3>1, <3>2, <3>4
  <2>3. QED
    BY <2>1, <2>2
<1>2. Note(p, l) = Append(kept, entry)
  BY DEF Note
<1> HIDE DEF kept, entry
<1>3. /\ Append(kept, entry) \in Seq(RegistryEntry)
      /\ Len(Append(kept, entry)) = Len(kept) + 1
      /\ \A i \in 1 .. Len(kept) : Append(kept, entry)[i] = kept[i]
      /\ Append(kept, entry)[Len(kept) + 1] = entry
  BY <1>0, <1>1, AppendProperties
<1>4. Len(kept) \in Nat
  BY <1>1, LenProperties
<1>5. \A i \in 1 .. Len(kept) + 1 :
         \/ i = Len(kept) + 1 /\ Append(kept, entry)[i] = entry
         \/ /\ i \in 1 .. Len(kept) /\ Append(kept, entry)[i] = kept[i]
            /\ Append(kept, entry)[i].peer # p
  BY <1>1, <1>3, <1>4
<1>6. entry.peer = p
  BY DEF entry
<1>7. Keyed(Append(kept, entry))
  BY <1>1, <1>3, <1>5, <1>6 DEF Keyed
<1>8. \A i \in 1 .. Len(Append(kept, entry)) :
         \/ Append(kept, entry)[i] = entry
         \/ Append(kept, entry)[i].peer # p
              /\ \E j \in 1 .. Len(registry) : Append(kept, entry)[i] = registry[j]
  BY <1>1, <1>3, <1>5 DEF From
<1>9. entry = [peer |-> p, leaf |-> l]
  BY DEF entry
<1>10. Len(Append(kept, entry)) <= RegistryCap
  BY <1>0, <1>1, <1>3, <1>4
<1>11. QED
  BY <1>2, <1>3, <1>7, <1>8, <1>9, <1>10

\* The endpoints of the live connections differ, the registry is keyed by them,
\* and what it says of an open connection's endpoint is of its own handshake.
Unserved == conn = [c \in Connection |-> NoConnection] /\ registry = <<>> /\ admitted = Nobody
PeersApart ==
  \A c, d \in Connection : conn[c].peer = conn[d].peer => c = d \/ conn[c].peer = "none"
PhasesFit ==
  \A c \in Connection :
    /\ conn[c].phase \in {"free", "gone"} => conn[c].peer = "none"
    /\ conn[c].phase \in {"shaking", "open"} => conn[c].peer \in PeerAddress
OpenKnown ==
  \A c \in Connection : \A i \in 1 .. Len(registry) :
    conn[c].phase = "open" /\ registry[i].peer = conn[c].peer
      => registry[i].leaf = conn[c].leaf
OneHandled ==
  admitted # Nobody =>
    admitted.conn \in Connection /\ conn[admitted.conn].phase = "handling"
GateInv ==
  /\ GateTypeOK /\ (gateOpen # "yes" => Unserved)
  /\ PeersApart /\ PhasesFit /\ Keyed(registry) /\ OpenKnown
  /\ (gateMode = "disarmed" => registry = <<>>)
  /\ OneHandled /\ AdmittedByOwnHandshake

\* What the invariant says of the connections and the registry, without the
\* server's mode and the request that is handled.
Links == PeersApart /\ PhasesFit /\ Keyed(registry) /\ OpenKnown

LEMMA EntryTypes == GateTypeOK => registry \in Seq(RegistryEntry) /\ Len(registry) \in Nat
  BY LenProperties DEF GateTypeOK, RegistryEntry

\* A connection is given up, or its peer is forgotten.
LEMMA ConnectionLeaves ==
  ASSUME GateTypeOK, Links, NEW c \in Connection, UNCHANGED registry,
         \/ conn' = [conn EXCEPT ![c] = NoConnection]
         \/ conn' = [conn EXCEPT ![c].phase = "gone", ![c].peer = "none"]
  PROVE  Links' /\ conn' \in [Connection -> [phase : Phase, peer : PeerAddress \cup {"none"},
                                            leaf : Leaf]]
<1>1. /\ conn' \in [Connection -> [phase : Phase, peer : PeerAddress \cup {"none"}, leaf : Leaf]]
      /\ conn'[c].peer = "none" /\ conn'[c].phase \in {"free", "gone"}
      /\ \A d \in Connection \ {c} : conn'[d] = conn[d]
  BY DEF GateTypeOK, NoConnection, Phase, Leaf
<1>2. PeersApart'
  BY <1>1 DEF PeersApart, Links
<1>3. PhasesFit'
  BY <1>1 DEF PhasesFit, Links
<1>4. Keyed(registry)' /\ OpenKnown'
  BY <1>1 DEF Links, Keyed, OpenKnown
<1>5. QED
  BY <1>1, <1>2, <1>3, <1>4 DEF Links

\* The invariant after a step of connection c that leaves the server's mode.
LEMMA Together ==
  ASSUME GateTypeOK', Links', gateOpen' = "yes",
         (gateMode = "disarmed" => registry = <<>>)', OneHandled',
         AdmittedByOwnHandshake'
  PROVE  GateInv'
  BY DEF GateInv, Links

\* Where no handler runs, none of the connections matters to the last two.
LEMMA NobodyHandled ==
  ASSUME admitted' = Nobody
  PROVE  OneHandled' /\ AdmittedByOwnHandshake' /\ admitted' \in [conn : Connection \cup {"none"}, cnf : Cnf]
  BY DEF OneHandled, AdmittedByOwnHandshake, Nobody, Cnf

LEMMA OnlyServed ==
  ASSUME GateInv, NEW c \in Connection,
         Accept(c) \/ Handshake(c) \/ HangUp(c) \/ GatedRequest(c) \/ UngatedRequest(c)
           \/ Answered(c)
  PROVE  gateOpen = "yes" /\ gateOpen' = "yes" /\ gateMode' = gateMode
<1>1. gateOpen' = gateOpen /\ gateMode' = gateMode
  BY DEF Accept, Handshake, HangUp, GatedRequest, UngatedRequest, Answered
<1>2. CASE gateOpen # "yes"
  <2>1. conn[c] = NoConnection /\ admitted = Nobody
    BY <1>2 DEF GateInv, Unserved
  <2>2. conn[c].phase = "free" /\ admitted.conn # c
    BY <2>1, GateAssumption DEF NoConnection, Nobody
  <2>3. QED
    BY <1>2, <2>2 DEF Accept, Handshake, HangUp, GatedRequest, UngatedRequest, Answered
<1>3. QED
  BY <1>1, <1>2

LEMMA AcceptStep ==
  ASSUME GateInv, NEW c \in Connection, Accept(c)
  PROVE  GateInv'
<1>1. PICK p \in PeerAddress, l \in Leaf :
         /\ \A d \in Connection : conn[d].peer # p
         /\ conn' = [conn EXCEPT ![c] = [phase |-> "shaking", peer |-> p, leaf |-> l]]
  BY DEF Accept
<1>2. /\ conn' \in [Connection -> [phase : Phase, peer : PeerAddress \cup {"none"}, leaf : Leaf]]
      /\ conn'[c] = [phase |-> "shaking", peer |-> p, leaf |-> l]
      /\ \A d \in Connection \ {c} : conn'[d] = conn[d]
  BY <1>1 DEF GateInv, GateTypeOK, Phase
<1>3. UNCHANGED <<gateMode, gateOpen, registry, admitted>> /\ conn[c].phase = "free"
  BY DEF Accept
<1>4. GateTypeOK'
  BY <1>2, <1>3 DEF GateInv, GateTypeOK
<1>5. PeersApart'
  BY <1>1, <1>2 DEF GateInv, PeersApart
<1>6. PhasesFit' /\ Keyed(registry)' /\ OpenKnown'
  BY <1>2, <1>3 DEF GateInv, PhasesFit, Keyed, OpenKnown
<1>7. OneHandled' /\ AdmittedByOwnHandshake'
  <2>1. admitted # Nobody => admitted.conn \in Connection \ {c}
    BY <1>3 DEF GateInv, OneHandled
  <2>2. QED
    BY <1>2, <1>3, <2>1 DEF GateInv, OneHandled, AdmittedByOwnHandshake
<1>8. QED
  BY <1>3, <1>4, <1>5, <1>6, <1>7, OnlyServed, Together DEF GateInv, Links

LEMMA HandshakeStep ==
  ASSUME GateInv, NEW c \in Connection, Handshake(c)
  PROVE  GateInv'
<1> DEFINE p == conn[c].peer
           l == conn[c].leaf
<1>1. /\ p \in PeerAddress /\ l \in Leaf /\ admitted' = Nobody
      /\ gateMode' = gateMode /\ gateOpen' = "yes"
  BY OnlyServed DEF Handshake, GateInv, GateTypeOK, PhasesFit
<1>2. /\ registry \in Seq(RegistryEntry) /\ Len(registry) \in Nat /\ Keyed(registry)
      /\ Len(registry) <= RegistryCap
  BY EntryTypes DEF GateInv, GateTypeOK
<1>3. /\ registry' \in Seq(RegistryEntry) /\ Keyed(registry') /\ Len(registry') <= RegistryCap
      /\ \A i \in 1 .. Len(registry') :
            \/ registry'[i].peer = p /\ registry'[i].leaf = l
            \/ /\ registry'[i].peer # p
               /\ \E j \in 1 .. Len(registry) : registry'[i] = registry[j]
      /\ gateMode = "disarmed" => registry' = <<>>
  <2>1. CASE gateMode = "disarmed"
    <3>1. registry' = registry /\ registry = <<>>
      BY <2>1 DEF Handshake, GateInv
    <3>2. QED
      BY <1>2, <3>1
  <2>2. CASE gateMode # "disarmed"
    <3>1. registry' = Note(p, l)
      BY <2>2 DEF Handshake
    <3>2. QED
      <4>1. /\ Note(p, l) \in Seq(RegistryEntry) /\ Keyed(Note(p, l))
            /\ Len(Note(p, l)) <= RegistryCap
            /\ \A i \in 1 .. Len(Note(p, l)) :
                 \/ Note(p, l)[i] = [peer |-> p, leaf |-> l]
                 \/ Note(p, l)[i].peer # p
                      /\ \E j \in 1 .. Len(registry) : Note(p, l)[i] = registry[j]
        BY <1>1, <1>2, NoteElements
      <4> DEFINE noted == Note(p, l)
      <4> HIDE DEF noted, p, l
      <4>2. registry' = noted
        BY <3>1 DEF noted, p, l
      <4>3. /\ noted \in Seq(RegistryEntry) /\ Keyed(noted) /\ Len(noted) <= RegistryCap
            /\ \A i \in 1 .. Len(noted) :
                 \/ noted[i] = [peer |-> p, leaf |-> l]
                 \/ noted[i].peer # p /\ \E j \in 1 .. Len(registry) : noted[i] = registry[j]
        BY <4>1 DEF noted
      <4>4. QED
        BY <2>2, <4>2, <4>3
  <2>3. QED
    BY <2>1, <2>2
<1>4. /\ \A d \in Connection \ {c} : conn'[d] = conn[d]
      /\ \/ conn'[c] = NoConnection
         \/ conn'[c] = [phase |-> "open", peer |-> p, leaf |-> l]
      /\ conn' \in [Connection -> [phase : Phase, peer : PeerAddress \cup {"none"}, leaf : Leaf]]
  BY <1>1 DEF Handshake, GateInv, GateTypeOK, NoConnection, Phase, Leaf
<1>5. GateTypeOK'
  BY <1>1, <1>3, <1>4, NobodyHandled DEF GateInv, GateTypeOK, RegistryEntry
<1>6. PeersApart' /\ PhasesFit'
  BY <1>1, <1>4 DEF GateInv, PeersApart, PhasesFit, NoConnection
<1>7. OpenKnown'
  <2> SUFFICES ASSUME NEW d \in Connection, NEW i \in 1 .. Len(registry'),
                      conn'[d].phase = "open", registry'[i].peer = conn'[d].peer
               PROVE  registry'[i].leaf = conn'[d].leaf
    BY DEF OpenKnown
  <2>1. CASE d = c
    BY <1>3, <1>4, <2>1 DEF NoConnection
  <2>2. CASE d # c
    <3>1. conn'[d] = conn[d] /\ conn[d].peer # p
      BY <1>1, <1>4, <2>2, GateAssumption DEF GateInv, PeersApart
    <3>2. PICK j \in 1 .. Len(registry) : registry'[i] = registry[j]
      BY <1>3, <3>1
    <3>3. QED
      BY <3>1, <3>2 DEF GateInv, OpenKnown
  <2>3. QED
    BY <2>1, <2>2
<1>8. QED
  BY <1>1, <1>3, <1>5, <1>6, <1>7, NobodyHandled, Together DEF Links, Keyed

\* HangUp, UngatedRequest and Answered: the connection leaves, the registry stays.
LEMMA LeavingStep ==
  ASSUME GateInv, NEW c \in Connection, HangUp(c) \/ UngatedRequest(c) \/ Answered(c)
  PROVE  GateInv'
<1>1. /\ \/ conn' = [conn EXCEPT ![c] = NoConnection]
         \/ conn' = [conn EXCEPT ![c].phase = "gone", ![c].peer = "none"]
      /\ UNCHANGED registry
  BY DEF HangUp, UngatedRequest, Answered
<1>2. Links' /\ conn' \in [Connection -> [phase : Phase, peer : PeerAddress \cup {"none"}, leaf : Leaf]]
  BY <1>1, ConnectionLeaves DEF GateInv, Links
<1>3. gateOpen' = "yes" /\ gateMode' = gateMode
  BY OnlyServed
<1>4. /\ OneHandled' /\ AdmittedByOwnHandshake'
      /\ admitted' \in [conn : Connection \cup {"none"}, cnf : Cnf]
  <2>1. CASE HangUp(c)
    <3>1. admitted' = admitted /\ conn[c].phase \in {"shaking", "open"}
      BY <2>1 DEF HangUp
    <3>2. admitted # Nobody => admitted.conn \in Connection /\ admitted.conn # c
      BY <3>1 DEF GateInv, OneHandled
    <3>3. admitted # Nobody => conn'[admitted.conn] = conn[admitted.conn]
      BY <1>1, <3>2 DEF GateInv, GateTypeOK
    <3>4. QED
      BY <1>3, <3>1, <3>2, <3>3 DEF GateInv, GateTypeOK, OneHandled, AdmittedByOwnHandshake
  <2>2. CASE UngatedRequest(c) \/ Answered(c)
    BY <2>2, NobodyHandled DEF UngatedRequest, Answered
  <2>3. QED
    BY <2>1, <2>2
<1>5. GateTypeOK'
  BY <1>1, <1>2, <1>3, <1>4 DEF GateInv, GateTypeOK
<1>6. QED
  BY <1>1, <1>2, <1>3, <1>4, <1>5, Together DEF GateInv

LEMMA GatedStep ==
  ASSUME GateInv, NEW c \in Connection, GatedRequest(c)
  PROVE  GateInv'
<1> DEFINE p == conn[c].peer
<1>1. PICK t \in Presented, cnf \in Cnf :
         LET valid == TokenVerifies(t) /\ cnf # "malformed"
             pass == \/ gateMode # "enforcing"
                     \/ CnfVerdict(conn[c].peer, cnf) = "MATCH"
         IN /\ registry' = IF valid /\ gateMode # "disarmed" THEN Without(conn[c].peer) ELSE registry
            /\ IF valid /\ pass
               THEN /\ admitted' = [conn |-> c, cnf |-> cnf]
                    /\ conn' = [conn EXCEPT ![c].phase = "handling"]
               ELSE /\ admitted' = admitted
                    /\ conn' = [conn EXCEPT ![c] = NoConnection]
  BY DEF GatedRequest
<1>2. /\ admitted = Nobody /\ conn[c].phase \in {"open", "gone"}
      /\ gateMode' = gateMode /\ gateOpen' = "yes"
  BY OnlyServed DEF GatedRequest
<1>3. /\ registry \in Seq(RegistryEntry) /\ Len(registry) \in Nat /\ Keyed(registry)
      /\ Len(registry) <= RegistryCap /\ DOMAIN registry = 1 .. Len(registry)
  BY EntryTypes, LenProperties DEF GateInv, GateTypeOK
<1>4. /\ registry' \in Seq(RegistryEntry) /\ Keyed(registry') /\ From(registry', registry)
      /\ Len(registry') <= RegistryCap
      /\ gateMode = "disarmed" => registry' = <<>>
  <2>1. CASE registry' = registry
    BY <1>3, <2>1 DEF GateInv, From
  <2>2. CASE registry' = Without(p) /\ gateMode # "disarmed"
    <3>1. /\ Without(p) \in Seq(RegistryEntry) /\ Keyed(Without(p)) /\ From(Without(p), registry)
          /\ Len(Without(p)) <= Len(registry)
      BY <1>3, WithoutElements
    <3>2. Len(Without(p)) \in Nat
      BY <3>1, LenProperties
    <3>3. Len(Without(p)) <= RegistryCap
      BY <1>3, <3>1, <3>2, GateAssumption
    <3>4. QED
      BY <2>2, <3>1, <3>3
  <2>3. QED
    BY <1>1, <2>1, <2>2
<1>5. /\ \A d \in Connection \ {c} : conn'[d] = conn[d]
      /\ \/ admitted' = Nobody /\ conn'[c] = NoConnection
         \/ /\ admitted' = [conn |-> c, cnf |-> cnf]
            /\ conn'[c].phase = "handling" /\ conn'[c].leaf = conn[c].leaf
            /\ conn'[c].peer = p
            /\ gateMode = "enforcing" => CnfVerdict(p, cnf) = "MATCH"
      /\ conn' \in [Connection -> [phase : Phase, peer : PeerAddress \cup {"none"}, leaf : Leaf]]
  <2>1. CASE conn' = [conn EXCEPT ![c] = NoConnection] /\ admitted' = Nobody
    BY <2>1 DEF GateInv, GateTypeOK, NoConnection, Phase, Leaf
  <2>2. CASE /\ admitted' = [conn |-> c, cnf |-> cnf]
             /\ conn' = [conn EXCEPT ![c].phase = "handling"]
             /\ gateMode # "enforcing" \/ CnfVerdict(p, cnf) = "MATCH"
    BY <2>2 DEF GateInv, GateTypeOK, Phase
  <2>3. QED
    BY <1>1, <1>2, <2>1, <2>2
<1>6. GateTypeOK'
  <2>1. admitted' \in [conn : Connection \cup {"none"}, cnf : Cnf]
    BY <1>5, NobodyHandled
  <2>2. QED
    BY <1>2, <1>4, <1>5, <2>1 DEF GateInv, GateTypeOK, RegistryEntry
<1>7. Links'
  <2>1. PeersApart' /\ PhasesFit'
    BY <1>5 DEF GateInv, PeersApart, PhasesFit, NoConnection
  <2>2. OpenKnown'
    <3> SUFFICES ASSUME NEW d \in Connection, NEW i \in 1 .. Len(registry'),
                        conn'[d].phase = "open", registry'[i].peer = conn'[d].peer
                 PROVE  registry'[i].leaf = conn'[d].leaf
      BY DEF OpenKnown
    <3>1. d # c /\ conn'[d] = conn[d]
      BY <1>5 DEF NoConnection
    <3>2. PICK j \in 1 .. Len(registry) : registry'[i] = registry[j]
      BY <1>4 DEF From
    <3>3. QED
      BY <3>1, <3>2 DEF GateInv, OpenKnown
  <2>3. QED
    BY <1>4, <2>1, <2>2 DEF Links, Keyed
<1>8. OneHandled' /\ AdmittedByOwnHandshake'
  <2>1. CASE admitted' = Nobody
    BY <2>1, NobodyHandled
  <2>2. CASE /\ admitted' = [conn |-> c, cnf |-> cnf]
             /\ conn'[c].phase = "handling" /\ conn'[c].leaf = conn[c].leaf
             /\ gateMode = "enforcing" => CnfVerdict(p, cnf) = "MATCH"
    <3>1. OneHandled'
      BY <2>2 DEF OneHandled
    <3>2. ASSUME gateMode = "enforcing"
          PROVE  conn[c].leaf = cnf /\ cnf \in Verified
      <4>1. CnfVerdict(p, cnf) = "MATCH"
        BY <2>2, <3>2
      <4>2. p # "none" /\ HasEntry(p) /\ registry[EntryOf(p)].leaf = cnf /\ cnf \in Verified
        BY <4>1 DEF CnfVerdict
      <4>3. EntryOf(p) \in 1 .. Len(registry) /\ registry[EntryOf(p)].peer = p
        BY <1>3, <4>2 DEF HasEntry, EntryOf
      <4>4. conn[c].phase = "open"
        BY <1>2, <4>2 DEF GateInv, PhasesFit
      <4>5. QED
        BY <4>2, <4>3, <4>4 DEF GateInv, OpenKnown
    <3>3. QED
      BY <1>2, <2>2, <3>1, <3>2 DEF AdmittedByOwnHandshake
  <2>3. QED
    BY <1>5, <2>1, <2>2
<1>9. QED
  BY <1>2, <1>4, <1>6, <1>7, <1>8, Together

LEMMA StartStep ==
  ASSUME GateInv, GateStart
  PROVE  GateInv'
<1>1. /\ Unserved /\ Unserved' /\ gateMode' \in {"disarmed", "advisory", "enforcing"}
      /\ gateOpen' \in {"no", "yes", "refused", "unable"}
  BY DEF GateInv, GateStart, Unserved
<1>2. UNCHANGED <<conn, registry, admitted>>
  BY DEF GateStart
<1>3. GateTypeOK'
  BY <1>1, <1>2 DEF GateInv, GateTypeOK
<1>4. PeersApart' /\ PhasesFit' /\ Keyed(registry)' /\ OpenKnown'
  BY <1>2 DEF GateInv, PeersApart, PhasesFit, Keyed, OpenKnown
<1>5. OneHandled' /\ AdmittedByOwnHandshake'
  BY <1>1, NobodyHandled DEF Unserved
<1>6. QED
  BY <1>1, <1>3, <1>4, <1>5 DEF GateInv, Unserved

LEMMA GateAlways == GateSpec => []GateInv
<1>1. GateInit => GateInv
  <2> SUFFICES ASSUME GateInit
               PROVE  GateInv
    OBVIOUS
  <2>1. Unserved /\ gateMode = "disarmed" /\ gateOpen = "no"
    BY DEF GateInit, Unserved
  <2>2. conn \in [Connection -> [phase : Phase, peer : PeerAddress \cup {"none"}, leaf : Leaf]]
    BY <2>1 DEF Unserved, NoConnection, Phase, Leaf
  <2>3. registry \in Seq([peer : PeerAddress, leaf : Leaf]) /\ Len(registry) = 0
    BY <2>1 DEF Unserved
  <2>4. Len(registry) <= RegistryCap
    BY <2>3, GateAssumption
  <2>5. admitted \in [conn : Connection \cup {"none"}, cnf : Cnf]
    BY <2>1 DEF Unserved, Nobody, Cnf
  <2>6. GateTypeOK
    BY <2>1, <2>2, <2>3, <2>4, <2>5 DEF GateTypeOK
  <2>7. PeersApart /\ PhasesFit
    BY <2>1 DEF Unserved, PeersApart, PhasesFit, NoConnection
  <2>8. Keyed(registry) /\ OpenKnown
    BY <2>3 DEF Keyed, OpenKnown
  <2>9. QED
    BY <2>1, <2>6, <2>7, <2>8 DEF GateInv, Unserved, OneHandled, AdmittedByOwnHandshake
<1>2. GateInv /\ [GateNext]_gateVars => GateInv'
  <2>1. GateInv /\ UNCHANGED gateVars => GateInv'
    BY DEF gateVars, GateInv, GateTypeOK, Unserved, PeersApart, PhasesFit, Keyed, OpenKnown,
           OneHandled, AdmittedByOwnHandshake
  <2>2. QED
    BY <2>1, StartStep, AcceptStep, HandshakeStep, LeavingStep, GatedStep DEF GateNext
<1>3. QED
  BY <1>1, <1>2, PTL DEF GateSpec

\* The types of the connections and the registry, whose bound is never passed.
THEOREM GateTypeCorrect == GateSpec => []GateTypeOK
<1>1. GateInv => GateTypeOK
  BY DEF GateInv
<1>2. QED
  BY <1>1, GateAlways, PTL

\* A gated handler that runs under enforcement runs for the certificate of its own
\* connection's handshake (note_handshake, take, check_token), for any number of
\* connections and endpoints and any bound of the registry.
THEOREM OwnHandshake == GateSpec => []AdmittedByOwnHandshake
<1>1. GateInv => AdmittedByOwnHandshake
  BY DEF GateInv
<1>2. QED
  BY <1>1, GateAlways, PTL
=============================================================================

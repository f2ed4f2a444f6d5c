---------------------------- MODULE Client_proofs -----------------------------
(*****************************************************************************)
(* Proofs about what is exchanged with the client: its RTSP requests, for    *)
(* any sizes of requests (Rtsp); its input, for any number of clients and    *)
(* messages (Input); and its video and audio on the wire, for any sizes of   *)
(* frames and shards (Wire).                                                 *)
(*****************************************************************************)
EXTENDS Rtsp, Input, Wire, SequenceTheorems, WellFoundedInduction, TLAPS

----------------------------------------------------------------------------
(* The RTSP server.                                                        *)

\* The shape of a request in plain text: the sizes are numbers, and the empty line
\* is part of the header.
LEMMA PlainShape ==
  ASSUME NEW r \in PlainRequest
  PROVE  /\ r.kind = "plain" /\ r.command \in Commands
         /\ r.head \in Nat /\ r.head >= 4 /\ r.declared \in Nat
<1>1. /\ r.kind = "plain" /\ r.command \in Commands
      /\ r.head \in HeadSize /\ r.declared \in BodySize
  BY DEF PlainRequest
<1>2. r.head \in Nat /\ r.head >= 4
  BY <1>1, RtspAssumption
<1>3. r.declared \in Nat
  BY <1>1, RtspAssumption
<1>4. QED
  BY <1>1, <1>2, <1>3

\* The shape of an encrypted request.
LEMMA EncryptedShape ==
  ASSUME NEW r \in EncryptedRequest
  PROVE  r.kind = "encrypted" /\ r.command \in Commands /\ r.length \in Nat
<1>1. r.kind = "encrypted" /\ r.command \in Commands /\ r.length \in BodySize
  BY DEF EncryptedRequest
<1>2. QED
  BY <1>1, RtspAssumption

\* Every command has an answer, and only ANNOUNCE refuses its request as bad.
LEMMA Replies ==
  ASSUME NEW command \in Commands
  PROVE  /\ RepliesTo(command) \subseteq {200, 400, 403, 404, 500}
         /\ command # "ANNOUNCE" => 400 \notin RepliesTo(command)
BY DEF Commands, RepliesTo, SetupReply, AnnounceReply

\* The requests that a connection may be about, none included.
Sendable == {[kind |-> "none"]} \cup PlainRequest \cup EncryptedRequest

\* What the end of the header or a part of the payload leads to.
LEMMA AfterPayloadLeads ==
  ASSUME NEW from, NEW end, AfterPayload(from, end)
  PROVE  /\ rtspBegin' = end
         /\ \/ rtspPhase' = "closed" /\ rtspStatus' = 400
            \/ /\ rtspPhase' = "handle" /\ rtspStatus' = rtspStatus
               /\ end - rtspCrlf' >= rtspRequest.declared
            \/ /\ rtspPhase' = "payload" /\ rtspStatus' = rtspStatus /\ end # BufSize
               /\ ~(end - rtspCrlf' >= rtspRequest.declared)
BY Zenon DEF AfterPayload, RefuseRequest, Remain

\* What the socket waits for says what it reads.
RtspKinds ==
  /\ rtspRequest \in Sendable
  /\ rtspPhase \in {"none", "header", "payload", "encryptedHeader",
                    "encryptedBody", "handle", "closed"}
  /\ rtspStatus \in {0, 200, 400, 403, 404, 500}
  /\ rtspPhase \in {"header", "payload"} => rtspRequest \in PlainRequest
  /\ rtspPhase \in {"encryptedHeader", "encryptedBody"} => rtspRequest \in EncryptedRequest
  /\ rtspPhase = "handle" => rtspRequest \in PlainRequest \cup EncryptedRequest

\* While a request in plain text is read, the position in the buffer is the number
\* of bytes that arrived, and the phase says how much of the payload is there.
RtspBytes ==
  /\ rtspBegin \in 0..BufSize /\ rtspCrlf \in 0..BufSize /\ rtspArrived \in Nat
  /\ rtspRequest \in PlainRequest =>
       /\ rtspArrived = rtspBegin
       /\ rtspPhase \in {"payload", "handle"} => rtspCrlf = rtspRequest.head
       /\ rtspPhase = "payload" => rtspBegin - rtspCrlf < rtspRequest.declared
       /\ rtspPhase = "handle" => rtspBegin - rtspCrlf >= rtspRequest.declared

\* A header that is still waited for is not there, or its end was missed, and a
\* request that fits was refused because it is bad, or by ANNOUNCE.
RtspWaits ==
  /\ rtspCipher \in BOOLEAN /\ rtspSplit \in BOOLEAN
  /\ rtspPhase = "header" => ~(rtspBegin >= rtspRequest.head) \/ rtspSplit
  /\ rtspPhase = "closed" /\ rtspStatus = 400 /\ rtspBegin # BufSize
       /\ rtspRequest \in PlainRequest =>
       ~rtspRequest.sound \/ rtspRequest.command = "ANNOUNCE"

\* The three parts of the invariant hold at the start, and each is kept.
LEMMA RtspInvInit == RtspInit => RtspKinds /\ RtspBytes /\ RtspWaits
<1> SUFFICES ASSUME RtspInit PROVE RtspKinds /\ RtspBytes /\ RtspWaits
  OBVIOUS
<1>1. rtspRequest \in Sendable /\ rtspRequest \notin PlainRequest
  BY PlainShape DEF RtspInit, Sendable
<1>2. RtspKinds
  BY <1>1 DEF RtspInit, RtspKinds
<1>3. RtspBytes
  BY <1>1, RtspAssumption DEF RtspInit, RtspBytes
<1>4. RtspWaits
  BY <1>1 DEF RtspInit, RtspWaits
<1>5. QED
  BY <1>2, <1>3, <1>4

LEMMA RtspKindsNext ==
  ASSUME RtspKinds, [RtspNext]_rtspVars
  PROVE  RtspKinds'
<1> USE DEF RtspKinds
<1>0. (PlainRequest \cup EncryptedRequest) \subseteq Sendable
  BY DEF Sendable
<1>1. CASE Connect
  BY <1>0, <1>1 DEF Connect
<1>2. CASE ReadHeader
  BY <1>2, AfterPayloadLeads DEF ReadHeader, RefuseRequest, Remain
<1>3. CASE ReadPayload
  BY <1>3, AfterPayloadLeads DEF ReadPayload
<1>4. CASE ReadEncryptedHeader \/ ReadEncryptedBody
  BY <1>4 DEF ReadEncryptedHeader, ReadEncryptedBody, RefuseRequest, Remain
<1>5. CASE ClientLeaves
  <2>1. rtspRequest' \in Sendable
    BY <1>5 DEF ClientLeaves, Sendable
  <2>2. QED
    BY <1>5, <2>1 DEF ClientLeaves
<1>6. CASE HandleRequest
  <2>1. rtspRequest.command \in Commands
    BY <1>6, PlainShape, EncryptedShape DEF HandleRequest
  <2>2. QED
    BY <2>1, <1>6, Replies DEF HandleRequest
<1>7. CASE UNCHANGED rtspVars
  BY <1>7 DEF rtspVars
<1>8. QED
  BY <1>1, <1>2, <1>3, <1>4, <1>5, <1>6, <1>7 DEF RtspNext

LEMMA RtspBytesNext ==
  ASSUME RtspKinds, RtspBytes, [RtspNext]_rtspVars
  PROVE  RtspBytes'
<1> USE DEF RtspBytes
<1>1. CASE Connect
  <2>1. rtspPhase' \notin {"payload", "handle"}
    BY <1>1 DEF Connect
  <2>2. QED
    BY <1>1, <2>1, RtspAssumption DEF Connect
<1>2. CASE ReadHeader
  <2>1. PICK n \in Bytes:
          LET end   == rtspBegin + n
              found == rtspBegin + Needle <= rtspRequest.head /\ end >= rtspRequest.head
          IN /\ rtspArrived' = rtspArrived + n
             /\ \/ /\ found
                   /\ rtspCrlf' = rtspRequest.head
                   /\ AfterPayload(rtspRequest.head, end)
                   /\ UNCHANGED rtspSplit
                \/ /\ ~found
                   /\ rtspBegin' = end
                   /\ rtspSplit' = (rtspSplit \/ end >= rtspRequest.head)
                   /\ IF end = BufSize THEN RefuseRequest ELSE Remain("header")
                   /\ UNCHANGED rtspCrlf
    BY <1>2 DEF ReadHeader
  <2>2. /\ rtspRequest \in PlainRequest /\ rtspArrived = rtspBegin
        /\ rtspPhase = "header" /\ UNCHANGED <<rtspCipher, rtspRequest>>
        /\ n \in Nat /\ n >= 1 /\ rtspBegin \in Nat /\ BufSize \in Nat
        /\ rtspBegin + n <= BufSize
    BY <1>2, RtspAssumption DEF ReadHeader, Bytes, RtspKinds
  <2>3. rtspRequest.head \in Nat /\ rtspRequest.head >= 4 /\ rtspRequest.declared \in Nat
    BY <2>2, PlainShape
  <2>4. CASE rtspBegin + Needle <= rtspRequest.head /\ rtspBegin + n >= rtspRequest.head
    <3>1. rtspCrlf' = rtspRequest.head /\ AfterPayload(rtspRequest.head, rtspBegin + n)
      BY <2>1, <2>4
    <3>2. QED
      BY <2>1, <2>2, <2>3, <2>4, <3>1, AfterPayloadLeads
  <2>5. CASE ~(rtspBegin + Needle <= rtspRequest.head /\ rtspBegin + n >= rtspRequest.head)
    <3>1. /\ rtspBegin' = rtspBegin + n /\ UNCHANGED rtspCrlf
          /\ rtspPhase' \in {"closed", "header"}
      BY <2>1, <2>5 DEF RefuseRequest, Remain
    <3>2. QED
      BY <2>1, <2>2, <2>3, <3>1
  <2>6. QED
    BY <2>4, <2>5
<1>3. CASE ReadPayload
  <2>1. PICK n \in Bytes:
          /\ rtspArrived' = rtspArrived + n
          /\ UNCHANGED rtspCrlf
          /\ AfterPayload(rtspBegin, rtspBegin + n)
    BY <1>3 DEF ReadPayload
  <2>2. /\ rtspRequest \in PlainRequest /\ rtspArrived = rtspBegin
        /\ rtspPhase = "payload" /\ UNCHANGED <<rtspCipher, rtspRequest>>
        /\ n \in Nat /\ n >= 1 /\ rtspBegin \in Nat /\ BufSize \in Nat
        /\ rtspBegin + n <= BufSize
    BY <1>3, RtspAssumption DEF ReadPayload, Bytes, RtspKinds
  <2>3. rtspRequest.head \in Nat /\ rtspRequest.declared \in Nat
    BY <2>2, PlainShape
  <2>4. QED
    BY <2>1, <2>2, <2>3, AfterPayloadLeads
<1>4. CASE ReadEncryptedHeader \/ ReadEncryptedBody
  <2>1. /\ rtspRequest \notin PlainRequest /\ rtspRequest.length \in Nat
    BY <1>4, EncryptedShape, PlainShape
       DEF ReadEncryptedHeader, ReadEncryptedBody, RtspKinds
  <2>2. /\ UNCHANGED <<rtspRequest, rtspBegin, rtspCrlf>>
        /\ rtspArrived' \in {HeaderSize, HeaderSize + rtspRequest.length}
    BY <1>4 DEF ReadEncryptedHeader, ReadEncryptedBody
  <2>3. QED
    BY <2>1, <2>2 DEF HeaderSize
<1>5. CASE ClientLeaves
  <2>1. rtspRequest' \notin PlainRequest
    BY <1>5, PlainShape DEF ClientLeaves
  <2>2. UNCHANGED <<rtspBegin, rtspCrlf, rtspArrived>>
    BY <1>5 DEF ClientLeaves
  <2>3. QED
    BY <2>1, <2>2
<1>6. CASE HandleRequest
  BY <1>6 DEF HandleRequest
<1>7. CASE UNCHANGED rtspVars
  BY <1>7 DEF rtspVars
<1>8. QED
  BY <1>1, <1>2, <1>3, <1>4, <1>5, <1>6, <1>7 DEF RtspNext

LEMMA RtspWaitsNext ==
  ASSUME RtspKinds, RtspBytes, RtspWaits, [RtspNext]_rtspVars
  PROVE  RtspWaits'
<1> USE DEF RtspWaits
<1>1. CASE Connect
  <2>1. rtspRequest' \in PlainRequest => ~(0 >= rtspRequest'.head)
    BY PlainShape
  <2>2. QED
    BY <1>1, <2>1, Zenon DEF Connect
<1>2. CASE ReadHeader
  <2>1. PICK n \in Bytes:
          LET end   == rtspBegin + n
              found == rtspBegin + Needle <= rtspRequest.head /\ end >= rtspRequest.head
          IN /\ rtspArrived' = rtspArrived + n
             /\ \/ /\ found
                   /\ rtspCrlf' = rtspRequest.head
                   /\ AfterPayload(rtspRequest.head, end)
                   /\ UNCHANGED rtspSplit
                \/ /\ ~found
                   /\ rtspBegin' = end
                   /\ rtspSplit' = (rtspSplit \/ end >= rtspRequest.head)
                   /\ IF end = BufSize THEN RefuseRequest ELSE Remain("header")
                   /\ UNCHANGED rtspCrlf
    BY <1>2 DEF ReadHeader
  <2>2. UNCHANGED <<rtspCipher, rtspRequest>> /\ rtspPhase = "header"
    BY <1>2 DEF ReadHeader
  <2>3. CASE rtspBegin + Needle <= rtspRequest.head /\ rtspBegin + n >= rtspRequest.head
    BY <2>1, <2>2, <2>3, Zenon DEF AfterPayload, RefuseRequest, Remain
  <2>4. CASE ~(rtspBegin + Needle <= rtspRequest.head /\ rtspBegin + n >= rtspRequest.head)
    BY <2>1, <2>2, <2>4, Zenon DEF RefuseRequest, Remain
  <2>5. QED
    BY <2>3, <2>4
<1>3. CASE ReadPayload
  BY <1>3, Zenon DEF ReadPayload, AfterPayload, RefuseRequest, Remain
<1>4. CASE ReadEncryptedHeader \/ ReadEncryptedBody
  <2>1. rtspRequest \notin PlainRequest
    BY <1>4, EncryptedShape, PlainShape
       DEF ReadEncryptedHeader, ReadEncryptedBody, RtspKinds
  <2>2. QED
    BY <1>4, <2>1
       DEF ReadEncryptedHeader, ReadEncryptedBody, RefuseRequest, Remain
<1>5. CASE ClientLeaves
  <2>1. rtspRequest' \notin PlainRequest
    BY <1>5, PlainShape DEF ClientLeaves
  <2>2. QED
    BY <1>5, <2>1, Zenon DEF ClientLeaves
<1>6. CASE HandleRequest
  <2>1. rtspRequest.command \in Commands
    BY <1>6, PlainShape, EncryptedShape DEF HandleRequest, RtspKinds
  <2>2. QED
    BY <2>1, <1>6, Replies DEF HandleRequest
<1>7. CASE UNCHANGED rtspVars
  BY <1>7 DEF rtspVars
<1>8. QED
  BY <1>1, <1>2, <1>3, <1>4, <1>5, <1>6, <1>7 DEF RtspNext

LEMMA RtspInvHolds == RtspSpec => [](RtspKinds /\ RtspBytes /\ RtspWaits)
BY RtspInvInit, RtspKindsNext, RtspBytesNext, RtspWaitsNext, PTL DEF RtspSpec

\* The types of the connection, and the bounds of its positions in the buffer.
THEOREM RtspTypeCorrect == RtspSpec => []RtspTypeOK
<1>1. RtspKinds /\ RtspBytes /\ RtspWaits => RtspTypeOK
  BY Zenon DEF RtspKinds, RtspBytes, RtspWaits, RtspTypeOK, Sendable
<1>2. QED
  BY <1>1, RtspInvHolds, PTL

\* A request in plain text is handled when all of it is there and not before, and
\* one that fits is refused only for what it says.
THEOREM RequestsWhole == RtspSpec => []RequestHandledWhole
<1>1. RtspKinds /\ RtspBytes /\ RtspWaits => RequestHandledWhole
  <2> SUFFICES ASSUME RtspKinds, RtspBytes, RtspWaits, rtspRequest.kind = "plain"
               PROVE RequestHandledWhole
    BY DEF RequestHandledWhole
  <2>1. rtspRequest \in PlainRequest
    BY EncryptedShape DEF RtspKinds, Sendable
  <2>2. rtspRequest.head \in Nat /\ rtspRequest.declared \in Nat
    BY <2>1, PlainShape
  <2>3. rtspBegin \in Nat /\ BufSize \in Nat /\ rtspArrived = rtspBegin
    BY <2>1, RtspAssumption DEF RtspBytes
  <2>4. rtspPhase = "handle" =>
          /\ rtspArrived >= rtspRequest.head + rtspRequest.declared
          /\ rtspCrlf = rtspRequest.head
    BY <2>1, <2>2, <2>3 DEF RtspBytes
  <2>5. rtspPhase = "payload" => rtspArrived < rtspRequest.head + rtspRequest.declared
    BY <2>1, <2>2, <2>3 DEF RtspBytes
  <2>6. ~(rtspBegin >= rtspRequest.head) =>
          rtspArrived < rtspRequest.head + rtspRequest.declared
    BY <2>1, <2>2, <2>3
  <2>7. rtspArrived < BufSize => rtspBegin # BufSize
    BY <2>3
  <2>8. QED
    BY <2>1, <2>4, <2>5, <2>6, <2>7, Zenon DEF RtspWaits, RequestHandledWhole
<1>2. QED
  BY <1>1, RtspInvHolds, PTL

----------------------------------------------------------------------------
(* The input of the client.                                                *)

\* Induction on the naturals, as the existence of a least element: a statement
\* that some number refutes has a least number that refutes it.
LEMMA LeastExists ==
  ASSUME NEW S \in SUBSET Nat, S # {}
  PROVE  \E m \in S : \A x \in S : m <= x
<1> DEFINE R == {p \in Nat \X Nat : p[1] < p[2]}
<1>1. IsWellFoundedOn(R, Nat)
  BY NatLessThanWellFounded DEF OpToRel
<1> HIDE DEF R
<1>2. PICK m \in S : \A y \in S : ~(<<y, m>> \in R)
  <2>1. S \subseteq Nat /\ S # {}
    OBVIOUS
  <2>2. QED
    BY <1>1, <2>1, WFMin, Zenon
<1>3. \A y \in S : m <= y
  <2> SUFFICES ASSUME NEW y \in S, y < m
               PROVE  FALSE
    OBVIOUS
  <2>1. <<y, m>> \in Nat \X Nat /\ <<y, m>>[1] < <<y, m>>[2]
    OBVIOUS
  <2>2. <<y, m>> \in R
    BY <2>1, Zenon DEF R
  <2>3. QED
    BY <1>2, <2>2
<1>4. QED
  BY <1>3

\* The function that BatchOf takes its batches from, on the first n entries.
Merges(f, q, n) == f = [i \in 1 .. n |-> IF i = 1 THEN q[1] ELSE Batched(f[i - 1], q[i])]

\* The function on one entry more.
LEMMA MergesOnward ==
  ASSUME NEW q, NEW n \in Nat, NEW f, Merges(f, q, n)
  PROVE  \E g : Merges(g, q, n + 1)
<1> DEFINE g == [i \in 1 .. n + 1 |->
                   IF i = 1 THEN q[1] ELSE IF i <= n THEN f[i] ELSE Batched(f[n], q[n + 1])]
<1>1. ASSUME NEW i \in 1 .. n + 1
      PROVE  g[i] = IF i = 1 THEN q[1] ELSE Batched(g[i - 1], q[i])
  <2>1. CASE i = 1
    BY <2>1
  <2>2. CASE i # 1 /\ i <= n
    <3>1. i - 1 \in 1 .. n + 1 /\ i - 1 <= n /\ i \in 1 .. n /\ i - 1 \in 1 .. n /\ 1 \in 1 .. n
      BY <2>2
    <3>2. f[i] = Batched(f[i - 1], q[i]) /\ f[1] = q[1]
      BY <2>2, <3>1 DEF Merges
    <3>3. g[i] = f[i] /\ g[i - 1] = f[i - 1]
      BY <2>2, <3>1, <3>2
    <3>4. QED
      BY <2>2, <3>2, <3>3
  <2>3. CASE i # 1 /\ ~(i <= n)
    <3>1. i = n + 1 /\ i - 1 = n /\ n \in 1 .. n + 1 /\ n \in 1 .. n /\ 1 \in 1 .. n
      BY <2>3
    <3>2. f[1] = q[1]
      BY <3>1 DEF Merges
    <3>3. g[n] = IF n = 1 THEN q[1] ELSE IF n <= n THEN f[n] ELSE Batched(f[n], q[n + 1])
      BY <3>1, Zenon
    <3>4. g[n] = f[n]
      BY <3>2, <3>3
    <3>5. g[i] = Batched(f[n], q[i])
      BY <2>3, <3>1
    <3>6. QED
      BY <2>3, <3>1, <3>4, <3>5
  <2>4. QED
    BY <2>1, <2>2, <2>3
<1>2. g = [i \in 1 .. n + 1 |-> g[i]]
  OBVIOUS
<1> HIDE DEF g
<1>3. Merges(g, q, n + 1)
  BY <1>1, <1>2, Zenon DEF Merges
<1>4. QED
  BY <1>3

\* The recursive function exists for every length of the queue.
LEMMA MergesExists ==
  ASSUME NEW q
  PROVE  \A n \in Nat : \E f : Merges(f, q, n)
<1> DEFINE T == {n \in Nat : ~ \E f : Merges(f, q, n)}
<1> SUFFICES ASSUME T # {} PROVE FALSE
  OBVIOUS
<1>1. PICK m \in T : \A x \in T : m <= x
  BY LeastExists
<1>2. CASE m = 0
  <2>1. <<>> = [i \in 1 .. 0 |-> IF i = 1 THEN q[1] ELSE Batched(<<>>[i - 1], q[i])]
    OBVIOUS
  <2>2. QED
    BY <1>2, <2>1, Zenon DEF Merges
<1>3. CASE m # 0
  <2>1. m - 1 \in Nat /\ m - 1 \notin T /\ m = (m - 1) + 1
    BY <1>1, <1>3
  <2>2. PICK f : Merges(f, q, m - 1)
    BY <2>1
  <2>3. \E g : Merges(g, q, (m - 1) + 1)
    BY <2>1, <2>2, MergesOnward
  <2>4. QED
    BY <2>1, <2>3
<1>4. QED
  BY <1>2, <1>3

\* What BatchOf takes out of a queue, and what it leaves.
Batches(f, q, k) ==
  /\ \A i \in 2 .. k : Batchable(f[i - 1], q[i])
  /\ k < Len(q) => ~Batchable(f[k], q[k + 1])

\* BatchOf without its recursive function.
LEMMA BatchOfIs ==
  ASSUME NEW q, Len(q) \in Nat
  PROVE  \E f : /\ Merges(f, q, Len(q))
                /\ BatchOf(q) = LET n == CHOOSE k \in 1 .. Len(q) : Batches(f, q, k)
                                IN  <<f[n]>> \o SubSeq(q, n + 1, Len(q))
<1> DEFINE f == CHOOSE h : Merges(h, q, Len(q))
<1>1. Merges(f, q, Len(q))
  BY MergesExists
<1>2. BatchOf(q) = LET n == CHOOSE k \in 1 .. Len(q) : Batches(f, q, k)
                   IN  <<f[n]>> \o SubSeq(q, n + 1, Len(q))
  BY Zenon DEF BatchOf, Merges, Batches
<1>3. QED
  BY <1>1, <1>2

\* Everything that can wait in the queue.
Message ==
  {m \in [kind: {"text", "key", "button", "abs", "rel", "scroll", "hscroll"},
          what: InputKey \cup Button \cup {NoTask}, release: BOOLEAN,
          x: Int, y: Int, at: Int] :
     (m.kind = "key" => m.what \in InputKey) /\ (m.kind = "button" => m.what \in Button)}

\* Where the motions that the client had sent lead with this message.
After(m) == Leads(m, m.at)

\* Each message was sent where the one before it left the client.
Chained(q) == \A i \in 1 .. Len(q) - 1 : q[i + 1].at = After(q[i])

\* A sum of deltas is a delta.
LEMMA WrappedInt ==
  ASSUME NEW a \in Int, NEW b \in Int
  PROVE  Wrapped(a, b) \in Int
<1>1. Half \in Nat \ {0}
  BY InputAssumption
<1>2. (a + b + Half) \in Int /\ 2 * Half \in Nat \ {0}
  BY <1>1
<1>3. (a + b + Half) % (2 * Half) \in Int
  BY <1>2, SMTT(30)
<1>4. QED
  BY <1>1, <1>3 DEF Wrapped

\* An entry that goes into a batch is of its kind, and the batch ends where the
\* entry does.
LEMMA BatchedMessage ==
  ASSUME NEW d \in Message, NEW m \in Message, Batchable(d, m)
  PROVE  /\ Batched(d, m) \in Message /\ Batched(d, m).kind = m.kind
         /\ d.kind = m.kind /\ m.kind \in {"abs", "rel", "scroll", "hscroll"}
         /\ m.kind = "abs" => Batched(d, m) = m /\ d.y = m.y
         /\ m.kind # "abs" => Batched(d, m).at = d.at
<1>1. d.kind = m.kind /\ m.kind \in {"abs", "rel", "scroll", "hscroll"}
  BY Zenon DEF Batchable
<1>2. CASE m.kind = "abs"
  BY <1>1, <1>2 DEF Batched, Batchable
<1>3. CASE m.kind # "abs"
  <2>1. d.x \in Int /\ d.y \in Int /\ m.x \in Int /\ m.y \in Int
    BY DEF Message
  <2>2. PICK x \in Int, y \in Int : x = Wrapped(d.x, m.x) /\ y = Wrapped(d.y, m.y)
    BY <2>1, WrappedInt
  <2>3. Batched(d, m) = [d EXCEPT !.x = x, !.y = y]
    BY <1>1, <1>3, <2>2 DEF Batched
  <2>4. /\ [d EXCEPT !.x = x, !.y = y] \in Message
        /\ [d EXCEPT !.x = x, !.y = y].kind = d.kind
        /\ [d EXCEPT !.x = x, !.y = y].at = d.at
    BY <1>1, <1>3 DEF Message
  <2>5. QED
    BY <1>1, <1>3, <2>3, <2>4
<1>4. QED
  BY <1>2, <1>3

\* A batch has an end: the first entry that does not join it, or the last one.
LEMMA BatchEnds ==
  ASSUME NEW f, NEW q, Len(q) \in Nat \ {0}
  PROVE  \E k \in 1 .. Len(q) : Batches(f, q, k)
<1> DEFINE T == {k \in Nat : k \in 1 .. Len(q) - 1 /\ ~Batchable(f[k], q[k + 1])}
<1>1. CASE T = {}
  <2>1. \A i \in 2 .. Len(q) : Batchable(f[i - 1], q[i])
    <3> SUFFICES ASSUME NEW i \in 2 .. Len(q) PROVE Batchable(f[i - 1], q[i])
      OBVIOUS
    <3>1. i - 1 \in Nat /\ i - 1 \in 1 .. Len(q) - 1 /\ (i - 1) + 1 = i
      OBVIOUS
    <3>2. QED
      BY <1>1, <3>1
  <2>2. Len(q) \in 1 .. Len(q) /\ ~(Len(q) < Len(q))
    OBVIOUS
  <2>3. QED
    BY <2>1, <2>2, Zenon DEF Batches
<1>2. CASE T # {}
  <2>1. PICK k \in T : \A j \in T : k <= j
    BY <1>2, LeastExists
  <2>2. k \in 1 .. Len(q) /\ ~Batchable(f[k], q[k + 1])
    BY <2>1
  <2>3. \A i \in 2 .. k : Batchable(f[i - 1], q[i])
    <3> SUFFICES ASSUME NEW i \in 2 .. k PROVE Batchable(f[i - 1], q[i])
      OBVIOUS
    <3>1. /\ i - 1 \in Nat /\ i - 1 \in 1 .. Len(q) - 1 /\ (i - 1) + 1 = i
          /\ i - 1 \notin T
      BY <2>1
    <3>2. QED
      BY <3>1
  <2>4. QED
    BY <2>2, <2>3, Zenon DEF Batches
<1>3. QED
  BY <1>1, <1>2

\* The first message of the queue, or all of it that is no sum of deltas, leads
\* where its last entry led.
LEMMA BatchHolds ==
  ASSUME NEW q \in Seq(Message), NEW f, Merges(f, q, Len(q)),
         NEW n \in 1 .. Len(q), Batches(f, q, n)
  PROVE  /\ f[n] \in Message /\ (TakesSum(q) => f[n].kind = "rel")
         /\ Chained(q) /\ ~TakesSum(q) =>
              After(f[n]) = After(q[n]) /\ (~Anchors(f[n]) => f[n].at = q[1].at)
<1> DEFINE Follows(i) == After(f[i]) = After(q[i]) /\ (~Anchors(f[i]) => f[i].at = q[1].at)
           Holds(i) == /\ f[i] \in Message /\ f[i].kind = q[1].kind
                       /\ Chained(q) /\ q[1].kind # "rel" => Follows(i)
           T == {i \in Nat : i \in 1 .. n /\ ~Holds(i)}
<1>0. /\ Len(q) \in Nat /\ \A i \in 1 .. n : i \in 1 .. Len(q) /\ q[i] \in Message
      /\ 1 \in 1 .. n /\ 1 \in 1 .. Len(q)
  BY ElementOfSeq, LenProperties
<1>1. Holds(1) /\ Follows(1) /\ f[1] = q[1]
  <2>1. f[1] = q[1]
    BY <1>0 DEF Merges
  <2>2. QED
    BY <1>0, <2>1
<1>2. ASSUME NEW i \in 2 .. n, Holds(i - 1) PROVE Holds(i)
  <2>1. i \in 1 .. Len(q) /\ i # 1 /\ i - 1 \in 1 .. Len(q) - 1 /\ (i - 1) + 1 = i
    BY <1>0, <1>2
  <2>2. f[i] = Batched(f[i - 1], q[i])
    BY <2>1 DEF Merges
  <2>3. Batchable(f[i - 1], q[i]) /\ q[i] \in Message /\ f[i - 1] \in Message
    BY <1>0, <1>2, <2>1 DEF Batches
  <2>4. /\ f[i] \in Message /\ f[i].kind = q[i].kind /\ f[i - 1].kind = q[i].kind
        /\ q[i].kind \in {"abs", "rel", "scroll", "hscroll"}
        /\ q[i].kind = "abs" => f[i] = q[i] /\ f[i - 1].y = q[i].y
        /\ q[i].kind # "abs" => f[i].at = f[i - 1].at
    BY <2>2, <2>3, BatchedMessage
  <2>5. ASSUME Chained(q), q[1].kind # "rel"
        PROVE  Follows(i)
    <3>1. q[i].at = After(q[i - 1])
      BY <2>1, <2>5 DEF Chained
    <3>2. Follows(i - 1)
      BY <1>2, <2>5
    <3>3. CASE q[i].kind = "abs"
      <4>1. ~Anchors(f[i]) => ~Anchors(f[i - 1])
        BY <2>4, <3>3 DEF Anchors
      <4>2. ~Anchors(f[i - 1]) => After(f[i - 1]) = f[i - 1].at
        BY <2>4, <3>3 DEF After, Leads
      <4>3. QED
        BY <2>4, <3>1, <3>2, <3>3, <4>1, <4>2
    <3>4. CASE q[i].kind # "abs"
      <4>1. q[i].kind # "rel"
        BY <1>2, <2>4, <2>5
      <4>2. /\ ~Anchors(f[i - 1]) /\ After(f[i - 1]) = f[i - 1].at
            /\ After(f[i]) = f[i].at /\ After(q[i]) = q[i].at
        BY <2>4, <3>4, <4>1 DEF After, Leads, Anchors
      <4>3. QED
        BY <2>4, <3>1, <3>2, <3>4, <4>2
    <3>5. QED
      BY <3>3, <3>4
  <2>6. QED
    BY <1>2, <2>4, <2>5
<1> HIDE DEF Holds
<1>3. T = {}
  <2> SUFFICES ASSUME T # {} PROVE FALSE
    OBVIOUS
  <2>1. PICK m \in T : \A j \in T : m <= j
    BY LeastExists
  <2>2. m # 1 /\ m \in 2 .. n
    BY <1>1, <2>1
  <2>3. m - 1 \in Nat /\ m - 1 \in 1 .. n /\ m - 1 \notin T
    BY <2>1, <2>2
  <2>4. QED
    BY <1>2, <2>1, <2>2, <2>3
<1>4. Holds(n)
  BY <1>3
<1>5. TakesSum(q) \/ q[1].kind # "rel" \/ n = 1
  <2> SUFFICES ASSUME q[1].kind = "rel", n # 1 PROVE TakesSum(q)
    OBVIOUS
  <2>1. 2 \in 2 .. n /\ Len(q) > 1
    BY <1>0
  <2>2. Batchable(f[2 - 1], q[2])
    BY <2>1 DEF Batches
  <2>3. QED
    BY <1>1, <2>1, <2>2 DEF TakesSum
<1>6. ASSUME Chained(q), ~TakesSum(q) PROVE Follows(n)
  BY <1>1, <1>4, <1>5, <1>6 DEF Holds
<1>7. f[n] \in Message /\ (TakesSum(q) => f[n].kind = "rel")
  BY <1>4 DEF Holds, TakesSum
<1>8. QED
  BY <1>6, <1>7

\* What TakeTask gives the worker, and what it leaves in the queue.
LEMMA BatchTaken ==
  ASSUME NEW q \in Seq(Message), q # <<>>
  PROVE  \E n \in 1 .. Len(q) :
           /\ Head(BatchOf(q)) \in Message
           /\ TakesSum(q) => Head(BatchOf(q)).kind = "rel"
           /\ Tail(BatchOf(q)) \in Seq(Message) /\ Len(Tail(BatchOf(q))) = Len(q) - n
           /\ \A i \in 1 .. Len(q) - n : Tail(BatchOf(q))[i] = q[n + i]
           /\ Chained(q) /\ ~TakesSum(q) =>
                /\ After(Head(BatchOf(q))) = After(q[n])
                /\ ~Anchors(Head(BatchOf(q))) => Head(BatchOf(q)).at = q[1].at
<1>1. Len(q) \in Nat \ {0}
  BY EmptySeq
<1>2. PICK f : /\ Merges(f, q, Len(q))
               /\ BatchOf(q) = LET n == CHOOSE k \in 1 .. Len(q) : Batches(f, q, k)
                               IN  <<f[n]>> \o SubSeq(q, n + 1, Len(q))
  BY <1>1, BatchOfIs
<1>3. PICK n \in 1 .. Len(q) : Batches(f, q, n) /\ BatchOf(q) = <<f[n]>> \o SubSeq(q, n + 1, Len(q))
  BY <1>1, <1>2, BatchEnds
<1>4. /\ f[n] \in Message /\ (TakesSum(q) => f[n].kind = "rel")
      /\ Chained(q) /\ ~TakesSum(q) =>
           After(f[n]) = After(q[n]) /\ (~Anchors(f[n]) => f[n].at = q[1].at)
  BY <1>2, <1>3, BatchHolds
<1> DEFINE s == SubSeq(q, n + 1, Len(q))
<1>5. s \in Seq(Message) /\ Len(s) = Len(q) - n /\ \A i \in 1 .. Len(q) - n : s[i] = q[n + i]
  <2>1. \A i \in n + 1 .. Len(q) : q[i] \in Message
    BY <1>1, ElementOfSeq
  <2>2. /\ s \in Seq(Message)
        /\ Len(s) = IF n + 1 <= Len(q) THEN Len(q) - (n + 1) + 1 ELSE 0
        /\ \A i \in 1 .. Len(q) - (n + 1) + 1 : s[i] = q[(n + 1) + i - 1]
    BY <1>1, <2>1, SubSeqProperties
  <2> HIDE DEF s
  <2>3. QED
    BY <1>1, <2>2
<1> HIDE DEF s
<1>6. <<f[n]>> \in Seq(Message) /\ Len(<<f[n]>>) = 1 /\ <<f[n]>>[1] = f[n]
  BY <1>4
<1>7. /\ BatchOf(q) \in Seq(Message) /\ Len(BatchOf(q)) = 1 + (Len(q) - n)
      /\ BatchOf(q)[1] = f[n]
      /\ \A i \in 1 .. Len(q) - n : BatchOf(q)[i + 1] = q[n + i]
  <2>1. /\ BatchOf(q) = <<f[n]>> \o s
    BY <1>3 DEF s
  <2>2. /\ <<f[n]>> \o s \in Seq(Message) /\ Len(<<f[n]>> \o s) = 1 + Len(s)
        /\ \A i \in 1 .. 1 + Len(s) :
             (<<f[n]>> \o s)[i] = IF i <= 1 THEN <<f[n]>>[i] ELSE s[i - 1]
    BY <1>5, <1>6, ConcatProperties
  <2>3. QED
    BY <1>1, <1>5, <1>6, <2>1, <2>2
<1>8. /\ Head(BatchOf(q)) = f[n]
      /\ Tail(BatchOf(q)) \in Seq(Message) /\ Len(Tail(BatchOf(q))) = Len(q) - n
      /\ \A i \in 1 .. Len(q) - n : Tail(BatchOf(q))[i] = q[n + i]
  <2>1. BatchOf(q) # <<>>
    BY <1>1, <1>7
  <2>2. QED
    BY <1>1, <1>7, <2>1, HeadTailProperties
<1>9. QED
  BY <1>4, <1>8

\* The types of the state, by the part of the program that changes it.
ClientTypes ==
  /\ client \in {"none", "live", "join", "left", "push"} /\ clients \in 0 .. MaxClients
  /\ messages \in 0 .. MaxMessages
  /\ position \in Int /\ pointer \in Int
FlagTypes == {touchPort, astray} \subseteq BOOLEAN
QueueTypes == inputQueue \in Seq(Message) /\ inputTasks \in Seq({"next", "release"})
PressTypes ==
  /\ keyPress \subseteq InputKey /\ mousePress \subseteq Tracked
  /\ osKeys \subseteq InputKey \cup {"win"} /\ osButtons \subseteq Button
IdTypes ==
  /\ repeatId \in TaskId \cup {NoTask} /\ leftTimeout \in TaskId \cup {"enable", "disable"}
  /\ forceKill \in TaskId \cup {NoTask}

\* What the task that the worker is in the middle of carries.
WorkerInv ==
  /\ worker.at \in {"idle", "message", "release", "repeat", "left", "nudge",
                    "assignKey", "assignLeft", "assignRepeat"}
  /\ worker.at = "idle" => worker = Idle
  /\ worker.at = "message" => worker.m \in Message
  /\ worker.at \in {"repeat", "assignKey"} => worker.key \in InputKey
  /\ worker.at \in {"assignKey", "assignLeft", "assignRepeat"} => worker.id \in TaskId

\* What a delayed task carries.
TimersInv ==
  \A t \in inputTimers :
    /\ t.id \in TaskId /\ t.runs \in {"nudge", "watchdog", "left", "repeat"}
    /\ t.runs = "repeat" => t.key \in InputKey

InputTypes ==
  ClientTypes /\ FlagTypes /\ QueueTypes /\ PressTypes /\ IdTypes /\ WorkerInv /\ TimersInv

\* What the system holds down the program remembers, but for the key that is sent
\* under another code, the left button, whose release waits for the timer, and the
\* button that is not tracked.
HeldInv ==
  /\ osKeys \subseteq keyPress \cup {"win"} /\ "menu" \notin osKeys
  /\ osButtons \subseteq mousePress \cup {"left", "x2"}

\* A task per message, in the order of both, and behind them the release that
\* reset() pushes when the client goes.  A queue of messages can be shorter than
\* the queue of tasks, since a batch takes several messages for one task.
TasksInv ==
  /\ \A i \in 1 .. Len(inputTasks) :
       inputTasks[i] = IF client = "none" /\ i = Len(inputTasks) THEN "release" ELSE "next"
  /\ Len(inputQueue) <= Len(inputTasks)
  /\ client = "none" /\ inputTasks # <<>> => Len(inputQueue) < Len(inputTasks)

\* With the last task gone the release is under way, or done.
DrainInv ==
  client = "none" /\ inputTasks = <<>> =>
    \/ worker.at = "release"
    \/ keyPress = {} /\ mousePress = {} /\ worker.at \in {"idle", "repeat", "left", "nudge"}

\* Where the pointer will be when the worker has ended the message it is at, if it
\* is on course then: an absolute motion brings it back.
Reached == IF worker.at = "message" THEN After(worker.m) ELSE pointer
OnCourse == ~astray \/ (worker.at = "message" /\ Anchors(worker.m))
Starts(q, end, place) ==
  (q # <<>> => q[1].at = place) /\ (q = <<>> => end = place)

\* The messages in the queue lead from where the pointer is to where the client
\* wants it.
ChainInv ==
  /\ Chained(inputQueue)
  /\ inputQueue # <<>> => position = After(inputQueue[Len(inputQueue)])
  /\ OnCourse => Starts(inputQueue, position, Reached)
  /\ worker.at = "message" => (~Anchors(worker.m) /\ ~astray => worker.m.at = pointer)

InputInv == InputTypes /\ HeldInv /\ TasksInv /\ DrainInv /\ ChainInv

\* The messages of each kind.
Press(kind, what, release) ==
  [Blank EXCEPT !.kind = kind, !.what = what, !.release = release]

\* The sets of messages a client chooses from, in the form that the provers read.
LEMMA SentKeys ==
  MessagesOf("key") =
    {Press("key", k, r) : k \in InputKey, r \in BOOLEAN}
  BY DEF MessagesOf, Press

LEMMA SentButtons ==
  MessagesOf("button") =
    {Press("button", b, r) : b \in Button, r \in BOOLEAN}
  BY DEF MessagesOf, Press

LEMMA SentMoves ==
  MessagesOf("abs") =
    {[Blank EXCEPT !.kind = "abs", !.x = p, !.y = IF p = 0 THEN 0 ELSE 1] : p \in 0 .. 2}
  BY DEF MessagesOf

LEMMA SentDeltas ==
  ASSUME NEW kind, kind \in {"rel", "scroll", "hscroll"}
  PROVE  MessagesOf(kind) = {[Blank EXCEPT !.kind = kind, !.x = d, !.y = d] : d \in Edge}
  BY DEF MessagesOf

LEMMA SentTexts ==
  ASSUME NEW kind, kind # "key", kind # "button", kind # "abs",
         kind \notin {"rel", "scroll", "hscroll"}
  PROVE  MessagesOf(kind) = {Blank}
  BY DEF MessagesOf

\* What a client sends stands where the client is.
LEMMA SentMessage ==
  ASSUME position \in Int, NEW kind, NEW m \in MessagesOf(kind)
  PROVE  m \in Message /\ m.at = position
<1>0. Edge \subseteq Int
  BY InputAssumption DEF Edge
<1>1. Blank \in Message /\ Blank.at = position /\ Blank.kind = "text"
  BY DEF Blank, Message
<1> HIDE DEF Blank
<1>2. CASE kind = "key"
  <2>1. m \in MessagesOf("key")
    BY <1>2
  <2>2. PICK k \in InputKey, r \in BOOLEAN : m = Press("key", k, r)
    BY <2>1, SentKeys
  <2>3. m \in Message /\ m.at = Blank.at /\ m.kind = "key"
    BY <1>1, <2>2 DEF Message, Press
  <2>4. QED
    BY <1>1, <1>2, <2>3
<1>3. CASE kind = "button"
  <2>1. m \in MessagesOf("button")
    BY <1>3
  <2>2. PICK b \in Button, r \in BOOLEAN : m = Press("button", b, r)
    BY <2>1, SentButtons
  <2>3. m \in Message /\ m.at = Blank.at /\ m.kind = "button"
    BY <1>1, <2>2 DEF Message, Press
  <2>4. QED
    BY <1>1, <1>3, <2>3
<1>4. CASE kind = "abs"
  <2> DEFINE Sent(v) == [Blank EXCEPT !.kind = "abs", !.x = v, !.y = IF v = 0 THEN 0 ELSE 1]
  <2>1. m \in MessagesOf("abs") /\ MessagesOf("abs") = {Sent(v) : v \in 0 .. 2}
    BY <1>4, SentMoves
  <2> HIDE DEF Sent
  <2>2. PICK v \in Int : m = Sent(v)
    BY <2>1
  <2>3. (IF v = 0 THEN 0 ELSE 1) \in Int
    OBVIOUS
  <2>4. m = [Blank EXCEPT !.kind = "abs", !.x = v, !.y = IF v = 0 THEN 0 ELSE 1]
    BY <2>2 DEF Sent
  <2>5. m \in Message /\ m.at = Blank.at /\ m.kind = "abs"
    BY <1>1, <2>2, <2>3, <2>4 DEF Message
  <2>6. QED
    BY <1>1, <1>4, <2>5
<1>5. CASE kind \in {"rel", "scroll", "hscroll"}
  <2> DEFINE Sent(v) == [Blank EXCEPT !.kind = kind, !.x = v, !.y = v]
  <2>1. MessagesOf(kind) = {Sent(v) : v \in Edge}
    BY <1>5, SentDeltas
  <2> HIDE DEF Sent
  <2>2. PICK v \in Edge : m = Sent(v)
    BY <2>1
  <2>3. m \in Message /\ m.at = Blank.at /\ m.kind = kind
    BY <1>0, <1>1, <1>5, <2>2 DEF Message, Sent
  <2>4. QED
    BY <1>1, <1>5, <2>3
<1>6. CASE /\ kind # "key" /\ kind # "button" /\ kind # "abs"
           /\ kind \notin {"rel", "scroll", "hscroll"}
  <2>1. m = Blank
    BY <1>6, SentTexts
  <2>2. QED
    BY <1>1, <1>6, <2>1
<1>7. QED
  BY <1>2, <1>3, <1>4, <1>5, <1>6

\* The invariant holds at the start, and every part of it is kept.
LEMMA InputInitially == InputInit => InputInv
<1> SUFFICES ASSUME InputInit PROVE InputInv
  OBVIOUS
<1> USE DEF InputInit, Idle
<1>1. ClientTypes /\ QueueTypes
  <2>1. MaxMessages \in Nat /\ MaxClients \in Nat
    BY InputAssumption
  <2>2. QED
    BY <2>1 DEF ClientTypes, QueueTypes
<1>2. PressTypes /\ IdTypes /\ FlagTypes
  BY DEF PressTypes, IdTypes, FlagTypes
<1>3. WorkerInv /\ TimersInv
  BY DEF WorkerInv, TimersInv
<1>4. HeldInv /\ TasksInv /\ DrainInv
  BY DEF HeldInv, TasksInv, DrainInv
<1>5. ChainInv
  BY DEF ChainInv, Chained, Reached, OnCourse, Starts
<1>6. QED
  BY <1>1, <1>2, <1>3, <1>4, <1>5 DEF InputInv, InputTypes

\* A motion leads from a place to a place.
LEMMA LeadsInt ==
  ASSUME NEW m \in Message, NEW p \in Int
  PROVE  Leads(m, p) \in Int
BY DEF Leads, Message

LEMMA ClientStep == InputTypes /\ [InputNext]_inputVars => ClientTypes'
<1> SUFFICES ASSUME InputTypes, [InputNext]_inputVars PROVE ClientTypes'
  OBVIOUS
<1>0. ClientTypes /\ QueueTypes /\ WorkerInv /\ MaxMessages \in Nat /\ MaxClients \in Nat
  BY InputAssumption DEF InputTypes
<1>1. CASE Alloc
  BY <1>0, <1>1 DEF Alloc, ClientTypes
<1>2. CASE Receive
  <2>1. PICK kind \in InputKind : \E m \in MessagesOf(kind) : position' = Leads(m, position)
    BY <1>2 DEF Receive
  <2>2. PICK m \in MessagesOf(kind) : position' = Leads(m, position)
    BY <2>1
  <2>3. m \in Message /\ position \in Int
    BY <1>0, <2>2, SentMessage DEF ClientTypes
  <2>4. position' \in Int
    BY <2>2, <2>3, LeadsInt
  <2>5. QED
    BY <1>0, <1>2, <2>4 DEF Receive, ClientTypes, joinVars, pointerVars
<1>3. CASE JoinPush \/ ResetRepeat \/ ResetLeft \/ ResetPush
  BY <1>0, <1>3
  DEF JoinPush, ResetRepeat, ResetLeft, ResetPush, ClientTypes, joinVars, pointerVars
<1>4. CASE PassMotion
  <2>1. worker.m \in Message /\ pointer \in Int
    BY <1>0, <1>4 DEF PassMotion, WorkerInv, ClientTypes
  <2>2. pointer' \in Int
    BY <1>4, <2>1, LeadsInt DEF PassMotion
  <2>3. QED
    BY <1>0, <1>4, <2>2 DEF PassMotion, ClientTypes, clientVars
<1>5. CASE UNCHANGED clientVars /\ pointer' = pointer
  BY <1>0, <1>5 DEF ClientTypes, clientVars
<1>6. QED
  BY <1>1, <1>2, <1>3, <1>4, <1>5
  DEF InputNext, inputVars, clientVars, joinVars, pointerVars, RaiseTouchPort, JoinEnds,
      TakeTask, TakeTimer, PassButton, AssignLeft, RunLeft, PassKey, AssignKey, RunRepeat,
      AssignRepeat, RunNudge, RunRelease

LEMMA FlagStep == InputTypes /\ [InputNext]_inputVars => FlagTypes'
<1> SUFFICES ASSUME InputTypes, [InputNext]_inputVars PROVE FlagTypes'
  OBVIOUS
<1>0. FlagTypes
  BY DEF InputTypes
<1>1. CASE Alloc \/ RaiseTouchPort
  BY <1>0, <1>1, Zenon DEF Alloc, RaiseTouchPort, FlagTypes
<1>2. CASE TakeTask
  <2>1. astray' \in BOOLEAN /\ touchPort' = touchPort
    BY <1>2, Zenon DEF TakeTask
  <2>2. QED
    BY <1>0, <2>1, Zenon DEF FlagTypes
<1>3. CASE PassMotion
  <2>1. astray' \in {astray, ~touchPort} /\ touchPort' = touchPort
    BY <1>3, Zenon DEF PassMotion
  <2>2. QED
    BY <1>0, <2>1, Zenon DEF FlagTypes
<1>4. CASE touchPort' = touchPort /\ astray' = astray
  BY <1>0, <1>4, Zenon DEF FlagTypes
<1>5. QED
  BY <1>1, <1>2, <1>3, <1>4, Zenon
  DEF InputNext, inputVars, joinVars, pointerVars, Receive, JoinPush, ResetRepeat, ResetLeft,
      ResetPush, JoinEnds, TakeTimer, PassButton, AssignLeft, RunLeft, PassKey, AssignKey,
      RunRepeat, AssignRepeat, RunNudge, RunRelease

LEMMA QueueStep == InputTypes /\ [InputNext]_inputVars => QueueTypes'
<1> SUFFICES ASSUME InputTypes, [InputNext]_inputVars PROVE QueueTypes'
  OBVIOUS
<1>0. ClientTypes /\ QueueTypes
  BY DEF InputTypes
<1>1. CASE Alloc
  BY <1>0, <1>1 DEF Alloc, QueueTypes
<1>2. CASE Receive
  <2>1. PICK kind \in InputKind : \E m \in MessagesOf(kind) : inputQueue' = Append(inputQueue, m)
    BY <1>2 DEF Receive
  <2>2. PICK m \in MessagesOf(kind) : inputQueue' = Append(inputQueue, m)
    BY <2>1
  <2>3. m \in Message
    BY <1>0, <2>2, SentMessage DEF ClientTypes
  <2>4. inputQueue' \in Seq(Message)
    BY <1>0, <2>2, <2>3, AppendProperties DEF QueueTypes
  <2>5. inputTasks' \in Seq({"next", "release"})
    BY <1>0, <1>2, AppendProperties DEF Receive, QueueTypes
  <2>6. QED
    BY <2>4, <2>5 DEF QueueTypes
<1>3. CASE ResetPush
  <2>1. inputTasks' \in Seq({"next", "release"})
    BY <1>0, <1>3, AppendProperties DEF ResetPush, QueueTypes
  <2>2. QED
    BY <1>0, <1>3, <2>1 DEF ResetPush, QueueTypes
<1>4. CASE TakeTask
  <2>1. inputTasks' \in Seq({"next", "release"})
    BY <1>0, <1>4, HeadTailProperties DEF TakeTask, QueueTypes
  <2>2. inputQueue' = inputQueue \/ (inputQueue # <<>> /\ inputQueue' = Tail(BatchOf(inputQueue)))
    BY <1>4 DEF TakeTask
  <2>3. inputQueue' \in Seq(Message)
    BY <1>0, <2>2, BatchTaken DEF QueueTypes
  <2>4. QED
    BY <2>1, <2>3 DEF QueueTypes
<1>5. CASE inputQueue' = inputQueue /\ inputTasks' = inputTasks
  BY <1>0, <1>5 DEF QueueTypes
<1>6. QED
  BY <1>1, <1>2, <1>3, <1>4, <1>5
  DEF InputNext, inputVars, RaiseTouchPort, JoinPush, ResetRepeat, ResetLeft, JoinEnds, TakeTimer,
      PassMotion, PassButton, AssignLeft, RunLeft, PassKey, AssignKey, RunRepeat, AssignRepeat, RunNudge, RunRelease

LEMMA PressStep == InputTypes /\ [InputNext]_inputVars => PressTypes'
<1> SUFFICES ASSUME InputTypes, [InputNext]_inputVars PROVE PressTypes'
  OBVIOUS
<1>0. PressTypes /\ WorkerInv
  BY DEF InputTypes
<1>1. CASE PassButton
  <2>1. worker.m.what \in Button
    BY <1>0, <1>1 DEF PassButton, WorkerInv, Message
  <2>2. mousePress' \subseteq Tracked /\ osButtons' \subseteq Button
    BY <1>0, <1>1, <2>1 DEF PassButton, PressTypes
  <2>3. QED
    BY <1>0, <1>1, <2>2 DEF PassButton, PressTypes
<1>2. CASE PassKey
  BY <1>0, <1>2 DEF PassKey, PressTypes
<1>3. CASE AssignKey
  <2>1. worker.key \in InputKey
    BY <1>0, <1>3 DEF AssignKey, WorkerInv
  <2>2. QED
    BY <1>0, <1>3, <2>1 DEF AssignKey, PressTypes, MapKeycode
<1>4. CASE RunRepeat
  <2>1. worker.key \in InputKey
    BY <1>0, <1>4 DEF RunRepeat, WorkerInv
  <2>2. QED
    BY <1>0, <1>4, <2>1 DEF RunRepeat, PressTypes, MapKeycode
<1>5. CASE RunLeft \/ RunRelease
  BY <1>0, <1>5 DEF RunLeft, RunRelease, PressTypes
<1>6. CASE UNCHANGED heldVars
  BY <1>0, <1>6 DEF PressTypes, heldVars
<1>7. QED
  BY <1>1, <1>2, <1>3, <1>4, <1>5, <1>6
  DEF InputNext, inputVars, heldVars, Alloc, RaiseTouchPort, Receive, JoinPush, ResetRepeat,
      ResetLeft, ResetPush, JoinEnds, TakeTask, TakeTimer, PassMotion, AssignLeft, AssignRepeat, RunNudge

LEMMA IdStep == InputTypes /\ [InputNext]_inputVars => IdTypes'
<1> SUFFICES ASSUME InputTypes, [InputNext]_inputVars PROVE IdTypes'
  OBVIOUS
<1>0. IdTypes /\ WorkerInv /\ FreeId \subseteq TaskId
  BY DEF InputTypes, FreeId
<1>1. CASE Alloc
  BY <1>0, <1>1 DEF Alloc, IdTypes
<1>2. CASE PassMotion
  BY <1>0, <1>2 DEF PassMotion, IdTypes
<1>3. CASE AssignLeft \/ AssignKey \/ AssignRepeat
  <2>1. worker.id \in TaskId
    BY <1>0, <1>3 DEF AssignLeft, AssignKey, AssignRepeat, WorkerInv
  <2>2. QED
    BY <1>0, <1>3, <2>1 DEF AssignLeft, AssignKey, AssignRepeat, IdTypes, joinVars
<1>4. CASE RunLeft \/ RunRepeat
  BY <1>0, <1>4 DEF RunLeft, RunRepeat, IdTypes, joinVars
<1>5. CASE PassButton
  BY <1>0, <1>5 DEF PassButton, IdTypes, joinVars
<1>6. CASE JoinPush \/ JoinEnds
  BY <1>0, <1>6 DEF JoinPush, JoinEnds, IdTypes
<1>7. CASE UNCHANGED <<repeatId, leftTimeout, forceKill>>
  BY <1>0, <1>7 DEF IdTypes
<1>8. QED
  BY <1>1, <1>2, <1>3, <1>4, <1>5, <1>6, <1>7
  DEF InputNext, inputVars, joinVars, RaiseTouchPort, Receive, ResetRepeat, ResetLeft, ResetPush,
      TakeTask, TakeTimer, PassKey, RunNudge, RunRelease

LEMMA WorkerStep == InputTypes /\ [InputNext]_inputVars => WorkerInv'
<1> SUFFICES ASSUME InputTypes, [InputNext]_inputVars PROVE WorkerInv'
  OBVIOUS
<1>0. QueueTypes /\ WorkerInv /\ TimersInv /\ FreeId \subseteq TaskId
  BY DEF InputTypes, FreeId
<1>1. CASE TakeTask
  <2>1. CASE worker' = [at |-> "release", id |-> NoTask] \/ worker' = Idle
    BY <2>1 DEF WorkerInv, Idle
  <2>2. CASE inputQueue # <<>> /\ worker' = [at |-> "message", m |-> Head(BatchOf(inputQueue))]
    <3>1. Head(BatchOf(inputQueue)) \in Message
      BY <1>0, <2>2, BatchTaken DEF QueueTypes
    <3>2. QED
      BY <2>2, <3>1 DEF WorkerInv
  <2>3. QED
    BY <1>1, <2>1, <2>2 DEF TakeTask
<1>2. CASE TakeTimer
  <2>1. PICK t \in inputTimers : t.runs # "watchdog" /\ worker' = [at |-> t.runs, id |-> t.id, key |-> t.key]
    BY <1>2 DEF TakeTimer
  <2>2. QED
    BY <1>0, <2>1 DEF TimersInv, WorkerInv
<1>3. CASE PassButton
  <2>1. CASE worker' = Idle
    BY <2>1 DEF WorkerInv, Idle
  <2>2. CASE \E i \in FreeId : worker' = [at |-> "assignLeft", id |-> i]
    BY <1>0, <2>2 DEF WorkerInv
  <2>3. QED
    BY <1>3, <2>1, <2>2 DEF PassButton, Done
<1>4. CASE PassKey
  <2>1. worker.m.what \in InputKey
    BY <1>0, <1>4 DEF PassKey, WorkerInv, Message
  <2>2. CASE worker' = Idle
    BY <2>2 DEF WorkerInv, Idle
  <2>3. CASE \E i \in FreeId : worker' = [at |-> "assignKey", id |-> i, key |-> worker.m.what]
    BY <1>0, <2>1, <2>3 DEF WorkerInv
  <2>4. QED
    BY <1>4, <2>2, <2>3 DEF PassKey, Done
<1>5. CASE RunRepeat
  <2>1. CASE worker' = Idle
    BY <2>1 DEF WorkerInv, Idle
  <2>2. CASE \E i \in FreeId : worker' = [at |-> "assignRepeat", id |-> i]
    BY <1>0, <2>2 DEF WorkerInv
  <2>3. QED
    BY <1>5, <2>1, <2>2 DEF RunRepeat, Done
<1>6. CASE worker' = Idle
  BY <1>6 DEF WorkerInv, Idle
<1>7. CASE worker' = worker
  BY <1>0, <1>7 DEF WorkerInv
<1>8. QED
  BY <1>1, <1>2, <1>3, <1>4, <1>5, <1>6, <1>7
  DEF InputNext, inputVars, Done, Alloc, RaiseTouchPort, Receive, JoinPush, ResetRepeat, ResetLeft, ResetPush, JoinEnds,
      PassMotion, AssignLeft, RunLeft, AssignKey, AssignRepeat, RunNudge, RunRelease

LEMMA TimersStep == InputTypes /\ [InputNext]_inputVars => TimersInv'
<1> SUFFICES ASSUME InputTypes, [InputNext]_inputVars PROVE TimersInv'
  OBVIOUS
<1>0. WorkerInv /\ TimersInv /\ FreeId \subseteq TaskId
  BY DEF InputTypes, FreeId
<1>1. ASSUME NEW i \in FreeId, NEW r \in {"nudge", "watchdog", "left", "repeat"}, NEW k,
             r = "repeat" => k \in InputKey,
             inputTimers' \subseteq inputTimers \cup {Timer(i, r, k)}
      PROVE  TimersInv'
  BY <1>0, <1>1 DEF TimersInv, Timer
<1>2. CASE Alloc \/ JoinPush
  BY <1>1, <1>2 DEF Alloc, JoinPush
<1>3. CASE PassButton
  BY <1>0, <1>1, <1>3 DEF PassButton, TimersInv
<1>4. CASE PassKey
  <2>1. worker.m.what \in InputKey
    BY <1>0, <1>4 DEF PassKey, WorkerInv, Message
  <2>2. QED
    BY <1>0, <1>1, <1>4, <2>1 DEF PassKey, Uncancelled, TimersInv
<1>5. CASE RunRepeat
  <2>1. worker.key \in InputKey
    BY <1>0, <1>5 DEF RunRepeat, WorkerInv
  <2>2. QED
    BY <1>0, <1>1, <1>5, <2>1 DEF RunRepeat, TimersInv
<1>6. CASE ResetRepeat \/ ResetLeft \/ ResetPush \/ JoinEnds \/ TakeTimer
  BY <1>0, <1>6
  DEF ResetRepeat, ResetLeft, ResetPush, JoinEnds, TakeTimer, Uncancelled, TimersInv
<1>7. CASE inputTimers' = inputTimers
  BY <1>0, <1>7 DEF TimersInv
<1>8. QED
  BY <1>2, <1>3, <1>4, <1>5, <1>6, <1>7
  DEF InputNext, inputVars, RaiseTouchPort, Receive, TakeTask, PassMotion, AssignLeft, RunLeft, AssignKey,
      AssignRepeat, RunNudge, RunRelease

LEMMA HeldStep == InputTypes /\ HeldInv /\ [InputNext]_inputVars => HeldInv'
<1> SUFFICES ASSUME InputTypes, HeldInv, [InputNext]_inputVars PROVE HeldInv'
  OBVIOUS
<1>0. WorkerInv /\ PressTypes
  BY DEF InputTypes
<1>1. CASE PassButton
  <2>1. worker.m.what \in Button
    BY <1>0, <1>1 DEF PassButton, WorkerInv, Message
  <2>2. osButtons' \subseteq mousePress' \cup {"left", "x2"}
    BY <1>1, <2>1 DEF PassButton, HeldInv, Tracked, Button, Known
  <2>3. QED
    BY <1>1, <2>2 DEF PassButton, HeldInv
<1>2. CASE PassKey
  <2>1. worker.m.what \in InputKey
    BY <1>0, <1>2 DEF PassKey, WorkerInv, Message
  <2>2. QED
    BY <1>2, <2>1 DEF PassKey, HeldInv, MapKeycode, InputKey
<1>3. CASE AssignKey
  <2>1. worker.key \in InputKey
    BY <1>0, <1>3 DEF AssignKey, WorkerInv
  <2>2. QED
    BY <1>3, <2>1 DEF AssignKey, HeldInv, MapKeycode, InputKey
<1>4. CASE RunRepeat
  <2>1. worker.key \in InputKey
    BY <1>0, <1>4 DEF RunRepeat, WorkerInv
  <2>2. QED
    BY <1>4, <2>1 DEF RunRepeat, HeldInv, MapKeycode, InputKey
<1>5. CASE RunLeft \/ RunRelease
  BY <1>5 DEF RunLeft, RunRelease, HeldInv
<1>6. CASE UNCHANGED heldVars
  BY <1>6 DEF HeldInv, heldVars
<1>7. QED
  BY <1>1, <1>2, <1>3, <1>4, <1>5, <1>6
  DEF InputNext, inputVars, heldVars, Alloc, RaiseTouchPort, Receive, JoinPush, ResetRepeat,
      ResetLeft, ResetPush, JoinEnds, TakeTask, TakeTimer, PassMotion, AssignLeft, AssignRepeat, RunNudge

LEMMA TasksStep == InputTypes /\ TasksInv /\ [InputNext]_inputVars => TasksInv'
<1> SUFFICES ASSUME InputTypes, TasksInv, [InputNext]_inputVars PROVE TasksInv'
  OBVIOUS
<1>1. /\ ClientTypes /\ QueueTypes
      /\ Len(inputQueue) \in Nat /\ Len(inputTasks) \in Nat
  BY LenProperties DEF InputTypes, QueueTypes
<1>2. CASE Alloc
  <2>1. inputTasks' = <<>> /\ inputQueue' = <<>>
    BY <1>2 DEF Alloc
  <2>2. QED
    BY <2>1 DEF TasksInv
<1>3. CASE Receive
  <2>1. PICK m : inputQueue' = Append(inputQueue, m)
    BY <1>3 DEF Receive
  <2>2. Len(inputQueue') = Len(inputQueue) + 1
    BY <1>1, <2>1 DEF QueueTypes
  <2>3. client \in {"live", "join"} /\ client' = client /\ inputTasks' = Append(inputTasks, "next")
    BY <1>3 DEF Receive
  <2>4. /\ Len(inputTasks') = Len(inputTasks) + 1
        /\ \A i \in 1 .. Len(inputTasks) : inputTasks'[i] = inputTasks[i]
        /\ inputTasks'[Len(inputTasks) + 1] = "next"
    BY <1>1, <2>3, AppendProperties DEF QueueTypes
  <2>5. \A i \in 1 .. Len(inputTasks') : inputTasks'[i] = "next"
    BY <1>1, <2>3, <2>4 DEF TasksInv
  <2>6. QED
    BY <1>1, <2>2, <2>3, <2>4, <2>5 DEF TasksInv
<1>4. CASE JoinPush \/ ResetRepeat \/ ResetLeft
  BY <1>4 DEF JoinPush, ResetRepeat, ResetLeft, TasksInv
<1>5. CASE ResetPush
  <2>1. client = "push" /\ client' = "none" /\ inputTasks' = Append(inputTasks, "release")
        /\ inputQueue' = inputQueue
    BY <1>5 DEF ResetPush
  <2>2. /\ Len(inputTasks') = Len(inputTasks) + 1
        /\ \A i \in 1 .. Len(inputTasks) : inputTasks'[i] = inputTasks[i]
        /\ inputTasks'[Len(inputTasks) + 1] = "release"
    BY <1>1, <2>1, AppendProperties DEF QueueTypes
  <2>3. \A i \in 1 .. Len(inputTasks') :
          inputTasks'[i] = IF i = Len(inputTasks') THEN "release" ELSE "next"
    BY <1>1, <2>1, <2>2 DEF TasksInv
  <2>4. QED
    BY <1>1, <2>1, <2>2, <2>3 DEF TasksInv
<1>6. CASE TakeTask
  <2>1. inputTasks # <<>> /\ inputTasks' = Tail(inputTasks) /\ client' = client
    BY <1>6 DEF TakeTask, clientVars
  <2>2. /\ Len(inputTasks') = Len(inputTasks) - 1 /\ Len(inputTasks) >= 1
        /\ \A i \in 1 .. Len(inputTasks) - 1 : inputTasks'[i] = inputTasks[i + 1]
        /\ Head(inputTasks) = inputTasks[1]
    BY <1>1, <2>1, EmptySeq, HeadTailProperties DEF QueueTypes
  <2>3. \A i \in 1 .. Len(inputTasks') :
          inputTasks'[i] = IF client = "none" /\ i = Len(inputTasks') THEN "release" ELSE "next"
    BY <1>1, <2>2 DEF TasksInv
  <2>4. /\ inputQueue' = inputQueue /\ (inputQueue = <<>> \/ Head(inputTasks) = "release")
        \/ \E n \in 1 .. Len(inputQueue) : Len(inputQueue') = Len(inputQueue) - n
    <3>1. \/ inputQueue' = inputQueue /\ (inputQueue = <<>> \/ Head(inputTasks) = "release")
          \/ inputQueue # <<>> /\ inputQueue' = Tail(BatchOf(inputQueue))
      BY <1>6 DEF TakeTask
    <3>2. QED
      BY <1>1, <3>1, BatchTaken DEF QueueTypes
  <2>5. CASE inputQueue' = inputQueue /\ Head(inputTasks) = "release"
    <3>1. inputTasks[1] = IF client = "none" /\ 1 = Len(inputTasks) THEN "release" ELSE "next"
      BY <1>1, <2>2 DEF TasksInv
    <3>2. client = "none" /\ Len(inputTasks) = 1
      BY <2>2, <2>5, <3>1
    <3>3. Len(inputQueue) < Len(inputTasks)
      BY <2>1, <3>2, Zenon DEF TasksInv
    <3>4. Len(inputQueue) = 0 /\ inputTasks' = <<>>
      BY <1>1, <2>1, <2>2, <3>2, <3>3, EmptySeq, HeadTailProperties DEF QueueTypes
    <3>5. QED
      BY <2>1, <2>2, <2>3, <2>5, <3>2, <3>4 DEF TasksInv
  <2>6. CASE inputQueue' = inputQueue /\ inputQueue = <<>>
    <3>1. Len(inputQueue') = 0
      BY <2>6
    <3>2. inputTasks' # <<>> => Len(inputTasks') > 0
      BY <1>1, <2>2, <2>1, HeadTailProperties, EmptySeq DEF QueueTypes
    <3>3. QED
      BY <1>1, <2>2, <2>3, <3>1, <3>2, <2>1 DEF TasksInv
  <2>7. CASE \E n \in 1 .. Len(inputQueue) : Len(inputQueue') = Len(inputQueue) - n
    <3>1. PICK n \in 1 .. Len(inputQueue) : Len(inputQueue') = Len(inputQueue) - n
      BY <2>7
    <3>2. Len(inputQueue') <= Len(inputTasks')
      BY <1>1, <2>2, <3>1 DEF TasksInv
    <3>3. client = "none" => Len(inputQueue) < Len(inputTasks)
      BY <2>1, Zenon DEF TasksInv
    <3>4. client = "none" => Len(inputQueue') < Len(inputTasks')
      BY <1>1, <2>2, <3>1, <3>3
    <3>5. QED
      BY <2>1, <2>3, <3>2, <3>4 DEF TasksInv
  <2>8. QED
    BY <2>4, <2>5, <2>6, <2>7
<1>7. CASE UNCHANGED <<client, inputQueue, inputTasks>>
  BY <1>7 DEF TasksInv
<1>8. QED
  BY <1>2, <1>3, <1>4, <1>5, <1>6, <1>7
  DEF InputNext, inputVars, clientVars, RaiseTouchPort, JoinEnds, TakeTimer, PassMotion, PassButton, AssignLeft,
      RunLeft, PassKey, AssignKey, RunRepeat, AssignRepeat, RunNudge, RunRelease

LEMMA DrainStep == InputTypes /\ TasksInv /\ DrainInv /\ [InputNext]_inputVars => DrainInv'
<1> SUFFICES ASSUME InputTypes, TasksInv, DrainInv, [InputNext]_inputVars,
                    client' = "none", inputTasks' = <<>>
             PROVE  \/ worker'.at = "release"
                    \/ /\ keyPress' = {} /\ mousePress' = {}
                       /\ worker'.at \in {"idle", "repeat", "left", "nudge"}
  BY DEF DrainInv
<1>0. QueueTypes /\ WorkerInv /\ TimersInv
  BY DEF InputTypes
<1>1. CASE Alloc \/ RaiseTouchPort \/ JoinPush \/ ResetRepeat \/ ResetLeft
  BY <1>1 DEF Alloc, RaiseTouchPort, JoinPush, ResetRepeat, ResetLeft, clientVars
<1>2. CASE Receive \/ ResetPush
  <2>1. PICK t \in {"next", "release"} : inputTasks' = Append(inputTasks, t)
    BY <1>2 DEF Receive, ResetPush
  <2>2. FALSE
    BY <1>0, <2>1, AppendProperties DEF QueueTypes
  <2>3. QED
    BY <2>2
<1>3. CASE TakeTask
  <2>1. client = "none" /\ inputTasks # <<>> /\ inputTasks' = Tail(inputTasks)
    BY <1>3 DEF TakeTask, clientVars
  <2>2. Len(inputTasks) = 1 /\ Head(inputTasks) = inputTasks[1]
    <3>1. Len(Tail(inputTasks)) = 0
      <4>1. Tail(inputTasks) = <<>>
        BY <2>1
      <4>2. Len(<<>>) = 0
        OBVIOUS
      <4>3. QED
        BY <4>1, <4>2, Zenon
    <3>2. Len(Tail(inputTasks)) = Len(inputTasks) - 1 /\ Len(inputTasks) \in Nat
      BY <1>0, <2>1, HeadTailProperties, LenProperties DEF QueueTypes
    <3>3. QED
      BY <1>0, <2>1, <3>1, <3>2 DEF QueueTypes
  <2>3. inputTasks[1] = IF client = "none" /\ 1 = Len(inputTasks) THEN "release" ELSE "next"
    BY <2>2 DEF TasksInv
  <2>4. Head(inputTasks) = "release"
    BY <2>1, <2>2, <2>3
  <2>5. QED
    BY <1>3, <2>4 DEF TakeTask
<1>4. CASE TakeTimer
  <2>1. client = "none" /\ inputTasks = <<>> /\ worker.at = "idle"
    BY <1>4 DEF TakeTimer, clientVars
  <2>2. PICK t \in inputTimers : t.runs # "watchdog" /\ worker' = [at |-> t.runs, id |-> t.id, key |-> t.key]
    BY <1>4 DEF TakeTimer
  <2>3. worker'.at \in {"nudge", "left", "repeat"}
    BY <1>0, <2>2 DEF TimersInv
  <2>4. QED
    BY <1>4, <2>1, <2>3 DEF TakeTimer, heldVars, DrainInv
<1>5. CASE PassMotion \/ PassButton \/ PassKey \/ AssignKey \/ AssignLeft \/ AssignRepeat
  <2>1. /\ client = "none" /\ inputTasks = <<>>
        /\ worker.at \notin {"release", "idle", "repeat", "left", "nudge"}
    BY <1>5 DEF PassMotion, PassButton, PassKey, AssignKey, AssignLeft, AssignRepeat, clientVars
  <2>2. QED
    BY <2>1 DEF DrainInv
<1>6. CASE RunLeft \/ RunNudge
  BY <1>6 DEF RunLeft, RunNudge, Done, Idle, clientVars, heldVars, DrainInv
<1>7. CASE RunRepeat
  <2>1. client = "none" /\ inputTasks = <<>> /\ worker.at = "repeat"
    BY <1>7 DEF RunRepeat, clientVars
  <2>2. keyPress = {} /\ mousePress = {}
    BY <2>1 DEF DrainInv
  <2>3. worker' = Idle /\ UNCHANGED <<keyPress, mousePress>>
    BY <1>7, <2>2 DEF RunRepeat, Done
  <2>4. QED
    BY <2>2, <2>3 DEF Idle
<1>8. CASE RunRelease
  BY <1>8 DEF RunRelease, Done, Idle
<1>9. CASE UNCHANGED inputVars \/ JoinEnds
  BY <1>9 DEF inputVars, JoinEnds, clientVars, heldVars, DrainInv
<1>10. QED
  BY <1>1, <1>2, <1>3, <1>4, <1>5, <1>6, <1>7, <1>8, <1>9 DEF InputNext

LEMMA ChainStep ==
  InputTypes /\ TasksInv /\ ChainInv /\ [InputNext]_inputVars => ChainInv'
<1> SUFFICES ASSUME InputTypes, TasksInv, ChainInv, [InputNext]_inputVars PROVE ChainInv'
  OBVIOUS
<1>0. /\ ClientTypes /\ QueueTypes /\ WorkerInv
      /\ Len(inputQueue) \in Nat /\ Len(inputTasks) \in Nat
  BY LenProperties DEF InputTypes, QueueTypes
<1>1. CASE Alloc
  <2>1. inputTasks = <<>> /\ worker = Idle /\ inputQueue' = <<>>
        /\ UNCHANGED <<position, worker, pointer>>
    BY <1>1 DEF Alloc
  <2>2. inputQueue = <<>>
    BY <1>0, <2>1, EmptySeq DEF TasksInv, QueueTypes
  <2>3. inputQueue' = inputQueue /\ UNCHANGED <<position, worker, pointer, astray>>
    BY <1>1, <2>1, <2>2, Zenon DEF Alloc
  <2>4. QED
    BY <2>3, Zenon DEF ChainInv, Reached, OnCourse
<1>2. CASE Receive
  <2>0. PICK kind \in InputKind : \E mm \in MessagesOf(kind) :
           inputQueue' = Append(inputQueue, mm) /\ position' = Leads(mm, position)
    BY <1>2 DEF Receive
  <2>1. PICK m \in MessagesOf(kind) :
          inputQueue' = Append(inputQueue, m) /\ position' = Leads(m, position)
    BY <2>0
  <2>2. m \in Message /\ m.at = position /\ position' = After(m)
    BY <1>0, <2>1, SentMessage DEF ClientTypes, After
  <2>3. UNCHANGED <<worker, pointer, astray>>
    BY <1>2 DEF Receive, joinVars, pointerVars
  <2>4. /\ Len(inputQueue') = Len(inputQueue) + 1
        /\ \A i \in 1 .. Len(inputQueue) : inputQueue'[i] = inputQueue[i]
        /\ inputQueue'[Len(inputQueue) + 1] = m /\ inputQueue' # <<>>
    BY <1>0, <2>1, <2>2, AppendProperties DEF QueueTypes
  <2>5. /\ Chained(inputQueue') /\ position' = After(inputQueue'[Len(inputQueue')])
        /\ inputQueue # <<>> => inputQueue'[1] = inputQueue[1]
        /\ inputQueue = <<>> => inputQueue'[1].at = position
    <3>1. CASE inputQueue = <<>>
      <4>1. Len(inputQueue') = 1 /\ inputQueue'[1] = m
        BY <2>4, <3>1
      <4>2. QED
        BY <2>2, <3>1, <4>1 DEF Chained
    <3>2. CASE inputQueue # <<>>
      <4>1. Len(inputQueue) >= 1
        BY <1>0, <3>2, EmptySeq DEF QueueTypes
      <4>2. position = After(inputQueue[Len(inputQueue)])
        BY <3>2 DEF ChainInv
      <4>3. Chained(inputQueue')
        <5> SUFFICES ASSUME NEW i \in 1 .. Len(inputQueue') - 1
                     PROVE  inputQueue'[i + 1].at = After(inputQueue'[i])
          BY DEF Chained
        <5>1. CASE i = Len(inputQueue)
          <6>1. inputQueue'[i + 1] = m /\ inputQueue'[i] = inputQueue[i]
            BY <2>4, <4>1, <5>1
          <6>2. QED
            BY <2>2, <4>2, <5>1, <6>1
        <5>2. CASE i # Len(inputQueue)
          <6>1. i \in 1 .. Len(inputQueue) - 1 /\ i \in 1 .. Len(inputQueue)
                /\ i + 1 \in 1 .. Len(inputQueue)
            BY <1>0, <2>4, <5>2
          <6>2. inputQueue[i + 1].at = After(inputQueue[i])
            BY <6>1 DEF ChainInv, Chained
          <6>3. QED
            BY <2>4, <6>1, <6>2
        <5>3. QED
          BY <5>1, <5>2
      <4>4. position' = After(inputQueue'[Len(inputQueue')]) /\ inputQueue'[1] = inputQueue[1]
        BY <2>2, <2>4, <4>1
      <4>5. QED
        BY <3>2, <4>3, <4>4
    <3>3. QED
      BY <3>1, <3>2
  <2>6. OnCourse' => Starts(inputQueue', position', Reached')
    BY <2>3, <2>4, <2>5 DEF ChainInv, Reached, OnCourse, Starts
  <2>7. worker'.at = "message" => (~Anchors(worker'.m) /\ ~astray' => worker'.m.at = pointer')
    BY <2>3, Zenon DEF ChainInv
  <2>8. QED
    BY <2>4, <2>5, <2>6, <2>7, Zenon DEF ChainInv
<1>3. CASE TakeTask
  <2>1. UNCHANGED <<position, pointer>> /\ worker.at = "idle" /\ (astray => astray')
    BY <1>3 DEF TakeTask, clientVars
  <2>2. CASE inputQueue' = inputQueue /\ worker'.at # "message"
    <3>1. Reached' = Reached /\ (OnCourse' => OnCourse)
      BY <2>1, <2>2 DEF Reached, OnCourse
    <3>2. QED
      BY <2>1, <2>2, <3>1, Zenon DEF ChainInv
  <2>3. CASE /\ inputQueue # <<>> /\ inputQueue' = Tail(BatchOf(inputQueue))
             /\ worker' = [at |-> "message", m |-> Head(BatchOf(inputQueue))]
             /\ TakesSum(inputQueue) => astray'
    <3>0. Chained(inputQueue)
      BY DEF ChainInv
    <3>1. PICK n \in 1 .. Len(inputQueue) :
            /\ inputQueue' \in Seq(Message) /\ Len(inputQueue') = Len(inputQueue) - n
            /\ \A i \in 1 .. Len(inputQueue) - n : inputQueue'[i] = inputQueue[n + i]
            /\ TakesSum(inputQueue) => worker'.m.kind = "rel"
            /\ ~TakesSum(inputQueue) =>
                 /\ After(worker'.m) = After(inputQueue[n])
                 /\ ~Anchors(worker'.m) => worker'.m.at = inputQueue[1].at
      BY <1>0, <2>3, <3>0, BatchTaken DEF QueueTypes
    <3>2. /\ position = After(inputQueue[Len(inputQueue)])
          /\ ~astray => inputQueue[1].at = pointer
      BY <2>1, <2>3 DEF ChainInv, Reached, OnCourse, Starts
    <3>3. worker'.at = "message" /\ Reached' = After(worker'.m)
      BY <2>3 DEF Reached
    <3>4. Chained(inputQueue')
      <4> SUFFICES ASSUME NEW i \in 1 .. Len(inputQueue') - 1
                   PROVE  inputQueue'[i + 1].at = After(inputQueue'[i])
        BY DEF Chained
      <4>1. /\ i \in 1 .. Len(inputQueue) - n /\ i + 1 \in 1 .. Len(inputQueue) - n
            /\ n + i \in 1 .. Len(inputQueue) - 1 /\ n + (i + 1) = (n + i) + 1
        BY <1>0, <3>1
      <4>2. inputQueue[(n + i) + 1].at = After(inputQueue[n + i])
        BY <4>1 DEF ChainInv, Chained
      <4>3. inputQueue'[i] = inputQueue[n + i] /\ inputQueue'[i + 1] = inputQueue[(n + i) + 1]
        BY <3>1, <4>1
      <4>4. QED
        BY <4>2, <4>3
    <3>5. ASSUME inputQueue' # <<>>
          PROVE  /\ inputQueue'[1].at = After(inputQueue[n])
                 /\ position' = After(inputQueue'[Len(inputQueue')])
      <4>1. Len(inputQueue') >= 1
        BY <3>1, <3>5, EmptySeq
      <4>2. /\ inputQueue'[1] = inputQueue[n + 1] /\ n \in 1 .. Len(inputQueue) - 1
            /\ inputQueue'[Len(inputQueue')] = inputQueue[Len(inputQueue)]
        BY <1>0, <3>1, <4>1
      <4>3. inputQueue[n + 1].at = After(inputQueue[n])
        BY <4>2 DEF ChainInv, Chained
      <4>4. QED
        BY <2>1, <3>2, <4>2, <4>3
    <3>6. ASSUME inputQueue' = <<>> PROVE position' = After(inputQueue[n])
      <4>1. n = Len(inputQueue)
        BY <1>0, <3>1, <3>6
      <4>2. QED
        BY <2>1, <3>2, <4>1
    <3>7. OnCourse' => ~TakesSum(inputQueue)
      BY <2>3, <3>1 DEF OnCourse, Anchors
    <3>8. OnCourse' => Starts(inputQueue', position', Reached')
      BY <3>1, <3>3, <3>5, <3>6, <3>7, Zenon DEF Starts
    <3>9. ~Anchors(worker'.m) /\ ~astray' => worker'.m.at = pointer'
      BY <2>1, <2>3, <3>1, <3>2, Zenon
    <3>10. QED
      BY <3>4, <3>5, <3>8, <3>9, Zenon DEF ChainInv
  <2>4. CASE Head(inputTasks) = "release" \/ inputQueue = <<>>
    <3>1. inputQueue' = inputQueue /\ worker'.at # "message"
      BY <1>3, <2>4 DEF TakeTask, Idle
    <3>2. QED
      BY <2>2, <3>1
  <2>5. CASE ~(Head(inputTasks) = "release") /\ inputQueue # <<>>
    <3>1. Head(inputTasks) = "next"
      <4>1. inputTasks # <<>> /\ Head(inputTasks) \in {"next", "release"}
        BY <1>0, <1>3, HeadTailProperties DEF TakeTask, QueueTypes
      <4>2. QED
        BY <2>5, <4>1
    <3>2. /\ inputQueue' = Tail(BatchOf(inputQueue))
          /\ worker' = [at |-> "message", m |-> Head(BatchOf(inputQueue))]
      BY <1>3, <2>5 DEF TakeTask
    <3>3. TakesSum(inputQueue) => astray'
      BY <1>3, <3>1, Zenon DEF TakeTask
    <3>4. QED
      BY <2>3, <2>5, <3>2, <3>3
  <2>6. QED
    BY <2>4, <2>5
<1>4. CASE PassMotion
  <2>1. worker.at = "message" /\ worker'.at = "idle" /\ UNCHANGED <<position, inputQueue>>
    BY <1>4 DEF PassMotion, Done, Idle, clientVars
  <2>2. CASE Anchors(worker.m)
    <3>1. astray' = ~touchPort /\ (touchPort => pointer' = Leads(worker.m, pointer))
      BY <1>4, <2>2, Zenon DEF PassMotion
    <3>2. Leads(worker.m, pointer) = After(worker.m)
      BY <2>2 DEF After, Leads
    <3>3. OnCourse /\ (OnCourse' => Reached' = Reached)
      BY <2>1, <2>2, <3>1, <3>2 DEF OnCourse, Reached
    <3>4. QED
      BY <2>1, <3>3, Zenon DEF ChainInv
  <2>3. CASE ~Anchors(worker.m)
    <3>1. astray' = astray /\ pointer' = Leads(worker.m, pointer)
      BY <1>4, <2>3 DEF PassMotion, Leads
    <3>2. ~astray => worker.m.at = pointer
      BY <2>1, <2>3 DEF ChainInv
    <3>3. OnCourse' => OnCourse /\ Reached' = Reached
      BY <2>1, <3>1, <3>2 DEF OnCourse, Reached, After
    <3>4. QED
      BY <2>1, <3>3, Zenon DEF ChainInv
  <2>4. QED
    BY <2>2, <2>3
<1>5. CASE PassButton \/ PassKey
  <2>1. /\ worker.at = "message" /\ worker.m.kind \in {"button", "key"}
        /\ UNCHANGED <<position, inputQueue, pointer, astray>>
    BY <1>5 DEF PassButton, PassKey, clientVars, joinVars, pointerVars
  <2>2. worker'.at # "message"
    BY <1>5 DEF PassButton, PassKey, Done, Idle
  <2>3. ~Anchors(worker.m) /\ After(worker.m) = worker.m.at
    BY <2>1 DEF Anchors, Leads, After
  <2>4. OnCourse' => OnCourse /\ Reached' = Reached
    BY <2>1, <2>2, <2>3 DEF ChainInv, OnCourse, Reached
  <2>5. QED
    BY <2>1, <2>2, <2>4, Zenon DEF ChainInv
<1>6. CASE \/ TakeTimer \/ AssignLeft \/ RunLeft \/ AssignKey
           \/ RunRepeat \/ AssignRepeat \/ RunNudge \/ RunRelease
  <2>1. UNCHANGED <<position, inputQueue, pointer, astray>> /\ worker.at # "message"
    BY <1>6 DEF TakeTimer, AssignLeft, RunLeft, AssignKey, RunRepeat, AssignRepeat, RunNudge,
                RunRelease, clientVars, joinVars, pointerVars
  <2>2. worker'.at # "message"
    <3>1. CASE TakeTimer
      <4>1. PICK t \in inputTimers : worker' = [at |-> t.runs, id |-> t.id, key |-> t.key]
        BY <3>1 DEF TakeTimer
      <4>2. t.runs # "message"
        BY <4>1 DEF InputTypes, TimersInv
      <4>3. QED
        BY <4>1, <4>2
    <3>2. CASE worker' = Idle
      BY <3>2 DEF Idle
    <3>3. CASE \E i \in FreeId : worker' = [at |-> "assignRepeat", id |-> i]
      BY <3>3
    <3>4. QED
      BY <1>6, <3>1, <3>2, <3>3
      DEF AssignLeft, RunLeft, AssignKey, RunRepeat, AssignRepeat, RunNudge, RunRelease, Done
  <2>3. Reached' = Reached /\ (OnCourse' => OnCourse)
    BY <2>1, <2>2 DEF Reached, OnCourse
  <2>4. QED
    BY <2>1, <2>2, <2>3, Zenon DEF ChainInv
<1>7. CASE UNCHANGED <<position, inputQueue, pointer, astray, worker>>
  BY <1>7, Zenon DEF ChainInv, Reached, OnCourse
<1>8. QED
  BY <1>1, <1>2, <1>3, <1>4, <1>5, <1>6, <1>7
  DEF InputNext, inputVars, joinVars, pointerVars, clientVars, RaiseTouchPort, JoinPush,
      ResetRepeat, ResetLeft, ResetPush, JoinEnds

LEMMA InputStep == InputInv /\ [InputNext]_inputVars => InputInv'
  BY ClientStep, FlagStep, QueueStep, PressStep, IdStep, WorkerStep, TimersStep, HeldStep, TasksStep,
     DrainStep, ChainStep, Zenon DEF InputInv, InputTypes

LEMMA InputAlways == InputSpec => []InputInv
<1>1. InputInit => InputInv
  BY InputInitially
<1>2. InputInv /\ [InputNext]_inputVars => InputInv'
  BY InputStep
<1>3. QED
  BY <1>1, <1>2, PTL DEF InputSpec

\* The types of the input state, and no more messages than tasks to take them.
THEOREM InputTypeCorrect == InputSpec => []InputTypeOK
<1>1. InputInv => InputTypeOK
  <2> SUFFICES ASSUME InputInv PROVE InputTypeOK
    OBVIOUS
  <2>1. ClientTypes /\ FlagTypes /\ PressTypes /\ IdTypes
    BY DEF InputInv, InputTypes
  <2>2. Len(inputQueue) <= Len(inputTasks)
    BY DEF InputInv, TasksInv
  <2>3. \A t \in inputTimers : t.id \in TaskId
    BY DEF InputInv, InputTypes, TimersInv
  <2>4. QED
    BY <2>1, <2>2, <2>3, Zenon DEF InputTypeOK, ClientTypes, FlagTypes, PressTypes, IdTypes
<1>2. QED
  BY <1>1, InputAlways, PTL

\* When a client is gone and its tasks have run, a key that is still down is one that
\* is sent under another code, and a button the left one, whose delayed release
\* reset() cancels, or the fifth, which is not tracked: reset() pushed the release of
\* the rest behind every task of the client.
THEOREM KeysReleased == InputSpec => []KeysUpAfterReset
<1>1. InputInv => KeysUpAfterReset
  <2> SUFFICES ASSUME InputInv, client = "none", inputTasks = <<>>, worker = Idle
               PROVE  osKeys \subseteq {"win"} /\ osButtons \subseteq {"left", "x2"}
    BY DEF KeysUpAfterReset
  <2>1. keyPress = {} /\ mousePress = {}
    BY DEF InputInv, DrainInv, Idle
  <2>2. QED
    BY <2>1 DEF InputInv, HeldInv
<1>2. QED
  BY <1>1, InputAlways, PTL

\* A press or a release finds the pointer where the motions sent before it lead,
\* however many were batched and whichever were ignored, but after a sum of deltas
\* that overflowed, or an absolute motion before the touch port, until the next
\* absolute motion.
THEOREM ClicksPlaced == InputSpec => []ClicksLandWhereSent
<1>1. InputInv => ClicksLandWhereSent
  <2> SUFFICES ASSUME InputInv, worker.at = "message", worker.m.kind = "button", ~astray
               PROVE  worker.m.at = pointer
    BY DEF ClicksLandWhereSent
  <2>1. ~Anchors(worker.m)
    BY DEF Anchors
  <2>2. QED
    BY <2>1, Zenon DEF InputInv, ChainInv
<1>2. QED
  BY <1>1, InputAlways, PTL

----------------------------------------------------------------------------
(* Video and audio on the wire.                                            *)

\* Integer division and products, the only arithmetic that the split of a frame
\* needs.
LEMMA Quotient ==
  ASSUME NEW a \in Nat, NEW b \in Nat \ {0}
  PROVE  /\ a \div b \in Nat /\ (a \div b) * b <= a /\ a < (a \div b) * b + b
BY SMTT(30)

LEMMA QuotientAtMost ==
  ASSUME NEW a \in Nat, NEW b \in Nat \ {0}, NEW c \in Nat, a <= c * b
  PROVE  a \div b <= c
BY Quotient, SMTT(30)

LEMMA QuotientBelow ==
  ASSUME NEW a \in Nat, NEW b \in Nat \ {0}, NEW c \in Nat, a < c * b
  PROVE  a \div b < c
BY Quotient, SMTT(30)

LEMMA Product ==
  ASSUME NEW a \in Nat, NEW b \in Nat, NEW c \in Nat, a <= b
  PROVE  a * c \in Nat /\ b * c \in Nat /\ a * c <= b * c
BY SMTT(30)

\* A quotient that is rounded up.
LEMMA CeilBounds ==
  ASSUME NEW a \in Nat, NEW b \in Nat \ {0}
  PROVE  Ceil(a, b) \in Nat /\ a <= Ceil(a, b) * b /\ Ceil(a, b) * b <= a + b - 1
<1>1. a + b - 1 \in Nat
  OBVIOUS
<1>2. QED
  BY <1>1, Quotient DEF Ceil

LEMMA CeilAtMost ==
  ASSUME NEW a \in Nat, NEW b \in Nat \ {0}, NEW c \in Nat, a <= c * b
  PROVE  Ceil(a, b) <= c
<1>1. a + b - 1 \in Nat /\ a + b - 1 < (c + 1) * b /\ c + 1 \in Nat
  BY SMTT(30)
<1>2. (a + b - 1) \div b < c + 1 /\ (a + b - 1) \div b \in Nat
  BY <1>1, QuotientBelow, Quotient
<1>3. QED
  BY <1>2 DEF Ceil

LEMMA CeilPositive ==
  ASSUME NEW a \in Nat \ {0}, NEW b \in Nat \ {0}
  PROVE  Ceil(a, b) >= 1
BY CeilBounds, SMTT(30)

\* How a frame is split into blocks.
Split(f) ==
  /\ f.size \in Nat \ {0} /\ f.blocks \in 1..MaxBlocks /\ f.aligned \in Nat \ {0}
  /\ (f.blocks - 1) * f.aligned < f.size

\* A block always has room for data, whatever the percentage.
LEMMA MaxDataShardsBounds ==
  ASSUME NEW p \in 1..255
  PROVE  MaxDataShards(p) \in 71..252
<1>1. /\ 71 * (100 + p) <= MaxShards * 100 /\ MaxShards * 100 < 253 * (100 + p)
  BY DEF MaxShards
<1>2. 100 + p \in Nat \ {0} /\ MaxShards * 100 \in Nat
  BY DEF MaxShards
<1>3. /\ MaxDataShards(p) \in Nat /\ MaxDataShards(p) < 253
      /\ MaxShards * 100 < MaxDataShards(p) * (100 + p) + (100 + p)
  BY <1>1, <1>2, Quotient, QuotientBelow DEF MaxDataShards
<1>4. MaxDataShards(p) >= 71
  <2>1. CASE MaxDataShards(p) + 1 <= 71
    <3>1. (MaxDataShards(p) + 1) * (100 + p) <= 71 * (100 + p)
      BY <1>2, <1>3, <2>1, Product
    <3>2. QED
      BY <1>1, <1>2, <1>3, <3>1 DEF MaxShards
  <2>2. QED
    BY <1>3, <2>1
<1>5. QED
  BY <1>3, <1>4

\* The blocks that a frame is given are the whole frame.
LEMMA BlockedSplit ==
  ASSUME NEW size \in Nat \ {0}, NEW p \in 1..255, NEW min \in Nat
  PROVE  Split(Blocked(size, p, min))
<1> DEFINE unit   == MaxDataShards(p) * BlockSize
           needed == Ceil(size, unit)
           blocks == IF needed > MaxBlocks THEN MaxBlocks ELSE needed
           part   == size \div blocks
           a      == Ceil(part, BlockSize) * BlockSize
<1>1. unit \in Nat \ {0} /\ unit >= 71 * BlockSize /\ BlockSize \in Nat \ {0}
  <2>1. MaxDataShards(p) \in 71..252
    BY MaxDataShardsBounds
  <2>2. BlockSize \in Nat \ {0} /\ MaxDataShards(p) \in Nat /\ 71 <= MaxDataShards(p)
    <3> HIDE DEF unit, needed, blocks, part, a
    <3>1. MaxDataShards(p) \in Nat /\ 71 <= MaxDataShards(p)
      BY <2>1
    <3>2. QED
      BY <3>1, WireAssumption
  <2>3. 71 * BlockSize <= unit /\ unit \in Nat
    BY <2>2, Product
  <2>4. QED
    BY <2>2, <2>3
<1>2. needed \in Nat /\ needed >= 1 /\ needed * unit <= size + unit - 1
  <2> HIDE DEF unit
  <2>1. QED
    BY <1>1, CeilBounds, CeilPositive
<1> HIDE DEF needed
<1>3. blocks \in 1..4 /\ blocks <= needed
  BY <1>2 DEF MaxBlocks
<1> HIDE DEF blocks
<1>4. (blocks - 1) * unit < size
  <2> HIDE DEF unit
  <2>1. (needed - 1) * unit < size
    BY <1>1, <1>2, SMTT(30)
  <2>2. (blocks - 1) * unit <= (needed - 1) * unit
    BY <1>1, <1>2, <1>3, Product
  <2>3. QED
    BY <1>1, <1>2, <1>3, <2>1, <2>2
<1> HIDE DEF unit
<1>5. part \in Nat /\ part * blocks <= size /\ size < part * blocks + blocks
  BY <1>3, Quotient
<1> HIDE DEF part
<1>6. part >= 1
  <2>1. CASE blocks = 1
    BY <1>5, <2>1
  <2>2. CASE blocks > 1
    <3>1. 1 * unit <= (blocks - 1) * unit
      BY <1>1, <1>3, <2>2, Product
    <3>2. 71 <= unit
      BY <1>1
    <3>3. (blocks - 1) * unit \in Nat
      BY <1>1, <1>3, Product
    <3>4. size > 71
      BY <1>1, <1>4, <3>1, <3>2, <3>3
    <3>5. CASE part = 0
      BY <1>3, <1>5, <3>4, <3>5
    <3>6. QED
      BY <1>5, <3>5
  <2>3. QED
    BY <1>3, <2>1, <2>2
<1>7. a \in Nat /\ part <= a /\ a <= part + BlockSize - 1
  <2>1. /\ Ceil(part, BlockSize) \in Nat /\ part <= Ceil(part, BlockSize) * BlockSize
        /\ Ceil(part, BlockSize) * BlockSize <= part + BlockSize - 1
    BY <1>1, <1>5, CeilBounds
  <2>2. Ceil(part, BlockSize) * BlockSize \in Nat
    BY <1>1, <2>1, Product
  <2>3. QED
    BY <2>1, <2>2
<1> HIDE DEF a
<1>8. (blocks - 1) * a < size
  <2>1. CASE blocks = 1
    BY <1>7, <2>1
  <2>2. CASE blocks = 2
    BY <1>1, <1>4, <1>5, <1>7, <2>2
  <2>3. CASE blocks = 3
    BY <1>1, <1>4, <1>5, <1>7, <2>3
  <2>4. CASE blocks = 4
    BY <1>1, <1>4, <1>5, <1>7, <2>4
  <2>5. QED
    BY <1>3, <2>1, <2>2, <2>3, <2>4
<1>9. QED
  <2>1. LET f == Blocked(size, p, min)
        IN  f.size = size /\ f.blocks = blocks /\ f.aligned = a
    BY DEF Blocked, needed, unit, blocks, part, a
  <2>2. QED
    BY <1>3, <1>6, <1>5, <1>7, <1>8, <2>1 DEF Split, MaxBlocks

\* With FEC no block is larger than what its shards can hold.
FecSplit(f) ==
  LET unit == MaxDataShards(f.percent) * BlockSize
  IN  /\ f.percent \in 0..255
      /\ f.percent # 0 =>
           f.aligned <= unit /\ f.size - (f.blocks - 1) * f.aligned <= unit

\* What fits FEC does so in each block.
LEMMA BlockedFec ==
  ASSUME NEW size \in Nat \ {0}, NEW p \in 1..255, NEW min \in Nat
  PROVE  FecSplit(Blocked(size, p, min))
<1> DEFINE shardsMax == MaxDataShards(p)
           unit   == shardsMax * BlockSize
           needed == Ceil(size, unit)
           blocks == IF needed > MaxBlocks THEN MaxBlocks ELSE needed
           part   == size \div blocks
           each   == Ceil(part, BlockSize)
           a      == each * BlockSize
           f      == Blocked(size, p, min)
<1>1. /\ f.percent = IF needed > MaxBlocks THEN 0 ELSE p
      /\ f.size = size /\ f.blocks = blocks /\ f.aligned = a
  BY DEF Blocked
<1>2. CASE needed > MaxBlocks
  <2> HIDE DEF needed
  <2>1. f.percent = 0
    BY <1>1, <1>2
  <2> HIDE DEF f
  <2>2. f.percent \in 0..255
    BY <2>1
  <2>3. QED
    BY <2>1, <2>2, Zenon DEF FecSplit, f
<1>3. CASE ~(needed > MaxBlocks)
  <2>1. shardsMax \in 71..252
    BY MaxDataShardsBounds
  <2> HIDE DEF shardsMax
  <2>2. BlockSize \in Nat \ {0} /\ BlockSize >= 3
    BY WireAssumption
  <2>3. unit \in Nat \ {0}
    <3>1. unit \in Nat /\ 71 * BlockSize <= unit
      BY <2>1, <2>2, Product
    <3>2. QED
      BY <2>2, <3>1
  <2>4. needed \in Nat /\ needed >= 1 /\ size <= needed * unit
    <3> HIDE DEF unit
    <3>1. QED
      BY <2>3, CeilBounds, CeilPositive
  <2>5. needed \in 1..4 /\ blocks = needed
    <3> HIDE DEF needed
    <3>1. QED
      BY <1>3, <2>4 DEF MaxBlocks
  <2>6. blocks \in 1..4 /\ size <= blocks * unit
    BY <2>4, <2>5
  <2> HIDE DEF needed, blocks
  <2>7. part \in Nat /\ part * blocks <= size /\ size < part * blocks + blocks /\ part <= unit
    <3> HIDE DEF unit
    <3>1. part \in Nat /\ part * blocks <= size /\ size < part * blocks + blocks
      BY <2>6, Quotient
    <3>2. size <= unit * blocks
      BY <2>3, <2>6
    <3>3. part <= unit
      BY <2>3, <2>6, <3>2, QuotientAtMost
    <3>4. QED
      BY <3>1, <3>3
  <2> HIDE DEF part
  <2>8. each \in Nat /\ each <= shardsMax /\ part <= each * BlockSize
    <3>1. shardsMax \in Nat /\ part \in Nat /\ part <= shardsMax * BlockSize
      BY <2>1, <2>7
    <3>2. each \in Nat /\ part <= each * BlockSize
      BY <2>2, <3>1, CeilBounds
    <3>3. each <= shardsMax
      BY <2>2, <3>1, CeilAtMost
    <3>4. QED
      BY <3>2, <3>3
  <2> HIDE DEF each
  <2>9. a \in Nat /\ a <= unit
    BY <2>1, <2>2, <2>8, Product
  <2>10. size - (blocks - 1) * a <= unit
    <3>1. CASE each = shardsMax
      <4>1. a = unit
        BY <3>1
      <4> HIDE DEF a, unit
      <4>2. CASE blocks = 1
        BY <2>3, <2>6, <2>9, <4>1, <4>2
      <4>3. CASE blocks = 2
        BY <2>3, <2>6, <2>9, <4>1, <4>3
      <4>4. CASE blocks = 3
        BY <2>3, <2>6, <2>9, <4>1, <4>4
      <4>5. CASE blocks = 4
        BY <2>3, <2>6, <2>9, <4>1, <4>5
      <4>6. QED
        BY <2>6, <4>2, <4>3, <4>4, <4>5
    <3>2. CASE each # shardsMax
      <4>1. each + 1 <= shardsMax /\ each + 1 \in Nat /\ shardsMax \in Nat
        BY <2>1, <2>8, <3>2
      <4>2. (each + 1) * BlockSize <= unit
        BY <2>2, <4>1, Product
      <4>3. (each + 1) * BlockSize = a + BlockSize
        BY <2>2, <2>8, SMTT(30)
      <4>4. part <= a /\ a + 3 <= unit
        BY <1>3, <2>2, <2>3, <2>8, <2>9, <4>2, <4>3
      <4> HIDE DEF a, unit
      <4>5. CASE blocks = 1
        BY <2>3, <2>7, <2>9, <4>4, <4>5
      <4>6. CASE blocks = 2
        BY <2>3, <2>7, <2>9, <4>4, <4>6
      <4>7. CASE blocks = 3
        BY <2>3, <2>7, <2>9, <4>4, <4>7
      <4>8. CASE blocks = 4
        BY <2>3, <2>7, <2>9, <4>4, <4>8
      <4>9. QED
        BY <2>6, <4>5, <4>6, <4>7, <4>8
    <3>3. QED
      BY <3>1, <3>2
  <2>11. f.percent = p
    <3> HIDE DEF f
    <3>1. QED
      BY <1>1, <1>3 DEF needed
  <2>12. f.size = size /\ f.blocks = blocks /\ f.aligned = a
    BY <1>1 DEF blocks, needed, part, each
  <2>13. MaxDataShards(f.percent) * BlockSize = unit
    BY <2>11 DEF shardsMax
  <2> HIDE DEF f, a, unit
  <2>14. f.percent \in 0..255
    BY <2>11
  <2>15. f.aligned <= unit /\ f.size - (f.blocks - 1) * f.aligned <= unit
    BY <2>9, <2>10, <2>12
  <2>16. QED
    BY <2>13, <2>14, <2>15, Zenon DEF FecSplit, f
<1>4. QED
  BY <1>2, <1>3

\* The data shards of a block and the parity made for them fit a block.
LEMMA ParityFits ==
  ASSUME NEW p \in 1..255, NEW data \in Nat, data <= MaxDataShards(p)
  PROVE  /\ data * p \in Nat /\ (data * p + 99) \div 100 \in Nat
         /\ data + (data * p + 99) \div 100 <= 255
<1>1. /\ MaxDataShards(p) \in Nat /\ 100 + p \in Nat \ {0} /\ data * p \in Nat
      /\ MaxDataShards(p) * (100 + p) <= 25500
  <2>1. 100 + p \in Nat \ {0} /\ MaxShards * 100 = 25500 /\ 25500 \in Nat /\ p \in Nat
    BY DEF MaxShards
  <2>2. (25500 \div (100 + p)) * (100 + p) <= 25500 /\ 25500 \div (100 + p) \in Nat
    BY <2>1, Quotient
  <2>3. QED
    BY <2>1, <2>2, Product DEF MaxDataShards
<1>2. data * (100 + p) <= 25500
  <2>1. data * (100 + p) <= MaxDataShards(p) * (100 + p)
    BY <1>1, Product
  <2>2. /\ data * (100 + p) \in Nat /\ MaxDataShards(p) * (100 + p) \in Nat
    BY <1>1, Product
  <2>3. QED
    BY <1>1, <2>1, <2>2
<1>3. 100 * data + data * p <= 25500
  BY <1>2, SMTT(30)
<1>4. PICK x \in Nat: x = data * p
  BY <1>1
<1>5. (x + 99) \div 100 \in Nat /\ data + (x + 99) \div 100 <= 255
  BY <1>3, <1>4
<1>6. QED
  BY <1>1, <1>4, <1>5

\* fec::encode of a block: with parity that the client's minimum did not raise
\* everything fits, and with more where the property says so.
LEMMA EncodedParity ==
  ASSUME NEW units \in Nat \ {0}, frame.percent \in 1..255, frame.min \in Nat,
         units <= MaxDataShards(frame.percent) * BlockSize
  PROVE  LET s == FecEncode(units)
         IN  /\ frame.min <= 2 \/ ~Raised(s.data) => s.all <= MaxShards /\ s.percent < 256
             /\ s.data <= 100 \/ ~Raised(s.data) =>
                  ParityShards(s.data, s.percent) = s.all - s.data
<1> DEFINE data   == Ceil(units, BlockSize)
           wanted == ParityShards(data, frame.percent)
           made   == IF Raised(data) THEN frame.min ELSE wanted
           s      == FecEncode(units)
<1>1. /\ s.data = data /\ s.all = data + made
      /\ s.percent = IF Raised(data) THEN (100 * made) \div data ELSE frame.percent
  BY DEF FecEncode
<1>2. PICK p \in 1..255: p = frame.percent
  OBVIOUS
<1>3. data \in Nat /\ data >= 1 /\ data <= MaxDataShards(p)
  <2>1. BlockSize \in Nat \ {0} /\ MaxDataShards(p) \in Nat
    <3>1. MaxDataShards(p) \in 71..252
      BY MaxDataShardsBounds
    <3>2. QED
      BY <3>1, WireAssumption
  <2>2. units \in Nat /\ units <= MaxDataShards(p) * BlockSize
    BY <1>2
  <2>3. QED
    BY <2>1, <2>2, CeilBounds, CeilPositive, CeilAtMost
<1> HIDE DEF data
<1>4. PICK x \in Nat: x = data * p
  BY <1>3, Product
<1>5. /\ wanted = (x + 99) \div 100 /\ wanted \in Nat /\ data + wanted <= 255
  BY <1>2, <1>3, <1>4, ParityFits DEF ParityShards
<1>6. Raised(data) <=> wanted < frame.min
  BY DEF Raised
<1> HIDE DEF wanted, s
<1>7. CASE ~Raised(data)
  <2>1. s.all = data + wanted /\ s.percent = p
    BY <1>1, <1>2, <1>7
  <2>2. s.all <= 255 /\ s.percent < 256
    BY <1>5, <2>1
  <2>3. ParityShards(s.data, s.percent) = s.all - s.data
    <3>1. s.data * s.percent = x
      BY <1>1, <1>4, <2>1
    <3>2. s.all - s.data = wanted
      BY <1>1, <1>3, <1>5, <2>1
    <3>3. QED
      BY <1>5, <3>1, <3>2 DEF ParityShards
  <2>4. QED
    BY <2>2, <2>3 DEF MaxShards, s
<1>8. CASE Raised(data)
  <2>1. PICK m \in Nat: m = frame.min /\ wanted < m
    BY <1>6, <1>8
  <2>2. s.data = data /\ s.all = data + m /\ s.percent = (100 * m) \div data
    BY <1>1, <1>8, <2>1
  <2>3. PICK n \in Nat: n = 100 * m
    BY <2>1
  <2>4. /\ n \div data \in Nat /\ (n \div data) * data <= n
        /\ n < (n \div data) * data + data
    BY <1>3, <2>3, Quotient
  <2>5. ASSUME m <= 2 PROVE s.all <= 255 /\ s.percent < 256
    <3>1. data <= x
      BY <1>3, <1>4, Product
    <3>2. m = 2 /\ data <= 100
      BY <1>3, <1>5, <2>1, <2>5, <3>1
    <3>3. n <= 200 * data
      BY <1>3, <2>3, <3>2
    <3>4. n \div data <= 200
      BY <1>3, <3>3, QuotientAtMost
    <3>5. QED
      BY <1>3, <2>2, <2>3, <2>4, <3>2, <3>4
  <2>6. ASSUME data <= 100 PROVE ParityShards(s.data, s.percent) = s.all - s.data
    <3>1. PICK y \in Nat: y = data * (n \div data)
      BY <1>3, <2>4, Product
    <3>2. (n \div data) * data = y
      BY <1>3, <2>4, <3>1, SMTT(30)
    <3>3. y <= n /\ n < y + data
      BY <2>4, <3>2
    <3>4. (y + 99) \div 100 = m
      BY <1>3, <2>1, <2>3, <2>6, <3>1, <3>3
    <3>5. s.all - s.data = m
      BY <1>3, <2>1, <2>2
    <3>6. ParityShards(s.data, s.percent) = (y + 99) \div 100
      BY <2>2, <2>3, <3>1 DEF ParityShards
    <3>7. QED
      BY <3>4, <3>5, <3>6
  <2>7. frame.min <= 2 => s.all <= MaxShards /\ s.percent < 256
    BY <2>1, <2>5 DEF MaxShards
  <2>8. QED
    BY <1>8, <2>2, <2>6, <2>7 DEF s
<1>9. QED
  BY <1>7, <1>8

\* The frame on its way, and how much of it was sent.
FrameInv ==
  /\ frame # NoFrame => Split(frame) /\ FecSplit(frame) /\ frame.min \in MinParity
  /\ frame = NoFrame => blockNr = 0 /\ sentVideo = 0 /\ shards = NoShards
  /\ frame # NoFrame =>
       /\ blockNr \in 0..frame.blocks
       /\ sentVideo = IF blockNr = frame.blocks THEN frame.size ELSE blockNr * frame.aligned

\* The sequence numbers and the counts of shards.
ShardsInv ==
  /\ lowseq \in 0..SeqNumbers - 1
  /\ shards.data \in Nat /\ shards.all \in Nat /\ shards.percent \in Nat

\* The packets of an audio block fill its slots one by one.
AudioInv ==
  /\ seqAudio \in 0..SeqNumbers - 1 /\ header \in 0..SeqNumbers - 1
  /\ slots \in [0..3 -> 0..SeqNumbers - 1]
  /\ seqAudio % 4 > 0 => header = seqAudio - (seqAudio % 4)
  /\ \A x \in 0..3: x < seqAudio % 4 => slots[x] = header + x
  /\ \A x \in 0..3: parity.of[x] = (parity.base + x) % SeqNumbers

\* The sequence numbers of RTP come round.
LEMMA Sequence ==
  /\ SeqNumbers \in Nat /\ SeqNumbers > 3 /\ SeqNumbers % 4 = 0
  /\ \A n \in 0..SeqNumbers - 1: /\ n \in Nat /\ n % SeqNumbers = n
                                 /\ (n + 1) % SeqNumbers \in 0..SeqNumbers - 1
                                 /\ n + 1 # SeqNumbers => (n + 1) % SeqNumbers = n + 1
  /\ \A n \in Nat: n % SeqNumbers \in 0..SeqNumbers - 1
<1>1. SeqNumbers \in Nat \ {0} /\ SeqNumbers % 4 = 0
  BY WireAssumption
<1>2. SeqNumbers > 3
  BY <1>1
<1>3. QED
  BY <1>1, <1>2, SMTT(30)

\* Audio packets are counted in fours, the size of their FEC block.
LEMMA Quarter ==
  \A n \in Nat: /\ n % 4 \in 0..3 /\ n % 4 <= n
                /\ n % 4 < 3 => (n + 1) % 4 = (n % 4) + 1
                /\ n % 4 = 3 => (n + 1) % 4 = 0
OBVIOUS

\* The audio thread fills a block and leaves the parity of it.
LEMMA AudioInvNext ==
  ASSUME AudioInv, SendAudio
  PROVE  AudioInv'
<1>1. PICK n \in Nat: n = seqAudio
  BY Sequence DEF AudioInv
<1>2. PICK k \in 0..3: k = n % 4
  BY <1>1, Quarter
<1>3. /\ n >= k /\ n <= SeqNumbers - 1
      /\ k < 3 => (n + 1) % 4 = k + 1
      /\ k = 3 => (n + 1) % 4 = 0
  <2>1. n <= SeqNumbers - 1
    BY <1>1, Sequence DEF AudioInv
  <2>2. QED
    BY <1>1, <1>2, <2>1, Quarter
<1>4. /\ slots' = [slots EXCEPT ![k] = n]
      /\ header' = IF k = 0 THEN n ELSE header
      /\ parity' = IF k = 3 THEN [base |-> header', of |-> slots'] ELSE parity
      /\ seqAudio' = (n + 1) % SeqNumbers
  <2>1. ((n + 1) % 4 = 0) <=> k = 3
    BY <1>2, <1>3
  <2>2. QED
    BY <1>1, <1>2, <2>1 DEF SendAudio, BlockStarts, DataShards
<1>5. header' = n - k /\ header' \in 0..SeqNumbers - 1
  <2>1. seqAudio % 4 > 0 => header = seqAudio - (seqAudio % 4)
    BY DEF AudioInv
  <2>2. n % 4 > 0 => header = n - (n % 4)
    BY <1>1, <2>1
  <2>3. k > 0 => header = n - k
    BY <1>2, <2>2, Zenon
  <2>4. k = 0 \/ k > 0
    BY <1>2
  <2>5. header' = n - k
    <3>1. CASE k = 0
      BY <1>4, <3>1
    <3>2. CASE k > 0
      BY <1>2, <1>4, <2>3, <3>2
    <3>3. QED
      BY <2>4, <3>1, <3>2
  <2>6. QED
    BY <1>2, <1>3, <2>5, Sequence
<1>6. slots' \in [0..3 -> 0..SeqNumbers - 1]
  <2>1. n \in 0..SeqNumbers - 1
    BY <1>1 DEF AudioInv
  <2>2. QED
    BY <1>4, <2>1 DEF AudioInv
<1>7. \A x \in 0..3: x <= k => slots'[x] = header' + x
  <2> SUFFICES ASSUME NEW x \in 0..3, x <= k PROVE slots'[x] = header' + x
    OBVIOUS
  <2>1. CASE x = k
    BY <1>4, <1>5, <2>1 DEF AudioInv
  <2>2. CASE x # k
    <3>1. slots'[x] = slots[x] /\ x < k
      BY <1>4, <2>2 DEF AudioInv
    <3>2. slots[x] = header + x /\ k # 0
      BY <1>1, <1>2, <3>1 DEF AudioInv
    <3>3. QED
      BY <1>4, <3>1, <3>2
  <2>3. QED
    BY <2>1, <2>2
<1>8. \A x \in 0..3: parity'.of[x] = (parity'.base + x) % SeqNumbers
  <2>1. CASE k = 3
    <3>1. parity'.of = slots' /\ parity'.base = header'
      BY <1>4, <2>1
    <3>2. \A x \in 0..3: header' + x \in 0..SeqNumbers - 1
      BY <1>3, <1>5, <2>1, Sequence
    <3>3. \A x \in 0..3: (header' + x) % SeqNumbers = header' + x
      BY <3>2, Sequence
    <3>4. \A x \in 0..3: slots'[x] = header' + x
      BY <1>7, <2>1
    <3>5. QED
      BY <3>1, <3>3, <3>4
  <2>2. CASE k # 3
    BY <1>4, <2>2 DEF AudioInv
  <2>3. QED
    BY <2>1, <2>2
<1>9. seqAudio' \in 0..SeqNumbers - 1
  BY <1>1, <1>4, Sequence DEF AudioInv
<1>10. CASE n + 1 = SeqNumbers
  <2>1. seqAudio' = 0
    <3>1. SeqNumbers \in Nat /\ SeqNumbers > 0
      BY Sequence
    <3>2. SeqNumbers % SeqNumbers = 0
      BY <3>1, SMTT(30)
    <3>3. QED
      BY <1>4, <1>10, <3>2
  <2>2. seqAudio' % 4 = 0
    BY <2>1
  <2>3. QED
    BY <1>5, <1>6, <1>8, <1>9, <2>2 DEF AudioInv
<1>11. CASE n + 1 # SeqNumbers
  <2>1. seqAudio' = n + 1
    <3>1. n \in 0..SeqNumbers - 1
      BY <1>1 DEF AudioInv
    <3>2. (n + 1) % SeqNumbers = n + 1
      BY <1>11, <3>1, Sequence
    <3>3. QED
      BY <1>4, <3>2
  <2>2. seqAudio' % 4 > 0 => header' = seqAudio' - (seqAudio' % 4)
    <3>1. CASE k = 3
      <4>1. seqAudio' % 4 = 0
        BY <1>3, <2>1, <3>1
      <4>2. QED
        BY <4>1
    <3>2. CASE k < 3
      <4>1. seqAudio' % 4 = k + 1
        BY <1>3, <2>1, <3>2
      <4>2. QED
        <5>1. seqAudio' - (seqAudio' % 4) = (n + 1) - (k + 1)
          BY <2>1, <4>1, Zenon
        <5>2. (n + 1) - (k + 1) = n - k
          OBVIOUS
        <5>3. QED
          BY <1>5, <5>1, <5>2
    <3>3. QED
      BY <1>2, <3>1, <3>2
  <2>3. \A x \in 0..3: x < seqAudio' % 4 => slots'[x] = header' + x
    BY <1>3, <1>7, <2>1
  <2>4. QED
    BY <1>5, <1>6, <1>8, <1>9, <2>2, <2>3 DEF AudioInv
<1>12. QED
  BY <1>10, <1>11

LEMMA WireInvInit == WireInit => FrameInv /\ ShardsInv /\ AudioInv
<1> SUFFICES ASSUME WireInit PROVE FrameInv /\ ShardsInv /\ AudioInv
  OBVIOUS
<1>1. FrameInv
  <2>1. frame = NoFrame /\ blockNr = 0 /\ sentVideo = 0 /\ shards = NoShards
    BY DEF WireInit
  <2>2. QED
    BY <2>1 DEF FrameInv
<1>2. ShardsInv
  BY Sequence DEF WireInit, ShardsInv, NoShards
<1>3. AudioInv
  <2>1. \A x \in 0..3: x \in 0..SeqNumbers - 1
    BY Sequence
  <2>2. /\ seqAudio = 0 /\ header = 0 /\ slots = [x \in 0..3 |-> x]
        /\ parity.base = 0 /\ parity.of = [x \in 0..3 |-> x]
    BY DEF WireInit, NoParity, DataShards
  <2>3. \A x \in 0..3: parity.of[x] = (parity.base + x) % SeqNumbers
    <3>1. \A x \in 0..3: x % SeqNumbers = x
      BY <2>1, Sequence
    <3>2. \A x \in 0..3: parity.base + x = x
      BY <2>2
    <3>3. QED
      BY <2>2, <3>1, <3>2
  <2>4. QED
    BY <2>1, <2>2, <2>3, Sequence DEF AudioInv
<1>4. QED
  BY <1>1, <1>2, <1>3

\* The block that is sent next lies inside the frame.
LEMMA NextBlock ==
  ASSUME FrameInv, frame # NoFrame, blockNr < frame.blocks
  PROVE  LET units == BlockUnits(blockNr)
         IN  /\ Split(frame) /\ FecSplit(frame) /\ frame.min \in MinParity
             /\ units \in Nat \ {0} /\ blockNr + 1 \in 0..frame.blocks
             /\ sentVideo + units = IF blockNr + 1 = frame.blocks THEN frame.size
                                    ELSE (blockNr + 1) * frame.aligned
             /\ frame.percent # 0 =>
                  units <= MaxDataShards(frame.percent) * BlockSize
<1>1. /\ Split(frame) /\ FecSplit(frame) /\ frame.min \in MinParity
      /\ blockNr \in 0..frame.blocks
      /\ sentVideo = IF blockNr = frame.blocks THEN frame.size ELSE blockNr * frame.aligned
  BY DEF FrameInv
<1>2. PICK b \in 1..4: b = frame.blocks
  BY <1>1 DEF Split, MaxBlocks
<1>3. PICK a \in Nat \ {0}: a = frame.aligned
  BY <1>1 DEF Split
<1>4. PICK size \in Nat \ {0}: size = frame.size
  BY <1>1 DEF Split
<1>5. PICK n \in 0..3: n = blockNr /\ n < b /\ n + 1 \in 0..b
  BY <1>1, <1>2
<1>6. (b - 1) * a < size
  BY <1>1, <1>2, <1>3, <1>4 DEF Split
<1>7. sentVideo = n * a /\ n * a \in Nat
  <2>1. n # b
    BY <1>5
  <2>2. n * a \in Nat
    BY Product
  <2>3. QED
    BY <1>1, <1>2, <1>3, <1>5, <2>1, <2>2
<1>8. BlockUnits(blockNr) = IF n = b - 1 THEN size - n * a ELSE a
  BY <1>2, <1>3, <1>4, <1>5 DEF BlockUnits
<1>9. BlockUnits(blockNr) \in Nat \ {0}
  <2>1. CASE n = b - 1
    <3>1. n * a < size
      BY <1>6, <2>1
    <3>2. QED
      BY <1>7, <1>8, <2>1, <3>1
  <2>2. CASE n # b - 1
    BY <1>8, <2>2
  <2>3. QED
    BY <2>1, <2>2
<1>10. sentVideo + BlockUnits(blockNr) = IF n + 1 = b THEN size ELSE (n + 1) * a
  <2>1. CASE n = b - 1
    <3>1. n + 1 = b
      BY <2>1
    <3>2. n * a + (size - n * a) = size
      BY <1>7
    <3>3. QED
      BY <1>7, <1>8, <2>1, <3>1, <3>2
  <2>2. CASE n # b - 1
    <3>1. n + 1 # b
      BY <2>2
    <3>2. n * a + a = (n + 1) * a
      BY SMTT(30)
    <3>3. QED
      BY <1>7, <1>8, <2>2, <3>1, <3>2
  <2>3. QED
    BY <2>1, <2>2
<1>11. frame.percent # 0 =>
         BlockUnits(blockNr) <= MaxDataShards(frame.percent) * BlockSize
  <2> SUFFICES ASSUME frame.percent # 0
               PROVE  BlockUnits(blockNr) <= MaxDataShards(frame.percent) * BlockSize
    OBVIOUS
  <2>1. /\ a <= MaxDataShards(frame.percent) * BlockSize
        /\ size - (b - 1) * a <= MaxDataShards(frame.percent) * BlockSize
    BY <1>1, <1>2, <1>3, <1>4 DEF FecSplit
  <2>2. CASE n = b - 1
    BY <1>8, <2>1, <2>2
  <2>3. CASE n # b - 1
    BY <1>8, <2>1, <2>3
  <2>4. QED
    BY <2>2, <2>3
<1>12. /\ sentVideo + BlockUnits(blockNr) =
            IF blockNr + 1 = frame.blocks THEN frame.size
                                          ELSE (blockNr + 1) * frame.aligned
       /\ blockNr + 1 \in 0..frame.blocks
  BY <1>2, <1>3, <1>4, <1>5, <1>10
<1>13. QED
  BY <1>1, <1>9, <1>11, <1>12

\* What fec::encode makes of a block is counted in naturals.
LEMMA EncodedTypes ==
  ASSUME NEW units \in Nat \ {0}, frame.percent \in 0..255, frame.min \in Nat
  PROVE  LET s == FecEncode(units)
         IN  s.data \in Nat /\ s.all \in Nat /\ s.percent \in Nat
<1> DEFINE data   == Ceil(units, BlockSize)
           wanted == ParityShards(data, frame.percent)
           made   == IF Raised(data) THEN frame.min ELSE wanted
           s      == FecEncode(units)
<1>1. /\ s.data = data /\ s.all = data + made
      /\ s.percent = IF Raised(data) THEN (100 * made) \div data ELSE frame.percent
  BY DEF FecEncode
<1>2. data \in Nat \ {0}
  <2>1. BlockSize \in Nat \ {0}
    BY WireAssumption
  <2>2. data \in Nat /\ data >= 1
    BY <2>1, CeilBounds, CeilPositive
  <2>3. QED
    BY <2>2
<1> HIDE DEF data
<1>3. wanted \in Nat
  <2>1. PICK x \in Nat: x = data * frame.percent
    BY <1>2, Product
  <2>2. (x + 99) \div 100 \in Nat
    OBVIOUS
  <2>3. QED
    BY <2>1, <2>2 DEF ParityShards
<1> HIDE DEF wanted
<1>4. made \in Nat
  BY <1>3
<1> HIDE DEF made
<1>5. (100 * made) \div data \in Nat
  <2>1. 100 * made \in Nat
    BY <1>4
  <2>2. QED
    BY <1>2, <2>1, Quotient
<1> HIDE DEF s
<1>6. s.data \in Nat /\ s.all \in Nat /\ s.percent \in Nat
  BY <1>1, <1>2, <1>4, <1>5
<1>7. QED
  BY <1>6 DEF s

\* The invariant of both broadcast threads.
WireInv == FrameInv /\ ShardsInv /\ AudioInv

LEMMA WireInvNext ==
  ASSUME WireInv, [WireNext]_wireVars
  PROVE  WireInv'
<1> USE DEF WireInv, wireVideoVars, wireAudioVars
<1>0. FrameInv /\ ShardsInv /\ AudioInv
  OBVIOUS
<1>1. CASE TakeFrame
  <2>1. PICK size \in FrameSize, percent \in FecPercent, min \in MinParity:
          frame' = Blocked(size, percent, min)
    BY <1>1 DEF TakeFrame
  <2>2. size \in Nat \ {0} /\ percent \in 1..255 /\ min \in Nat
    BY <2>1, WireAssumption
  <2>3. Split(frame)' /\ FecSplit(frame)'
    <3>1. Split(Blocked(size, percent, min)) /\ FecSplit(Blocked(size, percent, min))
      BY <2>2, BlockedSplit, BlockedFec
    <3>2. QED
      BY <2>1, <3>1, Zenon DEF Split, FecSplit
  <2>4. frame'.min \in MinParity
    BY <2>1 DEF Blocked
  <2>5. frame' # NoFrame
    BY <2>3 DEF Split, NoFrame
  <2>6. blockNr' = 0 /\ sentVideo' = 0 /\ UNCHANGED <<lowseq, shards, wireAudioVars>>
    BY <1>1 DEF TakeFrame
  <2>7. blockNr' \in 0..frame'.blocks
    BY <2>3, <2>6 DEF Split, MaxBlocks
  <2>8. blockNr' # frame'.blocks /\ sentVideo' = blockNr' * frame'.aligned
    BY <2>3, <2>6 DEF Split, MaxBlocks
  <2>9. FrameInv'
    BY <2>3, <2>4, <2>5, <2>7, <2>8 DEF FrameInv
  <2>10. ShardsInv' /\ AudioInv'
    BY <1>0, <2>6 DEF ShardsInv, AudioInv
  <2>11. QED
    BY <2>9, <2>10
<1>2. CASE SendBlock
  <2>1. /\ frame # NoFrame /\ blockNr < frame.blocks
        /\ shards' = FecEncode(BlockUnits(blockNr))
        /\ sentVideo' = sentVideo + BlockUnits(blockNr)
        /\ lowseq' = (lowseq + shards'.all) % SeqNumbers
        /\ blockNr' = blockNr + 1
        /\ UNCHANGED <<frame, wireAudioVars>>
    BY <1>2 DEF SendBlock
  <2>2. /\ Split(frame) /\ FecSplit(frame) /\ frame.min \in MinParity
        /\ BlockUnits(blockNr) \in Nat \ {0} /\ blockNr + 1 \in 0..frame.blocks
        /\ sentVideo + BlockUnits(blockNr) =
             IF blockNr + 1 = frame.blocks THEN frame.size
                                           ELSE (blockNr + 1) * frame.aligned
    BY <1>0, <2>1, NextBlock
  <2>3. FrameInv'
    BY <2>1, <2>2 DEF FrameInv
  <2>4. shards'.data \in Nat /\ shards'.all \in Nat /\ shards'.percent \in Nat
    <3>1. frame.percent \in 0..255 /\ frame.min \in Nat
      BY <2>2, WireAssumption DEF FecSplit
    <3>2. QED
      BY <2>1, <2>2, <3>1, EncodedTypes
  <2>5. lowseq' \in 0..SeqNumbers - 1
    <3>1. PICK n \in Nat: n = lowseq + shards'.all
      BY <1>0, <2>4, Sequence DEF ShardsInv
    <3>2. QED
      BY <2>1, <3>1, Sequence
  <2>6. ShardsInv' /\ AudioInv'
    BY <1>0, <2>1, <2>4, <2>5 DEF ShardsInv, AudioInv
  <2>7. QED
    BY <2>3, <2>6
<1>3. CASE FrameSent
  <2>1. frame' = NoFrame /\ blockNr' = 0 /\ sentVideo' = 0 /\ shards' = NoShards
    BY <1>3 DEF FrameSent
  <2>2. FrameInv'
    BY <2>1 DEF FrameInv
  <2>3. ShardsInv' /\ AudioInv'
    BY <1>0, <1>3 DEF FrameSent, ShardsInv, AudioInv, NoShards
  <2>4. QED
    BY <2>2, <2>3
<1>4. CASE SendAudio
  <2>1. AudioInv'
    BY <1>0, <1>4, AudioInvNext
  <2>2. UNCHANGED <<lowseq, frame, blockNr, sentVideo, shards>>
    BY <1>4 DEF SendAudio
  <2>3. FrameInv' /\ ShardsInv'
    BY <1>0, <2>2 DEF FrameInv, ShardsInv, Split, FecSplit
  <2>4. QED
    BY <2>1, <2>3
<1>5. CASE UNCHANGED wireVars
  BY <1>0, <1>5 DEF wireVars, FrameInv, ShardsInv, AudioInv, Split, FecSplit
<1>6. QED
  BY <1>1, <1>2, <1>3, <1>4, <1>5 DEF WireNext

LEMMA WireInvHolds == WireSpec => []WireInv
<1>1. WireInit => WireInv
  BY WireInvInit DEF WireInv
<1>2. WireInv /\ [WireNext]_wireVars => WireInv'
  BY WireInvNext
<1>3. QED
  BY <1>1, <1>2, PTL DEF WireSpec

\* The blocks of the frame are the frame.
LEMMA WholeFrame == WireInv => FrameInBlocks
<1> SUFFICES ASSUME FrameInv, frame # NoFrame PROVE
      /\ \A n \in 0..frame.blocks - 1: StartsInside(n)
      /\ blockNr = frame.blocks => sentVideo = frame.size
  BY DEF WireInv, FrameInBlocks
<1>1. Split(frame) /\ (blockNr = frame.blocks => sentVideo = frame.size)
  BY DEF FrameInv
<1>2. ASSUME NEW n \in 0..frame.blocks - 1 PROVE StartsInside(n)
  <2>1. PICK b \in 1..4: b = frame.blocks
    BY <1>1 DEF Split, MaxBlocks
  <2>2. PICK a \in Nat: a = frame.aligned
    BY <1>1 DEF Split
  <2>3. PICK size \in Nat: size = frame.size /\ (b - 1) * a < size
    BY <1>1, <2>1, <2>2 DEF Split
  <2>4. n \in Nat /\ b - 1 \in Nat /\ n <= b - 1
    BY <2>1
  <2>5. n * a <= (b - 1) * a /\ n * a \in Nat /\ (b - 1) * a \in Nat
    BY <2>4, Product
  <2>6. n * a <= size
    BY <2>3, <2>5
  <2>7. QED
    BY <2>2, <2>3, <2>6 DEF StartsInside
<1>3. QED
  BY <1>1, <1>2

\* The types of what is on its way to the client; no more is sent than the frame has.
THEOREM WireTypeCorrect == WireSpec => []WireTypeOK
<1>1. WireInv => WireTypeOK
  <2> SUFFICES ASSUME FrameInv, ShardsInv, AudioInv PROVE WireTypeOK
    BY DEF WireInv
  <2>1. frame.blocks \in 0..MaxBlocks /\ blockNr \in 0..MaxBlocks /\ sentVideo \in 0..frame.size
    <3>1. CASE frame = NoFrame
      BY <3>1 DEF FrameInv, NoFrame, MaxBlocks
    <3>2. CASE frame # NoFrame
      <4>1. /\ Split(frame) /\ blockNr \in 0..frame.blocks
            /\ sentVideo = IF blockNr = frame.blocks THEN frame.size
                                                     ELSE blockNr * frame.aligned
        BY <3>2 DEF FrameInv
      <4>2. PICK b \in 1..4: b = frame.blocks
        BY <4>1 DEF Split, MaxBlocks
      <4>3. PICK a \in Nat: a = frame.aligned
        BY <4>1 DEF Split
      <4>4. PICK size \in Nat: size = frame.size /\ (b - 1) * a < size
        BY <4>1, <4>2, <4>3 DEF Split
      <4>5. CASE blockNr = b
        BY <4>1, <4>2, <4>4, <4>5 DEF MaxBlocks
      <4>6. CASE blockNr # b
        <5>1. PICK n \in Nat: n = blockNr /\ n <= b - 1
          BY <4>1, <4>2, <4>6
        <5>2. n * a <= (b - 1) * a /\ n * a \in Nat /\ (b - 1) * a \in Nat
          BY <4>2, <5>1, Product
        <5>3. sentVideo = n * a
          BY <4>1, <4>2, <4>3, <4>6, <5>1
        <5>4. n * a \in 0..size
          BY <4>4, <5>2
        <5>5. QED
          BY <4>1, <4>2, <4>4, <5>1, <5>3, <5>4 DEF MaxBlocks
      <4>7. QED
        BY <4>5, <4>6
    <3>3. QED
      BY <3>1, <3>2
  <2>2. QED
    BY <2>1 DEF WireTypeOK, ShardsInv, AudioInv, DataShards
<1>2. QED
  BY <1>1, WireInvHolds, PTL

\* Every block of a frame starts inside it and the blocks are all of it, for every
\* size of a frame, percentage and size of a block.
THEOREM FrameSplitWhole == WireSpec => []FrameInBlocks
BY WireInvHolds, WholeFrame, PTL

\* The parity of an audio block is that of the packets its header names, also where
\* the sequence numbers come round.
THEOREM AudioParity == WireSpec => []ParityOfItsBlock
<1>1. WireInv => ParityOfItsBlock
  BY DEF WireInv, AudioInv, ParityOfItsBlock, DataShards
<1>2. QED
  BY <1>1, WireInvHolds, PTL

\* A client can rebuild what it gets: what the audio and video headers say is what
\* was encoded, for every frame, percentage and minimum of the client.  Where the
\* minimum raised the parity of a block, the limits are said to be kept of one of at
\* most two shards, and the percentage to be exact of a block of at most 100.
THEOREM ClientRecovers == WireSpec => []ClientCanRecover
<1>1. WireInit => ParityOfPercentage
  BY DEF WireInit, ParityOfPercentage, NoShards
<1>2. WireInv /\ ParityOfPercentage /\ [WireNext]_wireVars => ParityOfPercentage'
  <2> SUFFICES ASSUME FrameInv, ParityOfPercentage, [WireNext]_wireVars
               PROVE  ParityOfPercentage'
    BY DEF WireInv
  <2>1. CASE SendBlock
    <3>1. /\ frame # NoFrame /\ blockNr < frame.blocks /\ frame' = frame
          /\ shards' = FecEncode(BlockUnits(blockNr))
      BY <2>1 DEF SendBlock
    <3>2. /\ FecSplit(frame) /\ frame.min \in MinParity
          /\ BlockUnits(blockNr) \in Nat \ {0}
          /\ frame.percent # 0 =>
               BlockUnits(blockNr) <= MaxDataShards(frame.percent) * BlockSize
      BY <3>1, NextBlock
    <3>3. CASE frame.percent = 0
      <4>1. shards'.percent = 0
        BY <3>1, <3>3 DEF FecEncode, Raised
      <4>2. QED
        BY <4>1 DEF ParityOfPercentage
    <3>4. CASE frame.percent # 0
      <4>1. frame.percent \in 0..255 /\ frame.min \in Nat
        BY <3>2, WireAssumption DEF FecSplit
      <4>2. frame.percent \in 1..255 /\ frame.min \in Nat
        BY <3>4, <4>1
      <4>3. LET s == FecEncode(BlockUnits(blockNr))
            IN  /\ frame.min <= 2 \/ ~Raised(s.data) => s.all <= MaxShards /\ s.percent < 256
                /\ s.data <= 100 \/ ~Raised(s.data) =>
                     ParityShards(s.data, s.percent) = s.all - s.data
        BY <3>2, <3>4, <4>2, EncodedParity
      <4>4. \A n : Raised(n)' <=> Raised(n)
        BY <3>1 DEF Raised
      <4>5. QED
        BY <3>1, <4>3, <4>4, Zenon DEF ParityOfPercentage
    <3>5. QED
      BY <3>3, <3>4
  <2>2. CASE FrameSent
    BY <2>2 DEF FrameSent, ParityOfPercentage, NoShards
  <2>3. CASE TakeFrame
    <3>1. shards'.percent = 0
      BY <2>3 DEF TakeFrame, FrameInv, NoShards
    <3>2. QED
      BY <3>1 DEF ParityOfPercentage
  <2>4. CASE SendAudio \/ UNCHANGED wireVars
    <3>1. shards' = shards /\ frame' = frame
      BY <2>4 DEF SendAudio, wireVars, wireVideoVars
    <3>2. QED
      BY <3>1 DEF ParityOfPercentage, Raised
  <2>5. QED
    BY <2>1, <2>2, <2>3, <2>4 DEF WireNext
<1>3. WireInv => FrameInBlocks /\ ParityOfItsBlock
  BY WholeFrame DEF WireInv, AudioInv, ParityOfItsBlock, DataShards
<1>4. QED
  BY <1>1, <1>2, <1>3, WireInvHolds, PTL DEF WireSpec, ClientCanRecover
===============================================================================

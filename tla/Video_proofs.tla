----------------------------- MODULE Video_proofs -----------------------------
(*****************************************************************************)
(* Proofs about Capture, for any encoding threads and any number of          *)
(* displays, about RefFrames, for any number of frames and references,       *)
(* about Displays, for any displays, and about Snapshot, for any images and  *)
(* textures.                                                                 *)
(*****************************************************************************)
EXTENDS Capture, RefFrames, Displays, Snapshot, FiniteSetTheorems, SequenceTheorems,
        WellFoundedInduction, TLAPS

----------------------------------------------------------------------------
(* The capture thread.                                                     *)

Labels == {"new", "raise", "check", "loop", "lock", "make", "run", "release", "join",
           "guard", "done"}
EncImage == [running : BOOLEAN, image : BOOLEAN]

\* The variables that the argument is about keep their types.
Types ==
  /\ capQueue \in Seq(Encoder) /\ capRunning \in BOOLEAN /\ capCtxs \subseteq Encoder
  /\ capRefs \subseteq Encoder /\ capLock \in Encoder \cup {NoEncoder}
  /\ encPc \in [Encoder -> Labels] /\ encImages \in [Encoder -> EncImage]

Queued(e) == \E i \in 1 .. Len(capQueue) : capQueue[i] = e

\* The lock of shared_t is held while the last reference joins.
LockInv ==
  /\ \A e \in Encoder : encPc[e] = "join" => capLock = e
  /\ capLock # NoEncoder => capRefs = {}
  /\ capRefs = {} /\ capLock = NoEncoder => capPc = "none"

\* Before its first context and after its guard the capture thread knows none.
EndInv ==
  /\ capPc \in {"none", "pop", "gone"} => capCtxs = {}
  /\ capPc = "gone" => capRunning = FALSE
  /\ capPc = "gone" => \A e \in Encoder : Queued(e) => encImages[e].running = FALSE

\* An encoding thread that is past raise() is known to the capture thread, waits to
\* be, was told that it ended, or is about to see that the queue is stopped.
KnownInv ==
  \A e \in capRefs :
    \/ encPc[e] \in {"raise", "release"} \/ encImages[e].running = FALSE
    \/ Queued(e) \/ e \in capCtxs
    \/ encPc[e] = "check" /\ capRunning = FALSE

CapInv == Types /\ LockInv /\ EndInv /\ KnownInv

LEMMA InitCap == CapInit => CapInv
<1> SUFFICES ASSUME CapInit
             PROVE  CapInv
  OBVIOUS
<1>1. Types
  <2>1. capQueue \in Seq(Encoder) /\ capRunning \in BOOLEAN /\ capCtxs \subseteq Encoder
    <3>1. capQueue = <<>> /\ capRunning = FALSE /\ capCtxs = {}
      BY DEF CapInit
    <3>2. <<>> \in Seq(Encoder)
      OBVIOUS
    <3>3. QED
      BY <3>1, <3>2
  <2>2. capRefs \subseteq Encoder /\ capLock \in Encoder \cup {NoEncoder}
    BY DEF CapInit
  <2>3. encPc \in [Encoder -> Labels] /\ encImages \in [Encoder -> EncImage]
    BY DEF CapInit, Labels, EncImage, Fresh
  <2>4. QED
    BY <2>1, <2>2, <2>3 DEF Types
<1>2. LockInv /\ KnownInv
  BY DEF CapInit, LockInv, KnownInv
<1>3. EndInv
  BY DEF CapInit, EndInv
<1>4. QED
  BY <1>1, <1>2, <1>3 DEF CapInv

\* A thread goes on and leaves the capture thread's context, its references and the
\* queue alone; no image event starts again.
LEMMA Onward ==
  ASSUME CapInv, NEW e \in Encoder, NEW l \in Labels \ {"check", "join"},
         encPc' = [encPc EXCEPT ![e] = l],
         encPc[e] = "raise" => FALSE,
         encPc[e] = "release" => FALSE,
         encPc[e] = "check" => l = "release" \/ capRunning = TRUE,
         encImages' \in [Encoder -> EncImage],
         \A d \in Encoder : encImages[d].running = FALSE => encImages'[d].running = FALSE,
         UNCHANGED <<captureVars, capRefVars>>
  PROVE  CapInv'
<1>1. /\ encPc' \in [Encoder -> Labels] /\ encPc'[e] = l
      /\ \A d \in Encoder \ {e} : encPc'[d] = encPc[d]
      /\ UNCHANGED <<capPc, capQueue, capRunning, capCtxs, capRefs, capLock>>
  BY DEF CapInv, Types, captureVars, capRefVars
<1>2. Types'
  BY <1>1 DEF CapInv, Types
<1>3. LockInv'
  BY <1>1 DEF CapInv, LockInv
<1>4. \A d : Queued(d)' <=> Queued(d)
  BY <1>1 DEF Queued
<1>5. EndInv'
  <2>1. capPc' \in {"none", "pop", "gone"} => capCtxs' = {}
    BY <1>1 DEF CapInv, EndInv
  <2>2. capPc' = "gone" => capRunning' = FALSE
    BY <1>1 DEF CapInv, EndInv
  <2>3. ASSUME capPc' = "gone", NEW d \in Encoder, Queued(d)'
        PROVE  encImages'[d].running = FALSE
    <3>1. capPc = "gone" /\ Queued(d)
      BY <1>1, <1>4, <2>3
    <3>2. encImages[d].running = FALSE
      BY <3>1 DEF CapInv, EndInv
    <3>3. QED
      BY <3>2
  <2>4. QED
    BY <2>1, <2>2, <2>3 DEF EndInv
<1>6. KnownInv'
  <2> SUFFICES ASSUME NEW d \in Encoder, d \in capRefs
               PROVE  \/ encPc'[d] \in {"raise", "release"} \/ encImages'[d].running = FALSE
                      \/ Queued(d) \/ d \in capCtxs \/ (encPc'[d] = "check" /\ capRunning = FALSE)
    BY <1>1, <1>4 DEF CapInv, Types, KnownInv
  <2>1. \/ encPc[d] \in {"raise", "release"} \/ encImages[d].running = FALSE
        \/ Queued(d) \/ d \in capCtxs \/ (encPc[d] = "check" /\ capRunning = FALSE)
    BY DEF CapInv, KnownInv
  <2>2. QED
    BY <1>1, <2>1
<1>7. QED
  BY <1>2, <1>3, <1>5, <1>6 DEF CapInv

\* Only image events and what the argument is not about change.
LEMMA QuietStep ==
  ASSUME CapInv, UNCHANGED <<capPc, capQueue, capRunning, capCtxs, capRefs, capLock, encPc>>,
         encImages' \in [Encoder -> EncImage],
         \A d \in Encoder : encImages[d].running = FALSE => encImages'[d].running = FALSE
  PROVE  CapInv'
<1>1. \A d : Queued(d)' <=> Queued(d)
  BY DEF Queued
<1>2. Types' /\ LockInv'
  BY DEF CapInv, Types, LockInv
<1>3. EndInv'
  <2>1. capPc' \in {"none", "pop", "gone"} => capCtxs' = {}
    BY DEF CapInv, EndInv
  <2>2. capPc' = "gone" => capRunning' = FALSE
    BY DEF CapInv, EndInv
  <2>3. ASSUME capPc' = "gone", NEW d \in Encoder, Queued(d)'
        PROVE  encImages'[d].running = FALSE
    <3>1. capPc = "gone" /\ Queued(d)
      BY <1>1, <2>3
    <3>2. encImages[d].running = FALSE
      BY <3>1 DEF CapInv, EndInv
    <3>3. QED
      BY <3>2
  <2>4. QED
    BY <2>1, <2>2, <2>3 DEF EndInv
<1>4. KnownInv'
  <2> SUFFICES ASSUME NEW d \in Encoder, d \in capRefs
               PROVE  \/ encPc[d] \in {"raise", "release"} \/ encImages'[d].running = FALSE
                      \/ Queued(d) \/ d \in capCtxs \/ (encPc[d] = "check" /\ capRunning = FALSE)
    BY <1>1 DEF CapInv, Types, KnownInv
  <2>1. QED
    BY DEF CapInv, KnownInv
<1>5. QED
  BY <1>2, <1>3, <1>4 DEF CapInv

LEMMA TakeRefStep ==
  ASSUME CapInv, NEW e \in Encoder, TakeRef(e)
  PROVE  CapInv'
<1>1. /\ capLock = NoEncoder /\ capRefs' = capRefs \cup {e} /\ encPc[e] = "new"
      /\ encPc' = [encPc EXCEPT ![e] = "raise"]
      /\ UNCHANGED <<capCtxs, capLock, encImages>>
  BY DEF TakeRef, Go
<1>2. /\ encPc' \in [Encoder -> Labels] /\ encPc'[e] = "raise"
      /\ \A d \in Encoder \ {e} : encPc'[d] = encPc[d]
  BY <1>1 DEF CapInv, Types, Labels
<1>3. LockInv'
  BY <1>1, <1>2 DEF CapInv, LockInv
<1>4. CASE capRefs = {}
  <2>1. capQueue' = <<>> /\ capRunning' = TRUE /\ capPc' = "pop"
    BY <1>4 DEF TakeRef
  <2>2. Types'
    BY <1>1, <1>2, <2>1 DEF CapInv, Types
  <2>3. EndInv'
    BY <1>1, <1>4, <2>1 DEF CapInv, LockInv, EndInv
  <2>4. KnownInv'
    BY <1>1, <1>2, <1>4 DEF KnownInv
  <2>5. QED
    BY <1>3, <2>2, <2>3, <2>4 DEF CapInv
<1>5. CASE capRefs # {}
  <2>1. UNCHANGED <<capQueue, capRunning, capPc>>
    BY <1>5 DEF TakeRef
  <2>2. Types'
    BY <1>1, <1>2, <2>1 DEF CapInv, Types
  <2>3. \A d : Queued(d)' <=> Queued(d)
    BY <2>1 DEF Queued
  <2>4. EndInv'
    BY <1>1, <2>1, <2>3 DEF CapInv, EndInv
  <2>5. KnownInv'
    BY <1>1, <1>2, <2>1, <2>3 DEF CapInv, KnownInv
  <2>6. QED
    BY <1>3, <2>2, <2>4, <2>5 DEF CapInv
<1>6. QED
  BY <1>4, <1>5

LEMMA RaiseStep ==
  ASSUME CapInv, NEW e \in Encoder, RaiseContext(e)
  PROVE  CapInv'
<1>1. /\ encPc[e] = "raise" /\ encPc' = [encPc EXCEPT ![e] = "check"]
      /\ capQueue' = IF capRunning THEN Append(capQueue, e) ELSE capQueue
      /\ UNCHANGED <<capPc, capRunning, capCtxs, capRefs, capLock, encImages>>
  BY DEF RaiseContext, Go, capRefVars
<1>2. /\ encPc' \in [Encoder -> Labels] /\ encPc'[e] = "check"
      /\ \A d \in Encoder \ {e} : encPc'[d] = encPc[d]
  BY <1>1 DEF CapInv, Types, Labels
<1>3. LockInv'
  BY <1>1, <1>2 DEF CapInv, LockInv
<1>4. CASE capRunning = TRUE
  <2>1. /\ capQueue' \in Seq(Encoder) /\ capQueue \in Seq(Encoder) /\ Len(capQueue) \in Nat
        /\ Len(capQueue') = Len(capQueue) + 1 /\ capQueue'[Len(capQueue) + 1] = e
        /\ \A i \in 1 .. Len(capQueue) : capQueue'[i] = capQueue[i]
    BY <1>1, <1>4, AppendProperties, LenProperties DEF CapInv, Types
  <2>2. Queued(e)' /\ \A d \in Encoder : Queued(d) => Queued(d)'
    BY <2>1 DEF Queued
  <2>3. Types'
    BY <1>1, <1>2, <2>1 DEF CapInv, Types
  <2>4. EndInv'
    BY <1>1, <1>4 DEF CapInv, EndInv
  <2>5. KnownInv'
    BY <1>1, <1>2, <2>2 DEF CapInv, Types, KnownInv
  <2>6. QED
    BY <1>3, <2>3, <2>4, <2>5 DEF CapInv
<1>5. CASE capRunning = FALSE
  <2>1. capQueue' = capQueue
    BY <1>1, <1>5
  <2>2. \A d : Queued(d)' <=> Queued(d)
    BY <2>1 DEF Queued
  <2>3. Types'
    BY <1>1, <1>2, <2>1 DEF CapInv, Types
  <2>4. EndInv'
    BY <1>1, <2>2 DEF CapInv, EndInv
  <2>5. KnownInv'
    BY <1>1, <1>2, <1>5, <2>2 DEF CapInv, KnownInv
  <2>6. QED
    BY <1>3, <2>3, <2>4, <2>5 DEF CapInv
<1>6. QED
  BY <1>4, <1>5 DEF CapInv, Types

LEMMA ReleaseStep ==
  ASSUME CapInv, NEW e \in Encoder, ReleaseRef(e)
  PROVE  CapInv'
<1>1. /\ encPc[e] = "release" /\ capLock = NoEncoder /\ capRefs' = capRefs \ {e}
      /\ UNCHANGED <<capPc, capQueue, capCtxs, encImages>>
  BY DEF ReleaseRef
<1>2. \A d : Queued(d)' <=> Queued(d)
  BY <1>1 DEF Queued
<1>3. CASE capRefs = {e}
  <2>1. capRunning' = FALSE /\ capLock' = e /\ encPc' = [encPc EXCEPT ![e] = "join"]
    BY <1>3 DEF ReleaseRef, Go
  <2>2. /\ encPc' \in [Encoder -> Labels] /\ encPc'[e] = "join"
        /\ \A d \in Encoder \ {e} : encPc'[d] = encPc[d]
    BY <2>1 DEF CapInv, Types, Labels
  <2>3. Types'
    BY <1>1, <2>1, <2>2 DEF CapInv, Types
  <2>4. e # NoEncoder /\ capRefs' = {}
    BY <1>1, <1>3, CaptureAssumption DEF NoEncoder
  <2>5. LockInv'
    BY <1>1, <2>1, <2>2, <2>4, CaptureAssumption DEF CapInv, LockInv, NoEncoder
  <2>6. EndInv' /\ KnownInv'
    BY <1>1, <1>2, <2>1, <2>4 DEF CapInv, EndInv, KnownInv
  <2>7. QED
    BY <2>3, <2>5, <2>6 DEF CapInv
<1>4. CASE capRefs # {e}
  <2>1. encPc' = [encPc EXCEPT ![e] = "guard"] /\ UNCHANGED <<capRunning, capLock>>
    BY <1>4 DEF ReleaseRef, Go
  <2>2. /\ encPc' \in [Encoder -> Labels] /\ encPc'[e] = "guard"
        /\ \A d \in Encoder \ {e} : encPc'[d] = encPc[d]
    BY <2>1 DEF CapInv, Types, Labels
  <2>3. Types'
    BY <1>1, <2>1, <2>2 DEF CapInv, Types
  <2>4. capRefs' = {} => capRefs = {}
    BY <1>1, <1>4
  <2>5. LockInv'
    BY <1>1, <2>1, <2>2, <2>4 DEF CapInv, LockInv
  <2>6. EndInv' /\ KnownInv'
    BY <1>1, <1>2, <2>1, <2>2 DEF CapInv, EndInv, KnownInv
  <2>7. QED
    BY <2>3, <2>5, <2>6 DEF CapInv
<1>5. QED
  BY <1>3, <1>4

LEMMA JoinStep ==
  ASSUME CapInv, NEW e \in Encoder, JoinCapture(e)
  PROVE  CapInv'
<1>1. /\ encPc[e] = "join" /\ capPc = "gone" /\ capPc' = "none" /\ capQueue' = <<>>
      /\ capLock' = NoEncoder /\ encPc' = [encPc EXCEPT ![e] = "guard"]
      /\ UNCHANGED <<capRunning, capCtxs, capRefs, encImages>>
  BY DEF JoinCapture, Go
<1>2. capLock = e /\ capRefs = {} /\ capCtxs = {}
  BY <1>1, CaptureAssumption DEF CapInv, LockInv, EndInv, NoEncoder
<1>3. /\ encPc' \in [Encoder -> Labels] /\ encPc'[e] = "guard"
      /\ \A d \in Encoder \ {e} : encPc'[d] = encPc[d] /\ encPc[d] # "join"
  BY <1>1, <1>2 DEF CapInv, Types, LockInv, Labels
<1>4. Types'
  BY <1>1, <1>3 DEF CapInv, Types
<1>5. LockInv'
  BY <1>1, <1>2, <1>3 DEF LockInv
<1>6. EndInv' /\ KnownInv'
  BY <1>1, <1>2 DEF EndInv, KnownInv
<1>7. QED
  BY <1>4, <1>5, <1>6 DEF CapInv

\* The remaining steps of an encoding thread.
LEMMA ThreadStep ==
  ASSUME CapInv, NEW e \in Encoder,
         CheckQueue(e) \/ WaitDisplay(e) \/ LockDisplay(e) \/ MakeEncoder(e)
         \/ RunLeaves(e) \/ RunEncodes(e) \/ StopImages(e)
  PROVE  CapInv'
<1>0. encImages \in [Encoder -> EncImage]
  BY DEF CapInv, Types
<1>1. CASE CheckQueue(e)
  <2>1. PICK l \in Labels \ {"check", "join"} :
          /\ encPc' = [encPc EXCEPT ![e] = l]
          /\ l = "release" \/ capRunning = TRUE
    BY <1>1 DEF CheckQueue, Go, Labels, CapInv, Types
  <2>2. UNCHANGED <<captureVars, capRefVars, encImages>> /\ encPc[e] = "check"
    BY <1>1 DEF CheckQueue
  <2>3. QED
    BY <1>0, <2>1, <2>2, Onward
<1>2. CASE WaitDisplay(e) \/ LockDisplay(e) \/ MakeEncoder(e) \/ RunLeaves(e)
  <2>1. PICK l \in Labels \ {"check", "join"} : encPc' = [encPc EXCEPT ![e] = l]
    BY <1>2 DEF WaitDisplay, LockDisplay, MakeEncoder, RunLeaves, LeaveRun, Go, Labels
  <2>2. /\ UNCHANGED <<captureVars, capRefVars, encImages>>
        /\ encPc[e] \in {"loop", "lock", "make", "run"}
    BY <1>2 DEF WaitDisplay, LockDisplay, MakeEncoder, RunLeaves
  <2>3. QED
    BY <1>0, <2>1, <2>2, Onward
<1>3. CASE RunEncodes(e)
  <2>1. /\ encImages' = [encImages EXCEPT ![e].image = FALSE] /\ encPc[e] = "run"
        /\ UNCHANGED <<captureVars, capRefVars>>
    BY <1>3 DEF RunEncodes
  <2>2. /\ encImages' \in [Encoder -> EncImage]
        /\ \A d \in Encoder : encImages[d].running = FALSE => encImages'[d].running = FALSE
    BY <1>0, <2>1 DEF EncImage
  <2>3. CASE encPc' = encPc
    BY <2>1, <2>2, <2>3, QuietStep DEF captureVars, capRefVars
  <2>4. CASE LeaveRun(e)
    <3>1. PICK l \in Labels \ {"check", "join"} : encPc' = [encPc EXCEPT ![e] = l]
      BY <2>4 DEF LeaveRun, Go, Labels
    <3>2. QED
      BY <2>1, <2>2, <3>1, Onward
  <2>5. QED
    BY <1>3, <2>3, <2>4 DEF RunEncodes
<1>4. CASE StopImages(e)
  <2>1. /\ encImages' = [encImages EXCEPT ![e].running = FALSE] /\ encPc[e] = "guard"
        /\ UNCHANGED <<captureVars, capRefVars>>
    BY <1>0, <1>4 DEF StopImages, Stopped
  <2>2. /\ encImages' \in [Encoder -> EncImage]
        /\ \A d \in Encoder : encImages[d].running = FALSE => encImages'[d].running = FALSE
    BY <1>0, <2>1 DEF EncImage
  <2>3. PICK l \in Labels \ {"check", "join"} : encPc' = [encPc EXCEPT ![e] = l]
    BY <1>4 DEF StopImages, Go, Labels
  <2>4. QED
    BY <2>1, <2>2, <2>3, Onward
<1>5. QED
  BY <1>1, <1>2, <1>3, <1>4

\* The guard of captureThread: whoever it knew or was queued is told.
LEMMA EndStep ==
  ASSUME CapInv, capPc # "none", CaptureEnds(capCtxs),
         UNCHANGED <<capQueue, capRefs, capLock, encPc>>
  PROVE  CapInv'
<1>1. capRunning' = FALSE /\ capCtxs' = {} /\ capPc' = "gone"
  BY DEF CaptureEnds
<1>2. \A d : Contains(capQueue, d) <=> Queued(d)
  BY DEF Contains, Queued
<1>3. encImages' = [d \in Encoder |-> IF d \in capCtxs \/ Queued(d)
                                       THEN Stopped(encImages[d]) ELSE encImages[d]]
  BY <1>2 DEF CaptureEnds
<1>4. \A d \in Encoder : /\ Stopped(encImages[d]) \in EncImage
                         /\ Stopped(encImages[d]).running = FALSE
  BY DEF Stopped, EncImage, CapInv, Types
<1>5. /\ encImages' \in [Encoder -> EncImage]
      /\ \A d \in Encoder : encImages[d].running = FALSE => encImages'[d].running = FALSE
      /\ \A d \in Encoder : d \in capCtxs \/ Queued(d) => encImages'[d].running = FALSE
  BY <1>3, <1>4 DEF CapInv, Types
<1>6. \A d : Queued(d)' <=> Queued(d)
  BY DEF Queued
<1>7. Types'
  BY <1>1, <1>5 DEF CapInv, Types
<1>8. LockInv'
  BY DEF CapInv, LockInv
<1>9. EndInv'
  BY <1>1, <1>5, <1>6 DEF EndInv
<1>10. KnownInv'
  BY <1>1, <1>5, <1>6 DEF CapInv, Types, KnownInv
<1>11. QED
  BY <1>7, <1>8, <1>9, <1>10 DEF CapInv

\* The capture thread goes on: it forgets nobody whose image event runs.
LEMMA GoesOn ==
  ASSUME CapInv, capPc # "none", capPc' \in {"create", "capture", "drain", "reenum"},
         UNCHANGED <<capRunning, capRefs, capLock, encPc>>,
         capQueue' \in Seq(Encoder), capCtxs' \subseteq Encoder,
         encImages' \in [Encoder -> EncImage],
         \A d \in Encoder : encImages'[d].running = encImages[d].running,
         \A d \in Encoder : (d \in capCtxs \/ Queued(d)) /\ encImages[d].running = TRUE
                              => d \in capCtxs' \/ Queued(d)'
  PROVE  CapInv'
<1>1. Types'
  BY DEF CapInv, Types
<1>2. LockInv'
  BY DEF CapInv, LockInv
<1>3. EndInv'
  BY DEF EndInv
<1>4. \A d \in Encoder : encImages[d].running \in BOOLEAN
  BY DEF CapInv, Types, EncImage
<1>5. KnownInv'
  BY <1>4 DEF CapInv, Types, KnownInv
<1>6. QED
  BY <1>1, <1>2, <1>3, <1>5 DEF CapInv

LEMMA PopStep ==
  ASSUME CapInv, PopInitial
  PROVE  CapInv'
<1>1. capPc = "pop" /\ capCtxs = {} /\ UNCHANGED <<capRefs, capLock, encPc>>
  BY DEF PopInitial, CapInv, EndInv, capRefVars
<1>2. CASE CaptureEnds({}) /\ UNCHANGED capQueue
  BY <1>1, <1>2, EndStep
<1>3. CASE /\ capQueue # <<>> /\ capCtxs' = {Head(capQueue)}
           /\ capQueue' = Tail(capQueue) /\ capPc' = "create"
           /\ UNCHANGED <<capRunning, encImages>>
  <2>1. capQueue \in Seq(Encoder) /\ capQueue # <<>> /\ Len(capQueue) \in Nat \ {0}
    BY <1>3, EmptySeq, LenProperties DEF CapInv, Types
  <2>2. /\ Head(capQueue) = capQueue[1] /\ Tail(capQueue) \in Seq(Encoder)
        /\ Len(Tail(capQueue)) = Len(capQueue) - 1
        /\ \A i \in 1 .. Len(Tail(capQueue)) : Tail(capQueue)[i] = capQueue[i + 1]
    BY <2>1, HeadTailProperties
  <2>3. capQueue[1] \in Encoder
    BY <2>1, ElementOfSeq
  <2>4. ASSUME NEW d \in Encoder, Queued(d)
        PROVE  d \in capCtxs' \/ Queued(d)'
    <3>1. PICK i \in 1 .. Len(capQueue) : capQueue[i] = d
      BY <2>4 DEF Queued
    <3>2. CASE i = 1
      BY <1>3, <2>2, <3>1, <3>2
    <3>3. CASE i # 1
      <4>1. i - 1 \in 1 .. Len(Tail(capQueue)) /\ Tail(capQueue)[i - 1] = d
        BY <2>1, <2>2, <3>1, <3>3
      <4>2. QED
        BY <1>3, <4>1 DEF Queued
    <3>4. QED
      BY <3>2, <3>3
  <2>5. encImages' \in [Encoder -> EncImage]
    BY <1>3 DEF CapInv, Types
  <2>6. QED
    BY <1>1, <1>3, <2>2, <2>3, <2>4, <2>5, GoesOn
<1>4. QED
  BY <1>2, <1>3 DEF PopInitial

\* The steps that end the capture thread, or leave its contexts as they are.
LEMMA DisplayStep ==
  ASSUME CapInv, CreateDisplay \/ CaptureStops \/ Reinitialise \/ Reenumerate
  PROVE  CapInv'
<1>1. capPc # "none" /\ UNCHANGED <<capQueue, capRefs, capLock, encPc>>
  BY DEF CreateDisplay, CaptureStops, Reinitialise, Reenumerate, capRefVars, encVars
<1>2. CASE CaptureEnds(capCtxs)
  BY <1>1, <1>2, EndStep
<1>3. CASE /\ capPc' \in {"capture", "drain", "reenum"}
           /\ UNCHANGED <<capRunning, capCtxs, encImages>>
  <2>1. \A d : Queued(d)' <=> Queued(d)
    BY <1>1 DEF Queued
  <2>2. capQueue' \in Seq(Encoder) /\ capCtxs' \subseteq Encoder
        /\ encImages' \in [Encoder -> EncImage]
    BY <1>1, <1>3 DEF CapInv, Types
  <2>3. QED
    BY <1>1, <1>3, <2>1, <2>2, GoesOn
<1>4. QED
  BY <1>2, <1>3 DEF CreateDisplay, CaptureStops, Reinitialise, Reenumerate, encVars

LEMMA PushStep ==
  ASSUME CapInv, NEW frame \in BOOLEAN, PushImage(frame)
  PROVE  CapInv'
<1>1. /\ capPc = "capture" /\ capCtxs' = Listening \cup ToSet(capQueue)
      /\ capQueue' = <<>> /\ UNCHANGED <<capPc, capRunning, capRefs, capLock, encPc>>
  BY DEF PushImage, capRefVars
<1>2. /\ encImages' \in [Encoder -> EncImage]
      /\ \A d \in Encoder : encImages'[d].running = encImages[d].running
  BY DEF PushImage, CapInv, Types, EncImage
<1>3. capQueue \in Seq(Encoder) /\ Len(capQueue) \in Nat /\ DOMAIN capQueue = 1 .. Len(capQueue)
  BY LenProperties DEF CapInv, Types
<1>4. \A d : d \in ToSet(capQueue) <=> Queued(d)
  BY <1>3 DEF ToSet, Queued
<1>5. \A d : Queued(d) => d \in Encoder
  BY <1>3, ElementOfSeq DEF Queued
<1>6. capCtxs' \subseteq Encoder
  BY <1>1, <1>4, <1>5 DEF Listening, CapInv, Types
<1>7. <<>> \in Seq(Encoder)
  OBVIOUS
<1>8. \A d \in Encoder : (d \in capCtxs \/ Queued(d)) /\ encImages[d].running = TRUE
                           => d \in capCtxs'
  BY <1>1, <1>4 DEF Listening
<1>9. QED
  BY <1>1, <1>2, <1>6, <1>7, <1>8, GoesOn

LEMMA ReinitStep ==
  ASSUME CapInv, Drain
  PROVE  CapInv'
<1>1. capPc = "drain" /\ UNCHANGED <<capQueue, capRunning, capRefs, capLock, encPc>>
  BY DEF Drain, capRefVars
<1>2. capPc' \in {"drain", "reenum"}
  BY <1>1 DEF Drain
<1>3. capCtxs' \subseteq Encoder
      /\ \A d \in Encoder : d \in capCtxs /\ encImages[d].running = TRUE => d \in capCtxs'
  BY DEF Drain, Listening, CapInv, Types
<1>4. encImages' \in [Encoder -> EncImage]
      /\ \A d \in Encoder : encImages'[d].running = encImages[d].running
  <2>1. encImages \in [Encoder -> EncImage]
    BY DEF CapInv, Types
  <2>2. CASE DisplayShared(capWp)
    <3>1. encImages' = [d \in Encoder |-> IF d \in Listening
                          THEN [encImages[d] EXCEPT !.image = FALSE] ELSE encImages[d]]
      BY <2>2 DEF Drain
    <3>2. QED
      BY <2>1, <3>1 DEF EncImage
  <2>3. CASE encImages' = encImages
    BY <2>1, <2>3
  <2>4. QED
    BY <2>2, <2>3 DEF Drain
<1>5. \A d : Queued(d)' <=> Queued(d)
  BY <1>1 DEF Queued
<1>6. capQueue' \in Seq(Encoder)
  BY <1>1 DEF CapInv, Types
<1>7. QED
  BY <1>1, <1>2, <1>3, <1>4, <1>5, <1>6, GoesOn

\* Other threads: a session is told to stop, the sessions of an encoder are destroyed.
LEMMA OtherStep ==
  ASSUME CapInv,
         (\E e \in Encoder : Shutdown(e)) \/ (\E d \in 1 .. MaxDisplays : TearDownEnds(d))
         \/ UNCHANGED capVars
  PROVE  CapInv'
<1>1. UNCHANGED <<capPc, capQueue, capRunning, capCtxs, capRefs, capLock, encPc, encImages>>
  BY DEF Shutdown, TearDownEnds, capVars, captureVars, capRefVars, encVars
<1>2. encImages' \in [Encoder -> EncImage]
      /\ \A d \in Encoder : encImages[d].running = FALSE => encImages'[d].running = FALSE
  BY <1>1 DEF CapInv, Types
<1>3. QED
  BY <1>1, <1>2, QuietStep

LEMMA StepCap == CapInv /\ [CapNext]_capVars => CapInv'
<1> SUFFICES ASSUME CapInv, [CapNext]_capVars
             PROVE  CapInv'
  OBVIOUS
<1>1. ASSUME NEW e \in Encoder, EncoderStep(e)
      PROVE  CapInv'
  BY <1>1, TakeRefStep, RaiseStep, ReleaseStep, JoinStep, ThreadStep DEF EncoderStep
<1>2. CASE CaptureStep
  BY <1>2, PopStep, DisplayStep, PushStep, ReinitStep DEF CaptureStep
<1>3. CASE (\E e \in Encoder : Shutdown(e)) \/ (\E d \in 1 .. MaxDisplays : TearDownEnds(d))
           \/ UNCHANGED capVars
  BY <1>3, OtherStep
<1>4. QED
  BY <1>1, <1>2, <1>3 DEF CapNext

\* When the capture thread ended, an encoding thread past raise() either has its
\* image event stopped or is about to see that the queue is: nobody waits for
\* frames that never come.
THEOREM Told == CapSpec => []NobodyWaitsOnDeadCapture
<1>1. CapInv => NobodyWaitsOnDeadCapture
  BY DEF CapInv, Types, EndInv, KnownInv, NobodyWaitsOnDeadCapture
<1>2. QED
  BY InitCap, StepCap, <1>1, PTL DEF CapSpec

----------------------------------------------------------------------------
(* Reference frames.                                                       *)

\* A frame needs earlier ones.
Earlier ==
  /\ needs \in [Frames -> SUBSET Frames]
  /\ \A f \in Frames : needs[f] \subseteq 1 .. f - 1

\* The numbers of frames grow, and what a report names was encoded before.
OrderInv ==
  /\ frameNr \in 1 .. MaxFrame + 1 /\ forceIdr \in BOOLEAN
  /\ state \in [range : Int \X Int, confirm : BOOLEAN, last : Nat, idr : Nat]
  /\ state.idr <= state.last /\ state.last < frameNr /\ state.range[2] <= state.last
  /\ state.idr # 0 => state.last = frameNr - 1
  /\ lossEvent \in Int \X Int /\ lossEvent[2] < frameNr
  /\ lossEvent # NoRange => lossEvent[1] >= 1
  /\ lostFrames \subseteq 1 .. frameNr - 1
  /\ Earlier

\* Reported, or given up with what was reported last.
Tainted(n) == n \in lostFrames \/ (state.range[1] <= n /\ n <= state.range[2])

\* Unless an IDR frame comes next, a frame that the driver may refer to is sound, as are
\* the frames it needs.
SoundInv ==
  forceIdr = FALSE /\ state.idr # 0 =>
    \A f \in Frames :
      state.idr <= f /\ f <= state.last /\ f \notin invalid
        => ~Tainted(f) /\ \A n \in needs[f] : ~Tainted(n)

RefInv == OrderInv /\ SoundInv

LEMMA NewSession ==
  ASSUME frameNr' \in 1 .. MaxFrame + 1, frameNr <= frameNr', OrderInv,
         state' = NewState, forceIdr' = FALSE, lostFrames' = {}, lossEvent' = lossEvent,
         needs' = [f \in Frames |-> {}]
  PROVE  RefInv'
<1>1. OrderInv'
  <2>1. frameNr \in Int /\ frameNr' \in Int /\ 1 <= frameNr'
    BY RefFramesAssumption DEF OrderInv
  <2>2. /\ state' \in [range : Int \X Int, confirm : BOOLEAN, last : Nat, idr : Nat]
        /\ state'.idr = 0 /\ state'.last = 0 /\ state'.range[2] = 0
    BY DEF NewState
  <2>3. lossEvent' \in Int \X Int /\ lossEvent'[2] < frameNr'
    BY <2>1 DEF OrderInv
  <2>4. lossEvent' # NoRange => lossEvent'[1] >= 1
    BY DEF OrderInv
  <2>5. Earlier'
    BY DEF Earlier
  <2>6. state'.idr <= state'.last /\ state'.last < frameNr' /\ state'.range[2] <= state'.last
    BY <2>1, <2>2
  <2>7. lostFrames' \subseteq 1 .. frameNr' - 1
    OBVIOUS
  <2>8. QED
    BY <2>2, <2>3, <2>4, <2>5, <2>6, <2>7 DEF OrderInv
<1>2. SoundInv'
  BY DEF SoundInv, NewState
<1>3. QED
  BY <1>1, <1>2 DEF RefInv

LEMMA InitRef == RefInit => RefInv
<1> SUFFICES ASSUME RefInit
             PROVE  RefInv
  OBVIOUS
<1>1. OrderInv
  <2>1. frameNr = 1 /\ frameNr \in 1 .. MaxFrame + 1 /\ forceIdr = FALSE /\ lostFrames = {}
    BY RefFramesAssumption DEF RefInit
  <2>2. /\ state \in [range : Int \X Int, confirm : BOOLEAN, last : Nat, idr : Nat]
        /\ state.idr = 0 /\ state.last = 0 /\ state.range[2] = 0
    BY DEF RefInit, NewState
  <2>3. lossEvent \in Int \X Int /\ lossEvent[2] = 0 /\ lossEvent = NoRange
    BY DEF RefInit, NoRange
  <2>4. Earlier
    BY DEF RefInit, Earlier
  <2>5. /\ state.idr <= state.last /\ state.last < frameNr /\ state.range[2] <= state.last
        /\ lossEvent[2] < frameNr
    BY <2>1, <2>2, <2>3
  <2>6. lostFrames \subseteq 1 .. frameNr - 1
    BY <2>1
  <2>7. QED
    BY <2>1, <2>2, <2>3, <2>4, <2>5, <2>6 DEF OrderInv
<1>2. SoundInv
  BY DEF RefInit, SoundInv, NewState
<1>3. QED
  BY <1>1, <1>2 DEF RefInv

LEMMA ReportStep ==
  ASSUME RefInv, ReportLoss
  PROVE  RefInv'
<1>1. PICK first \in 1 .. frameNr - 1 : \E final \in (first - 1) .. (frameNr - 1) :
        lossEvent' = <<first, final>>
  BY DEF ReportLoss
<1>2. PICK final \in (first - 1) .. (frameNr - 1) : lossEvent' = <<first, final>>
  BY <1>1
<1>3. UNCHANGED <<frameNr, state, forceIdr, needs, invalid, lostFrames>>
  BY DEF ReportLoss, sessionVars, driverVars
<1>4. frameNr \in Int
  BY RefFramesAssumption DEF RefInv, OrderInv
<1>5. lossEvent' \in Int \X Int /\ lossEvent'[2] < frameNr /\ lossEvent'[1] >= 1
  BY <1>2, <1>4
<1>6. OrderInv'
  BY <1>3, <1>5 DEF RefInv, OrderInv, Earlier
<1>7. SoundInv'
  BY <1>3 DEF RefInv, SoundInv, Tainted
<1>8. QED
  BY <1>6, <1>7 DEF RefInv

\* Everything from the first lost frame on is given up, and what comes before needs
\* nothing of it.
LEMMA GiveUp ==
  ASSUME RefInv, NEW first \in Int, NEW final \in Int, final < frameNr,
         state' = [state EXCEPT !.confirm = TRUE, !.range = <<first, state.last>>],
         invalid' = invalid \cup (first .. state.last),
         lostFrames' = lostFrames \cup (first .. final), 
         UNCHANGED <<forceIdr, needs, frameNr>>
  PROVE  SoundInv'
<1> SUFFICES ASSUME forceIdr = FALSE, state.idr # 0, NEW f \in Frames, state.idr <= f,
                    f <= state.last, f \notin invalid'
             PROVE  ~Tainted(f)' /\ \A n \in needs[f] : ~Tainted(n)'
  BY DEF SoundInv, RefInv, OrderInv
<1>1. f \in Int /\ state.last \in Int /\ f \notin invalid /\ f < first
  BY DEF RefInv, OrderInv, Frames
<1>2. \A n \in needs[f] : n \in Int /\ n < f
  BY <1>1 DEF RefInv, OrderInv, Earlier
<1>3. f \notin lostFrames /\ \A n \in needs[f] : n \notin lostFrames
  BY <1>1 DEF RefInv, SoundInv, Tainted
<1>4. /\ lostFrames' = lostFrames \cup (first .. final)
      /\ state'.range[1] = first
  BY DEF RefInv, OrderInv
<1>5. \A n \in Int : n < first /\ n \notin lostFrames => ~Tainted(n)'
  BY <1>4 DEF Tainted
<1>6. QED
  BY <1>1, <1>2, <1>3, <1>5

LEMMA LossStep ==
  ASSUME RefInv, TakeLosses
  PROVE  RefInv'
<1>1. UNCHANGED <<frameNr, needs>>
  BY DEF TakeLosses
<1>2. CASE lossEvent = NoRange
  <2>1. /\ forceIdr' \in BOOLEAN /\ (forceIdr' = FALSE => forceIdr = FALSE)
        /\ UNCHANGED <<state, invalid, lostFrames, lossEvent>>
    BY <1>2 DEF TakeLosses, RefInv, OrderInv
  <2>2. OrderInv'
    BY <1>1, <2>1 DEF RefInv, OrderInv, Earlier
  <2>3. SoundInv'
    BY <1>1, <2>1 DEF RefInv, SoundInv, Tainted
  <2>4. QED
    BY <2>2, <2>3 DEF RefInv
<1>3. CASE lossEvent # NoRange
  <2>0. PICK first, final : first = lossEvent[1] /\ final = lossEvent[2]
    OBVIOUS
  <2>1. first \in Int /\ final \in Int /\ final < frameNr
    BY <2>0 DEF RefInv, OrderInv
  <2>2. /\ Invalidate(first, final) /\ lossEvent' = NoRange
        /\ lostFrames' = lostFrames \cup (first .. final)
    BY <1>3, <2>0 DEF TakeLosses
  <2>3. first >= 1 /\ frameNr \in Int /\ final \in Int
    BY <1>3, <2>0, <2>1, RefFramesAssumption DEF RefInv, OrderInv
  <2>4. lostFrames' \subseteq 1 .. frameNr' - 1
    BY <1>1, <2>1, <2>2, <2>3 DEF RefInv, OrderInv
  <2>5. lossEvent' \in Int \X Int /\ lossEvent'[2] < frameNr'
    BY <1>1, <2>2, RefFramesAssumption DEF NoRange, RefInv, OrderInv
  <2>6. ASSUME forceIdr' \in BOOLEAN,
               state' = state
                 \/ \E range \in {state.range, <<first, state.last>>} :
                      state' = [state EXCEPT !.confirm = TRUE, !.range = range]
        PROVE  OrderInv'
    <3>0. /\ state \in [range : Int \X Int, confirm : BOOLEAN, last : Nat, idr : Nat]
          /\ <<first, state.last>> \in Int \X Int /\ <<first, state.last>>[2] = state.last
          /\ state.range \in Int \X Int /\ state.range[2] <= state.last
          /\ state.last \in Nat
      BY <2>1 DEF RefInv, OrderInv
    <3>1. /\ state' \in [range : Int \X Int, confirm : BOOLEAN, last : Nat, idr : Nat]
          /\ state'.idr = state.idr /\ state'.last = state.last
          /\ state'.range[2] <= state'.last
      <4>1. CASE state' = state
        BY <3>0, <4>1
      <4>2. ASSUME state' = [state EXCEPT !.confirm = TRUE, !.range = state.range]
            PROVE  /\ state' \in [range : Int \X Int, confirm : BOOLEAN, last : Nat, idr : Nat]
                   /\ state'.idr = state.idr /\ state'.last = state.last
                   /\ state'.range[2] <= state'.last
        BY <3>0, <4>2
      <4>3. ASSUME state' = [state EXCEPT !.confirm = TRUE, !.range = <<first, state.last>>]
            PROVE  /\ state' \in [range : Int \X Int, confirm : BOOLEAN, last : Nat, idr : Nat]
                   /\ state'.idr = state.idr /\ state'.last = state.last
                   /\ state'.range[2] <= state'.last
        <5>1. PICK range \in Int \X Int : range = <<first, state.last>>
          BY <3>0
        <5>2. range[2] = state.last
          BY <5>1
        <5>3. state' = [state EXCEPT !.confirm = TRUE, !.range = range]
          BY <4>3, <5>1
        <5>4. state' \in [range : Int \X Int, confirm : BOOLEAN, last : Nat, idr : Nat]
          BY <3>0, <5>3
        <5>5. state'.idr = state.idr /\ state'.last = state.last /\ state'.range = range
          BY <3>0, <5>3
        <5>6. QED
          BY <3>0, <5>2, <5>4, <5>5
      <4>4. QED
        BY <2>6, <4>1, <4>2, <4>3
    <3>2. Earlier'
      BY <1>1 DEF RefInv, OrderInv, Earlier
    <3>3. QED
      BY <1>1, <2>2, <2>4, <2>5, <2>6, <3>1, <3>2 DEF RefInv, OrderInv
  <2>7. ASSUME forceIdr' = TRUE
        PROVE  SoundInv'
    BY <2>7 DEF SoundInv
  <2>8. CASE ~encoder.rfi /\ Refuse /\ UNCHANGED state
    BY <2>6, <2>7, <2>8 DEF Refuse, RefInv
  <2>9. CASE AlreadyDone(first, final) /\ UNCHANGED <<state, forceIdr, invalid>>
    <3>1. \A n : Tainted(n)' <=> Tainted(n)
      BY <2>1, <2>2, <2>9 DEF Tainted, AlreadyDone, RefInv, OrderInv
    <3>2. SoundInv'
      BY <1>1, <2>9, <3>1 DEF RefInv, SoundInv
    <3>3. forceIdr' \in BOOLEAN
      BY <2>9 DEF RefInv, OrderInv
    <3>4. QED
      BY <2>6, <2>9, <3>2, <3>3 DEF RefInv
  <2>10. CASE state' = [state EXCEPT !.confirm = TRUE] /\ Refuse
    <3>1. state' = [state EXCEPT !.confirm = TRUE, !.range = state.range]
      BY <2>10 DEF RefInv, OrderInv
    <3>2. QED
      BY <2>6, <2>7, <2>10, <3>1 DEF Refuse, RefInv
  <2>11. ASSUME state' = [state EXCEPT !.confirm = TRUE, !.range = <<first, state.last>>],
                \/ Refuse
                \/ invalid' = invalid \cup (first .. state.last) /\ UNCHANGED forceIdr
         PROVE  RefInv'
    <3>1. forceIdr' \in BOOLEAN
      BY <2>11 DEF Refuse, RefInv, OrderInv
    <3>2. OrderInv'
      BY <2>6, <2>11, <3>1
    <3>3. CASE Refuse
      BY <2>7, <3>2, <3>3 DEF Refuse, RefInv
    <3>4. CASE invalid' = invalid \cup (first .. state.last) /\ UNCHANGED forceIdr
      BY <1>1, <2>1, <2>2, <2>11, <3>2, <3>4, GiveUp DEF RefInv
    <3>5. QED
      BY <2>11, <3>3, <3>4
  <2>12. QED
    <3>1. \/ ~encoder.rfi /\ Refuse /\ UNCHANGED state
          \/ AlreadyDone(first, final) /\ UNCHANGED <<state, forceIdr, invalid>>
          \/ state' = [state EXCEPT !.confirm = TRUE] /\ Refuse
          \/ /\ state' = [state EXCEPT !.confirm = TRUE, !.range = <<first, state.last>>]
             /\ \/ Refuse
                \/ /\ invalid' = invalid \cup (first .. state.last)
                   /\ UNCHANGED forceIdr
      <4>1. RangeToDo(first, final)[1] = first /\ RangeToDo(first, final)[2] = state.last
            /\ RangeToDo(first, final) = <<first, state.last>>
        BY DEF RangeToDo
      <4>2. QED
        BY <2>2, <4>1 DEF Invalidate
    <3>2. QED
      BY <2>8, <2>9, <2>10, <2>11, <3>1
<1>4. QED
  BY <1>2, <1>3

\* What Encode gives a frame is sound when the invariant holds before.
LEMMA EncodedSound ==
  ASSUME RefInv, Encode
  PROVE  /\ needs' = [needs EXCEPT ![frameNr] = needs'[frameNr]]
         /\ needs'[frameNr] \subseteq 1 .. frameNr - 1
         /\ \A n \in needs'[frameNr] : ~Tainted(n)
<1>1. frameNr \in Frames /\ frameNr \in Int /\ Encoded(MustBeIdr)
  BY DEF Encode, Frames
<1>2. needs \in [Frames -> SUBSET Frames]
  BY DEF RefInv, OrderInv, Earlier
<1>3. CASE needs' = [needs EXCEPT ![frameNr] = {}]
  BY <1>1, <1>2, <1>3
<1>4. ASSUME ~MustBeIdr, NEW r \in References, needs' = [needs EXCEPT ![frameNr] = {r} \cup needs[r]]
      PROVE  /\ needs' = [needs EXCEPT ![frameNr] = needs'[frameNr]]
             /\ needs'[frameNr] \subseteq 1 .. frameNr - 1
             /\ \A n \in needs'[frameNr] : ~Tainted(n)
  <2>1. /\ r \in Frames /\ r \in Int /\ r <= state.last /\ state.idr <= r /\ state.idr # 0
        /\ r \notin invalid /\ r < frameNr
    BY <1>1, <1>4 DEF References, Frames, RefInv, OrderInv
  <2>2. forceIdr = FALSE
    BY <1>4 DEF MustBeIdr, RefInv, OrderInv
  <2>3. ~Tainted(r) /\ \A n \in needs[r] : ~Tainted(n)
    BY <2>1, <2>2 DEF RefInv, SoundInv
  <2>4. needs'[frameNr] = {r} \cup needs[r]
    BY <1>1, <1>2, <1>4
  <2>5. needs[r] \subseteq 1 .. r - 1
    BY <2>1 DEF RefInv, OrderInv, Earlier
  <2>6. {r} \cup needs[r] \subseteq 1 .. frameNr - 1
    BY <1>1, <2>1, <2>5 DEF Frames
  <2>7. QED
    BY <1>4, <2>3, <2>4, <2>6
<1>5. QED
  BY <1>1, <1>3, <1>4 DEF Encoded

LEMMA EncodeStep ==
  ASSUME RefInv, Encode
  PROVE  RefInv'
<1>1. /\ frameNr \in Frames /\ frameNr \in Int /\ frameNr' = frameNr + 1 /\ forceIdr' = FALSE
      /\ 1 <= frameNr /\ frameNr <= MaxFrame
      /\ UNCHANGED <<encoder, lossEvent, invalid, lostFrames>>
  BY RefFramesAssumption DEF Encode, Frames
<1>2. /\ state' \in [range : Int \X Int, confirm : BOOLEAN, last : Nat, idr : Nat]
      /\ state'.last = frameNr /\ state'.range = state.range
      /\ state'.idr = IF MustBeIdr THEN frameNr ELSE state.idr
  <2>1. /\ state \in [range : Int \X Int, confirm : BOOLEAN, last : Nat, idr : Nat]
        /\ frameNr \in Nat
    BY <1>1 DEF RefInv, OrderInv
  <2>2. state' = [state EXCEPT !.confirm = FALSE, !.last = frameNr,
                               !.idr = IF MustBeIdr THEN frameNr ELSE @]
    BY DEF Encode
  <2>3. QED
    BY <2>1, <2>2
<1>3. \A n : Tainted(n)' <=> Tainted(n)
  BY <1>1, <1>2 DEF Tainted
<1>4. /\ needs' \in [Frames -> SUBSET Frames] /\ needs'[frameNr] \subseteq 1 .. frameNr - 1
      /\ \A f \in Frames : f # frameNr => needs'[f] = needs[f]
      /\ \A n \in needs'[frameNr] : ~Tainted(n)
  <2>1. 1 .. frameNr - 1 \subseteq Frames
    BY <1>1, RefFramesAssumption DEF Frames
  <2>2. needs \in [Frames -> SUBSET Frames]
    BY DEF RefInv, OrderInv, Earlier
  <2>3. QED
    BY <1>1, <2>1, <2>2, EncodedSound
<1>5. OrderInv'
  <2>1. frameNr' \in 1 .. MaxFrame + 1 /\ forceIdr' \in BOOLEAN
    <3>1. frameNr + 1 \in 1 .. MaxFrame + 1
      BY <1>1, RefFramesAssumption
    <3>2. QED
      BY <1>1, <3>1
  <2>2. /\ state'.idr <= state'.last /\ state'.last < frameNr' /\ state'.range[2] <= state'.last
        /\ state'.last = frameNr' - 1
    BY <1>1, <1>2 DEF RefInv, OrderInv
  <2>3. /\ lossEvent' \in Int \X Int /\ lossEvent'[2] < frameNr'
        /\ lossEvent' # NoRange => lossEvent'[1] >= 1
    BY <1>1 DEF RefInv, OrderInv
  <2>4. lostFrames' \subseteq 1 .. frameNr' - 1
    BY <1>1 DEF RefInv, OrderInv
  <2>5. Earlier'
    BY <1>4 DEF RefInv, OrderInv, Earlier
  <2>6. QED
    BY <1>2, <1>4, <2>1, <2>2, <2>3, <2>4, <2>5 DEF OrderInv
<1>6. SoundInv'
  <2> SUFFICES ASSUME NEW f \in Frames, state'.idr <= f, f <= state'.last, f \notin invalid
               PROVE  ~Tainted(f) /\ \A n \in needs'[f] : ~Tainted(n)
    BY <1>1, <1>3 DEF SoundInv
  <2>1. CASE f = frameNr
    <3>1. ~Tainted(frameNr)
      BY <1>1 DEF Tainted, RefInv, OrderInv
    <3>2. QED
      BY <1>4, <2>1, <3>1
  <2>2. CASE f # frameNr
    <3>1. f \in Int /\ f < frameNr /\ state'.idr # frameNr
      BY <1>1, <1>2, <2>2 DEF Frames
    <3>2. forceIdr = FALSE /\ state.idr # 0 /\ state'.idr = state.idr
      BY <1>2, <3>1 DEF MustBeIdr, RefInv, OrderInv
    <3>3. f <= state.last
      BY <1>1, <1>2, <3>1, <3>2 DEF RefInv, OrderInv
    <3>4. QED
      BY <1>4, <2>2, <3>2, <3>3 DEF RefInv, SoundInv
  <2>3. QED
    BY <2>1, <2>2
<1>7. QED
  BY <1>5, <1>6 DEF RefInv

LEMMA StepRef == RefInv /\ [RefNext]_refVars => RefInv'
<1> SUFFICES ASSUME RefInv, [RefNext]_refVars
             PROVE  RefInv'
  OBVIOUS
<1>1. ASSUME Create \/ Leave
      PROVE  RefInv'
  <2>1. /\ frameNr \in Int /\ frameNr <= MaxFrame + 1 /\ 1 <= frameNr
        /\ Leave => frameNr <= MaxFrame
    BY RefFramesAssumption DEF RefInv, OrderInv, Leave, Frames
  <2>2. frameNr' \in {frameNr, frameNr + 1} /\ (frameNr' = frameNr + 1 => frameNr <= MaxFrame)
    BY <1>1, <2>1 DEF Create, Leave
  <2>3. frameNr' \in 1 .. MaxFrame + 1 /\ frameNr <= frameNr'
    BY <2>1, <2>2, RefFramesAssumption
  <2>4. /\ state' = NewState /\ forceIdr' = FALSE /\ lostFrames' = {}
        /\ lossEvent' = lossEvent /\ needs' = [f \in Frames |-> {}]
    BY <1>1 DEF Create, Leave
  <2>5. QED
    BY <2>3, <2>4, NewSession DEF RefInv
<1>2. CASE UNCHANGED refVars
  <2>1. UNCHANGED <<frameNr, state, forceIdr, lossEvent, needs, invalid, lostFrames>>
    BY <1>2 DEF refVars, sessionVars, driverVars
  <2>2. QED
    BY <2>1 DEF RefInv, OrderInv, SoundInv, Earlier, Tainted
<1>3. QED
  BY <1>1, <1>2, ReportStep, LossStep, EncodeStep DEF RefNext

\* No frame that is encoded after a report was taken needs a frame of the report.
THEOREM NoneReferred == RefSpec => NoLostReference
<1>1. RefInv /\ [RefNext]_refVars => [Encode => needs'[frameNr] \cap lostFrames = {}]_refVars
  BY EncodedSound DEF Tainted
<1>2. QED
  BY InitRef, StepRef, <1>1, PTL DEF RefSpec, NoLostReference

\* What the encoder is made with.
LEMMA MadeEncoder ==
  ASSUME NEW c \in ClientConfigs, NEW g \in Gpus
  PROVE  CreateEncoder(c, g) \subseteq [rfi: BOOLEAN, dpb: 0..DefaultDpb]
<1>1. c.refFrames \in {0, 1} /\ g.rfi \in BOOLEAN /\ g.multipleRefs \in BOOLEAN
  BY DEF ClientConfigs, Gpus
<1>2. Params(c, g).rfi \in BOOLEAN
  BY <1>1, Zenon DEF Params
<1>3. Params(c, g).dpb \in 0..DefaultDpb
  BY <1>1, RefFramesAssumption DEF Params
<1>4. Params(c, g) = [rfi |-> Params(c, g).rfi, dpb |-> Params(c, g).dpb]
  BY DEF Params
<1>5. Params(c, g) \in [rfi: BOOLEAN, dpb: 0..DefaultDpb]
  BY <1>2, <1>3, <1>4, Zenon
<1>6. NoSession \in [rfi: BOOLEAN, dpb: 0..DefaultDpb]
  BY RefFramesAssumption DEF NoSession
<1>7. QED
  BY <1>5, <1>6 DEF CreateEncoder, Initialised

\* The bounds of the numbers of frames, on top of the invariant.
RefBounds ==
  /\ encoder \in [rfi: BOOLEAN, dpb: 0..DefaultDpb]
  /\ state.range[1] \in 0..MaxFrame /\ state.range[2] \in 0..MaxFrame
  /\ lossEvent[1] \in 0..MaxFrame /\ lossEvent[2] \in 0..MaxFrame
  /\ runPc \in {"create", "losses", "encode"}
  /\ invalid \subseteq 0..MaxFrame

LEMMA BoundsStep == RefInv /\ RefBounds /\ [RefNext]_refVars => RefBounds'
<1> SUFFICES ASSUME RefInv, RefBounds, [RefNext]_refVars
             PROVE  RefBounds'
  OBVIOUS
<1> USE DEF RefBounds
<1>0. /\ MaxFrame \in Nat /\ frameNr \in 1..MaxFrame + 1 /\ frameNr \in Int
      /\ state \in [range : Int \X Int, confirm : BOOLEAN, last : Nat, idr : Nat]
      /\ state.last \in 0..MaxFrame
  BY RefFramesAssumption DEF RefInv, OrderInv
<1>1. CASE Create
  <2>1. encoder' \in UNION {CreateEncoder(c, g): c \in ClientConfigs, g \in Gpus}
    BY <1>1 DEF Create
  <2> HIDE DEF RefBounds
  <2>2. PICK c \in ClientConfigs, g \in Gpus: encoder' \in CreateEncoder(c, g)
    BY <2>1
  <2>3. encoder' \in [rfi: BOOLEAN, dpb: 0..DefaultDpb]
    BY <2>2, MadeEncoder
  <2>4. state'.range[1] = 0 /\ state'.range[2] = 0 /\ invalid' = {} /\ lossEvent' = lossEvent
    BY <1>1 DEF Create, NewState
  <2>5. runPc' \in {"create", "losses", "encode"}
    BY <1>1 DEF Create
  <2>6. QED
    BY <1>0, <2>3, <2>4, <2>5 DEF RefBounds
<1>2. CASE ReportLoss
  <2>1. PICK first \in 1 .. frameNr - 1 : \E final \in (first - 1) .. (frameNr - 1) :
          lossEvent' = <<first, final>>
    BY <1>2 DEF ReportLoss
  <2>2. PICK final \in (first - 1) .. (frameNr - 1) : lossEvent' = <<first, final>>
    BY <2>1
  <2>3. first \in 0..MaxFrame /\ final \in 0..MaxFrame
    BY <1>0
  <2>4. UNCHANGED <<encoder, state, runPc, invalid>>
    BY <1>2 DEF ReportLoss, sessionVars, driverVars
  <2>5. QED
    BY <2>2, <2>3, <2>4
<1>3. CASE TakeLosses
  <2>1. lossEvent' \in {lossEvent, NoRange} /\ runPc' \in {"losses", "encode"} /\ encoder' = encoder
    BY <1>3 DEF TakeLosses
  <2>2. lossEvent'[1] \in 0..MaxFrame /\ lossEvent'[2] \in 0..MaxFrame
    BY <1>0, <2>1 DEF NoRange
  <2>3. \/ UNCHANGED <<state, invalid>>
        \/ Invalidate(lossEvent[1], lossEvent[2])
    BY <1>3 DEF TakeLosses
  <2>4. /\ RangeToDo(lossEvent[1], lossEvent[2]) = <<lossEvent[1], state.last>>
        /\ <<lossEvent[1], state.last>>[1] = lossEvent[1]
        /\ <<lossEvent[1], state.last>>[2] = state.last
        /\ <<lossEvent[1], state.last>> \in Int \X Int
    BY <1>0 DEF RangeToDo
  <2>5. /\ \/ UNCHANGED state
           \/ state' = [state EXCEPT !.confirm = TRUE]
           \/ state' = [state EXCEPT !.confirm = TRUE, !.range = <<lossEvent[1], state.last>>]
        /\ \/ UNCHANGED invalid
           \/ invalid' = invalid \cup (lossEvent[1]..state.last)
    BY <2>3, <2>4 DEF Invalidate, Refuse
  <2>6. invalid' \subseteq 0..MaxFrame
    <3>1. lossEvent[1]..state.last \subseteq 0..MaxFrame
      BY <1>0
    <3>2. QED
      BY <2>5, <3>1
  <2>7. state'.range[1] \in 0..MaxFrame /\ state'.range[2] \in 0..MaxFrame
    <3>1. CASE UNCHANGED state
      BY <3>1
    <3>2. CASE state' = [state EXCEPT !.confirm = TRUE]
      BY <1>0, <3>2
    <3>3. CASE state' = [state EXCEPT !.confirm = TRUE, !.range = <<lossEvent[1], state.last>>]
      <4>1. state'.range = <<lossEvent[1], state.last>>
        BY <1>0, <3>3
      <4>2. QED
        BY <1>0, <2>4, <4>1
    <3>4. QED
      BY <2>5, <3>1, <3>2, <3>3
  <2>8. QED
    BY <2>1, <2>2, <2>6, <2>7
<1>4. CASE Encode
  <2>1. state'.range = state.range /\ UNCHANGED <<encoder, lossEvent, invalid>>
        /\ runPc' = "losses"
    <3>1. state' = [state EXCEPT !.confirm = FALSE, !.last = frameNr,
                                 !.idr = IF MustBeIdr THEN frameNr ELSE @]
      BY <1>4 DEF Encode
    <3>2. state'.range = state.range
      BY <1>0, <3>1
    <3>3. QED
      BY <1>4, <3>2 DEF Encode
  <2>2. QED
    BY <2>1
<1>5. CASE Leave
  <2>1. state'.range[1] = 0 /\ state'.range[2] = 0 /\ invalid' = {} /\ lossEvent' = lossEvent
    BY <1>5 DEF Leave, NewState
  <2>2. encoder' \in [rfi: BOOLEAN, dpb: 0..DefaultDpb] /\ runPc' = "create"
    BY <1>5, RefFramesAssumption DEF Leave, NoSession
  <2>3. QED
    BY <1>0, <2>1, <2>2
<1>6. CASE UNCHANGED refVars
  BY <1>6 DEF refVars, sessionVars, driverVars
<1>7. QED
  BY <1>1, <1>2, <1>3, <1>4, <1>5, <1>6 DEF RefNext

\* The frames, the ranges of lost ones and the driver's references keep their types,
\* for any number of frames.
THEOREM RefTypeCorrect == RefSpec => []RefTypeOK
<1>1. RefInit => RefBounds
  <2>1. RefInit => encoder \in [rfi: BOOLEAN, dpb: 0..DefaultDpb]
    BY RefFramesAssumption DEF RefInit, NoSession
  <2>2. QED
    BY <2>1, RefFramesAssumption DEF RefInit, RefBounds, NewState, NoRange
<1>2. RefInv /\ RefBounds => RefTypeOK
  <2> SUFFICES ASSUME RefInv, RefBounds PROVE RefTypeOK
    OBVIOUS
  <2>1. /\ MaxFrame \in Nat /\ frameNr \in 1..MaxFrame + 1
        /\ state \in [range : Int \X Int, confirm : BOOLEAN, last : Nat, idr : Nat]
        /\ state.last \in 0..MaxFrame /\ state.idr \in 0..MaxFrame
    BY RefFramesAssumption DEF RefInv, OrderInv
  <2>2. /\ state.range = <<state.range[1], state.range[2]>>
        /\ lossEvent = <<lossEvent[1], lossEvent[2]>>
    BY <2>1 DEF RefInv, OrderInv
  <2>3. /\ state.range \in (0..MaxFrame) \X (0..MaxFrame)
        /\ lossEvent \in (0..MaxFrame) \X (0..MaxFrame)
    BY <2>2 DEF RefBounds
  <2>4. state \in [range: (0..MaxFrame) \X (0..MaxFrame), confirm: BOOLEAN,
                   last: 0..MaxFrame, idr: 0..MaxFrame]
    BY <2>1, <2>3
  <2>5. lostFrames \subseteq 0..MaxFrame
    BY <2>1 DEF RefInv, OrderInv
  <2>6. QED
    BY <2>1, <2>3, <2>4, <2>5, Zenon DEF RefInv, RefBounds, OrderInv, Earlier, RefTypeOK
<1>3. QED
  BY InitRef, StepRef, BoundsStep, <1>1, <1>2, PTL DEF RefSpec

----------------------------------------------------------------------------
(* The list of displays.                                                   *)

\* Capture knows where it was: unless it may leave the display it was on last, its
\* index leads to it.
KeepInv == dspLast # NoName /\ dspLast \notin dspExcused => NameAt(dspNames, dspIndex) = dspLast

ListInv ==
  /\ dspDesk \in Seq(Display) /\ dspNames \in Seq(Display \cup {NoName})
  /\ dspSwitch \in Nat /\ dspLast \in Display \cup {NoName}
  /\ IF dspPhase = "start" THEN dspNames = <<>> ELSE dspIndex \in 1 .. Len(dspNames)

DspInv == ListInv /\ KeepInv

LEMMA LeastPlace ==
  ASSUME NEW S \in SUBSET Nat, S # {}
  PROVE  \E m \in S : \A x \in S : m <= x
<1> DEFINE R == {p \in Nat \X Nat : p[1] < p[2]}
<1>1. IsWellFoundedOn(R, Nat)
  BY NatLessThanWellFounded DEF OpToRel
<1> HIDE DEF R
<1>2. PICK m \in S : \A y \in S : ~(<<y, m>> \in R)
  <2>1. S \subseteq Nat /\ S # {}
    OBVIOUS
  <2>2. QED
    BY <1>1, <2>1, WFMin, Zenon
<1>3. \A y \in S : m <= y
  <2> SUFFICES ASSUME NEW y \in S, y < m
               PROVE  FALSE
    OBVIOUS
  <2>1. <<y, m>> \in Nat \X Nat /\ <<y, m>>[1] < <<y, m>>[2]
    OBVIOUS
  <2>2. <<y, m>> \in R
    BY <2>1, Zenon DEF R
  <2>3. QED
    BY <1>2, <2>2
<1>4. QED
  BY <1>3

LEMMA NameAtElement ==
  ASSUME NEW S, NEW names \in Seq(S), NEW index
  PROVE  /\ index \in 1 .. Len(names) => NameAt(names, index) = names[index]
         /\ index \notin 1 .. Len(names) => NameAt(names, index) = NoName
  BY LenProperties DEF NameAt

\* A name that is listed is found where it stands, any other at the first place.
LEMMA PlaceFound ==
  ASSUME NEW S, NEW names \in Seq(S), names # <<>>, NEW name
  PROVE  /\ PlaceOf(name, names) \in 1 .. Len(names)
         /\ name \in ToSet(names) => names[PlaceOf(name, names)] = name
<1> DEFINE places == {i \in DOMAIN names : names[i] = name}
<1>1. Len(names) \in Nat \ {0} /\ DOMAIN names = 1 .. Len(names)
  BY EmptySeq, LenProperties
<1>2. CASE places = {}
  BY <1>1, <1>2 DEF PlaceOf, ToSet
<1>3. CASE places # {}
  <2>1. places \in SUBSET Nat
    BY <1>1
  <2> HIDE DEF places
  <2>2. \E i \in places : \A j \in places : i <= j
    BY <1>3, <2>1, LeastPlace
  <2>3. PlaceOf(name, names) \in places
    BY <1>3, <2>2 DEF PlaceOf, places
  <2>4. QED
    BY <1>1, <2>3 DEF places
<1>4. QED
  BY <1>2, <1>3

LEMMA OrdersAreLists == Orders \subseteq Seq(Display)
<1> SUFFICES ASSUME NEW there \in SUBSET Display, NEW list \in SetToSeqs(there)
             PROVE  list \in Seq(Display)
  BY DEF Orders
<1>1. Cardinality(there) \in Nat
  BY DisplaysAssumption, FS_Subset, FS_CardinalityType
<1>2. list \in [1 .. Cardinality(there) -> there]
  BY DEF SetToSeqs
<1>3. QED
  BY <1>1, <1>2

LEMMA InitDsp == DspInit => DspInv
<1> SUFFICES ASSUME DspInit
             PROVE  DspInv
  OBVIOUS
<1>1. dspDesk \in Seq(Display) /\ dspNames \in Seq(Display \cup {NoName})
  BY OrdersAreLists DEF DspInit
<1>2. ListInv
  BY <1>1 DEF DspInit, ListInv
<1>3. KeepInv
  BY DEF DspInit, KeepInv
<1>4. QED
  BY <1>2, <1>3 DEF DspInv

LEMMA RearrangeStep ==
  ASSUME DspInv, Rearrange
  PROVE  DspInv'
<1>1. UNCHANGED <<dspNames, dspIndex, dspSwitch, dspPhase, dspLast, dspExcused>>
  BY DEF Rearrange, dspListVars
<1>2. dspDesk \in Seq(Display) /\ Len(dspDesk) \in Nat /\ DOMAIN dspDesk = 1 .. Len(dspDesk)
      /\ \A i \in 1 .. Len(dspDesk) : dspDesk[i] \in Display
  BY LenProperties, ElementOfSeq DEF DspInv, ListInv
<1>3. \A m, n \in Int : 1 <= m /\ n <= Len(dspDesk) => SubSeq(dspDesk, m, n) \in Seq(Display)
  <2> SUFFICES ASSUME NEW m \in Int, NEW n \in Int, 1 <= m, n <= Len(dspDesk)
               PROVE  SubSeq(dspDesk, m, n) \in Seq(Display)
    OBVIOUS
  <2>1. \A i \in m .. n : dspDesk[i] \in Display
    BY <1>2
  <2>2. QED
    BY <2>1, SubSeqProperties
<1>4. dspDesk' \in Seq(Display)
  <2>1. ASSUME NEW i \in 1 .. Len(dspDesk), dspDesk' = RemoveAt(dspDesk, i)
        PROVE  dspDesk' \in Seq(Display)
    <3>1. SubSeq(dspDesk, 1, i - 1) \in Seq(Display)
          /\ SubSeq(dspDesk, i + 1, Len(dspDesk)) \in Seq(Display)
      BY <1>2, <1>3
    <3>2. QED
      BY <2>1, <3>1, ConcatProperties DEF RemoveAt
  <2>2. ASSUME NEW i \in 1 .. Len(dspDesk) + 1, NEW d \in Display,
               dspDesk' = InsertAt(dspDesk, i, d)
        PROVE  dspDesk' \in Seq(Display)
    <3>1. SubSeq(dspDesk, 1, i - 1) \in Seq(Display)
          /\ SubSeq(dspDesk, i, Len(dspDesk)) \in Seq(Display)
      BY <1>2, <1>3
    <3>2. <<d>> \in Seq(Display)
      OBVIOUS
    <3>3. SubSeq(dspDesk, 1, i - 1) \o <<d>> \in Seq(Display)
      BY <3>1, <3>2, ConcatProperties
    <3>4. QED
      BY <2>2, <3>1, <3>3, ConcatProperties DEF InsertAt
  <2>3. QED
    BY <1>2, <2>1, <2>2 DEF Rearrange
<1>5. QED
  BY <1>1, <1>4 DEF DspInv, ListInv, KeepInv

\* Everything but listing and opening.
LEMMA StayStep ==
  ASSUME DspInv, UNCHANGED <<dspDesk, dspNames, dspIndex, dspLast, dspExcused>>,
         dspSwitch' \in Nat, dspPhase' # "start", dspPhase # "start"
  PROVE  DspInv'
  BY DEF DspInv, ListInv, KeepInv

LEMMA ListStep ==
  ASSUME DspInv, ListDisplays
  PROVE  DspInv'
<1> DEFINE r == Refreshed(dspDesk, dspNames, dspIndex)
           list == IF dspDesk = <<>> THEN <<OutputName>> ELSE dspDesk
           name == NameAt(dspNames, dspIndex)
<1>1. /\ UNCHANGED <<dspDesk, dspLast>> /\ dspSwitch' = 0 /\ dspNames' = r.names
      /\ dspIndex' = IF dspSwitch = 0 THEN r.index ELSE Clamped(dspSwitch, Len(r.names))
      /\ dspPhase' # "start" /\ dspPhase \in {"start", "reenum"}
      /\ dspExcused' = dspExcused \cup
           (IF dspSwitch = 0 THEN (IF dspDesk = <<>> THEN {} ELSE Display \ ToSet(dspDesk))
                             ELSE Display)
  BY DEF ListDisplays
<1>2. CASE dspDesk = <<>> /\ dspNames # <<>>
  <2>1. r.names = dspNames /\ r.index = dspIndex
    BY <1>2 DEF Refreshed
  <2>2. dspNames' \in Seq(Display \cup {NoName}) /\ Len(dspNames) \in Nat
        /\ dspIndex \in 1 .. Len(dspNames) /\ dspSwitch \in Nat
    BY <1>1, <1>2, <2>1, LenProperties DEF DspInv, ListInv
  <2>3. dspIndex' \in 1 .. Len(dspNames')
    BY <1>1, <2>1, <2>2 DEF Clamped
  <2>4. ListInv'
    BY <1>1, <2>2, <2>3 DEF DspInv, ListInv
  <2>5. KeepInv'
    BY <1>1, <2>1 DEF DspInv, ListInv, KeepInv
  <2>6. QED
    BY <2>4, <2>5 DEF DspInv
<1>3. CASE ~(dspDesk = <<>> /\ dspNames # <<>>)
  <2>1. r.names = list /\ r.index = PlaceOf(IF name = NoName THEN OutputName ELSE name, list)
    BY <1>3 DEF Refreshed
  <2>2. list \in Seq(Display \cup {NoName}) /\ list # <<>> /\ Len(list) \in Nat \ {0}
    <3>1. <<OutputName>> \in Seq(Display \cup {NoName}) /\ <<OutputName>> # <<>>
      BY DisplaysAssumption
    <3>2. dspDesk \in Seq(Display \cup {NoName})
      BY DEF DspInv, ListInv
    <3>3. list \in Seq(Display \cup {NoName}) /\ list # <<>>
      BY <3>1, <3>2
    <3>4. QED
      BY <3>3, EmptySeq
  <2> HIDE DEF list, name
  <2>3. /\ r.index \in 1 .. Len(list)
        /\ name # NoName /\ name \in ToSet(list) => list[r.index] = name
    BY <2>1, <2>2, PlaceFound
  <2> HIDE DEF r
  <2>4. dspIndex' \in 1 .. Len(dspNames')
    <3>1. dspSwitch \in Nat
      BY DEF DspInv, ListInv
    <3>2. dspSwitch # 0 => Clamped(dspSwitch, Len(list)) \in 1 .. Len(list)
      BY <2>2, <3>1 DEF Clamped
    <3>3. QED
      BY <1>1, <2>1, <2>3, <3>2
  <2>5. ListInv'
    BY <1>1, <2>1, <2>2, <2>4 DEF DspInv, ListInv
  <2>6. ASSUME dspLast # NoName, dspLast \notin dspExcused'
        PROVE  NameAt(dspNames', dspIndex') = dspLast
    <3>1. name = dspLast /\ dspLast \in Display
      BY <1>1, <2>6 DEF DspInv, KeepInv, ListInv, name
    <3>2. dspSwitch = 0
      BY <1>1, <2>6, <3>1
    <3>3. CASE dspDesk = <<>>
      <4>1. dspNames = <<>>
        BY <1>3, <3>3
      <4>2. name = NoName
        BY <4>1 DEF name, NameAt
      <4>3. QED
        BY <2>6, <3>1, <4>2
    <3>4. CASE dspDesk # <<>>
      <4>1. dspLast \in ToSet(dspDesk) /\ list = dspDesk
        BY <1>1, <2>6, <3>1, <3>2, <3>4 DEF list
      <4>2. list[r.index] = dspLast
        BY <2>3, <2>6, <3>1, <4>1
      <4>3. QED
        BY <1>1, <2>1, <2>2, <2>3, <3>2, <4>2, NameAtElement
    <3>5. QED
      BY <3>3, <3>4
  <2>7. KeepInv'
    BY <1>1, <2>6 DEF KeepInv
  <2>8. QED
    BY <2>5, <2>7 DEF DspInv
<1>4. QED
  BY <1>2, <1>3

\* What is opened is what the index leads to.
LEMMA Opened ==
  ASSUME DspInv, OpenDisplay
  PROVE  /\ dspLast # NoName /\ dspLast \notin dspExcused => dspLast' = dspLast
         /\ dspLast' \in Display
         /\ dspNames[dspIndex] # NoName => dspNames[dspIndex] = dspLast'
<1>1. PICK d \in Openable(dspNames[dspIndex]) : dspLast' = d
  BY DEF OpenDisplay, Open
<1>2. dspDesk \in Seq(Display) /\ DOMAIN dspDesk = 1 .. Len(dspDesk) /\ dspDesk # <<>>
  BY <1>1, LenProperties DEF Openable, DspInv, ListInv
<1>3. \A i \in 1 .. Len(dspDesk) : dspDesk[i] \in Display
  BY <1>2, ElementOfSeq
<1>4. Head(dspDesk) \in Display /\ ToSet(dspDesk) \subseteq Display
  BY <1>2, <1>3, HeadTailProperties DEF ToSet
<1>5. dspPhase # "start" /\ dspIndex \in 1 .. Len(dspNames)
  BY DEF OpenDisplay, DspInv, ListInv
<1>6. NameAt(dspNames, dspIndex) = dspNames[dspIndex]
  BY <1>5, NameAtElement DEF DspInv, ListInv
<1>7. dspNames[dspIndex] # NoName => d = dspNames[dspIndex]
  BY <1>1, <1>2 DEF Openable
<1>8. QED
  BY <1>1, <1>4, <1>6, <1>7, <1>2 DEF Openable, DspInv, KeepInv

LEMMA OpenStep ==
  ASSUME DspInv, OpenDisplay
  PROVE  DspInv'
<1>1. /\ UNCHANGED <<dspDesk, dspNames, dspIndex, dspSwitch>> /\ dspPhase' = "capture"
      /\ dspPhase # "start"
      /\ dspExcused' = IF dspNames[dspIndex] = NoName THEN Display ELSE {}
  BY DEF OpenDisplay, Open, dspListVars
<1>2. dspIndex \in 1 .. Len(dspNames)
  BY <1>1 DEF DspInv, ListInv
<1>3. ListInv'
  BY <1>1, Opened DEF DspInv, ListInv
<1>4. NameAt(dspNames, dspIndex) = dspNames[dspIndex]
  BY <1>2, NameAtElement DEF DspInv, ListInv
<1>5. KeepInv'
  BY <1>1, <1>4, Opened DEF KeepInv
<1>6. QED
  BY <1>3, <1>5 DEF DspInv

LEMMA StepDsp == DspInv /\ [DspNext]_dspVars => DspInv'
<1> SUFFICES ASSUME DspInv, [DspNext]_dspVars
             PROVE  DspInv'
  OBVIOUS
<1>1. CASE SwitchKey
  <2>1. Cardinality(Display) \in Nat
    BY DisplaysAssumption, FS_CardinalityType
  <2>2. dspSwitch' \in Nat
    BY <1>1, <2>1 DEF SwitchKey
  <2>3. QED
    BY <1>1, <2>2, StayStep DEF SwitchKey, dspListVars
<1>2. CASE OpenFails \/ NoticeChange \/ Acquire \/ TimeOut \/ AccessLost \/ PushAndRelease
  <2>1. /\ UNCHANGED <<dspDesk, dspNames, dspIndex, dspSwitch, dspLast, dspExcused>>
        /\ dspPhase # "start" /\ dspPhase' # "start"
    BY <1>2 DEF OpenFails, NoticeChange, Acquire, TimeOut, AccessLost, PushAndRelease,
                Interrupted, End, dspListVars
  <2>2. dspSwitch' \in Nat
    BY <2>1 DEF DspInv, ListInv
  <2>3. QED
    BY <2>1, <2>2, StayStep
<1>3. CASE UNCHANGED dspVars
  BY <1>3 DEF dspVars, dspListVars, DspInv, ListInv, KeepInv
<1>4. QED
  BY <1>1, <1>2, <1>3, RearrangeStep, ListStep, OpenStep DEF DspNext

\* Capture comes back to the display it was on, for any displays in any order, unless
\* a listing without it, the user, or an opening without a name lets it go elsewhere.
THEOREM DisplayKept == DspSpec => IndexKeepsDisplay
<1>1. DspInv /\ [DspNext]_dspVars
        => [dspLast # NoName /\ dspLast' # dspLast => dspLast \in dspExcused]_dspVars
  <2> SUFFICES ASSUME DspInv, DspNext, dspLast # NoName, dspLast' # dspLast
               PROVE  dspLast \in dspExcused
    OBVIOUS
  <2>1. OpenDisplay
    BY DEF DspNext, Rearrange, SwitchKey, ListDisplays, OpenFails, NoticeChange, Acquire,
           TimeOut, AccessLost, PushAndRelease
  <2>2. QED
    BY <2>1, Opened
<1>2. QED
  BY InitDsp, StepDsp, <1>1, PTL DEF DspSpec, IndexKeepsDisplay

\* No display is listed twice.
Distinct(q) == \A i, j \in 1..Len(q): i # j => q[i] # q[j]

LEMMA OrdersDistinct ==
  ASSUME NEW q \in Orders
  PROVE  q \in Seq(Display) /\ Distinct(q)
<1>1. PICK there \in SUBSET Display: q \in SetToSeqs(there)
  BY DEF Orders
<1>2. Cardinality(there) \in Nat
  BY DisplaysAssumption, FS_Subset, FS_CardinalityType
<1>3. /\ q \in [1..Cardinality(there) -> there]
      /\ \A i, j \in 1..Cardinality(there): i # j => q[i] # q[j]
  BY <1>1 DEF SetToSeqs
<1>4. Len(q) = Cardinality(there)
  BY <1>2, <1>3
<1>5. QED
  BY <1>3, <1>4, OrdersAreLists DEF Distinct

LEMMA DistinctIsOrder ==
  ASSUME NEW q \in Seq(Display), Distinct(q)
  PROVE  q \in Orders
<1> DEFINE S == {q[i]: i \in 1..Len(q)}
<1>1. /\ Len(q) \in Nat /\ q \in [1..Len(q) -> Display]
      /\ \A i \in 1..Len(q): q[i] \in Display /\ q[i] \in S
  BY LenProperties, ElementOfSeq
<1>2. q \in [1..Len(q) -> S] /\ S \in SUBSET Display
  <2>1. S \in SUBSET Display
    BY <1>1
  <2> HIDE DEF S
  <2>2. QED
    BY <1>1, <2>1
<1>3. q \in Bijection(1..Len(q), S)
  <2>1. \A x \in S: \E i \in 1..Len(q): q[i] = x
    OBVIOUS
  <2> HIDE DEF S
  <2>2. q \in Injection(1..Len(q), S)
    BY <1>2 DEF Injection, IsInjective, Distinct
  <2>3. q \in Surjection(1..Len(q), S)
    BY <1>2, <2>1 DEF Surjection
  <2>4. QED
    BY <2>2, <2>3, Zenon DEF Bijection
<1>4. IsFiniteSet(1..Len(q)) /\ Cardinality(1..Len(q)) = Len(q)
  <2>1. 1 \in Int /\ Len(q) \in Int
    BY <1>1
  <2>2. /\ IsFiniteSet(1..Len(q))
        /\ Cardinality(1..Len(q)) = IF 1 > Len(q) THEN 0 ELSE Len(q) - 1 + 1
    BY <2>1, FS_Interval
  <2>3. \A n \in Nat: (IF 1 > n THEN 0 ELSE n - 1 + 1) = n
    OBVIOUS
  <2>4. QED
    BY <1>1, <2>2, <2>3, Zenon
<1>5. Cardinality(S) = Len(q)
  BY <1>3, <1>4, FS_Bijection DEF ExistsBijection
<1>6. q \in SetToSeqs(S)
  BY <1>2, <1>5 DEF SetToSeqs, Distinct
<1>7. QED
  BY <1>2, <1>6 DEF Orders

\* The part of a list before a place, and from it on.
LEMMA ListPart ==
  ASSUME NEW q \in Seq(Display), NEW m \in 1..Len(q) + 1, NEW n \in 0..Len(q), n >= m - 1
  PROVE  /\ SubSeq(q, m, n) \in Seq(Display) /\ Len(SubSeq(q, m, n)) = n - m + 1
         /\ \A k \in 1..n - m + 1: SubSeq(q, m, n)[k] = q[m + k - 1]
<1>1. Len(q) \in Nat /\ \A i \in 1..Len(q): q[i] \in Display
  BY LenProperties, ElementOfSeq
<1>2. \A i \in m..n: q[i] \in Display
  BY <1>1
<1>3. SubSeq(q, m, n) \in Seq(Display)
  BY <1>1, <1>2, SubSeqProperties
<1>4. Len(SubSeq(q, m, n)) = IF m <= n THEN n - m + 1 ELSE 0
  BY <1>1, <1>2, SubSeqProperties
<1>5. \A k \in 1..n - m + 1: SubSeq(q, m, n)[k] = q[m + k - 1]
  BY <1>1, <1>2, SubSeqProperties
<1>6. QED
  BY <1>1, <1>3, <1>4, <1>5

LEMMA Removed ==
  ASSUME NEW q \in Seq(Display), Distinct(q), NEW i \in 1..Len(q)
  PROVE  RemoveAt(q, i) \in Seq(Display) /\ Distinct(RemoveAt(q, i))
<1> DEFINE a == SubSeq(q, 1, i - 1)
           b == SubSeq(q, i + 1, Len(q))
<1>0. Len(q) \in Nat /\ i \in Int /\ 1 <= i /\ i <= Len(q)
  BY LenProperties
<1>1. /\ a \in Seq(Display) /\ Len(a) = i - 1
      /\ \A k \in 1..i - 1: a[k] = q[k]
  <2>1. 1 \in 1..Len(q) + 1 /\ i - 1 \in 0..Len(q) /\ i - 1 >= 1 - 1
    BY <1>0
  <2>2. /\ a \in Seq(Display) /\ Len(a) = (i - 1) - 1 + 1
        /\ \A k \in 1..(i - 1) - 1 + 1: a[k] = q[1 + k - 1]
    BY <2>1, ListPart
  <2>3. \A k \in 1..i - 1: k \in 1..(i - 1) - 1 + 1 /\ 1 + k - 1 = k
    BY <1>0
  <2>4. QED
    BY <1>0, <2>2, <2>3
<1>2. /\ b \in Seq(Display) /\ Len(b) = Len(q) - i
      /\ \A k \in 1..Len(q) - i: b[k] = q[i + k]
  <2>1. i + 1 \in 1..Len(q) + 1 /\ Len(q) \in 0..Len(q) /\ Len(q) >= (i + 1) - 1
    BY <1>0
  <2>2. /\ b \in Seq(Display) /\ Len(b) = Len(q) - (i + 1) + 1
        /\ \A k \in 1..Len(q) - (i + 1) + 1: b[k] = q[(i + 1) + k - 1]
    BY <2>1, ListPart
  <2>3. \A k \in 1..Len(q) - i: k \in 1..Len(q) - (i + 1) + 1 /\ (i + 1) + k - 1 = i + k
    BY <1>0
  <2>4. QED
    BY <1>0, <2>2, <2>3
<1> HIDE DEF a, b
<1>3. /\ a \o b \in Seq(Display) /\ Len(a \o b) = Len(a) + Len(b)
      /\ \A k \in 1..Len(a) + Len(b):
           (a \o b)[k] = IF k <= Len(a) THEN a[k] ELSE b[k - Len(a)]
  BY <1>1, <1>2, ConcatProperties
<1>4. \A k \in 1..Len(a \o b): \E n \in 1..Len(q):
        /\ (a \o b)[k] = q[n] /\ n = IF k < i THEN k ELSE k + 1
  <2> SUFFICES ASSUME NEW k \in 1..Len(a \o b)
               PROVE  \E n \in 1..Len(q): (a \o b)[k] = q[n] /\ n = IF k < i THEN k ELSE k + 1
    OBVIOUS
  <2>0. k \in Int /\ 1 <= k /\ k <= Len(q) - 1 /\ Len(a) = i - 1
        /\ (a \o b)[k] = IF k <= Len(a) THEN a[k] ELSE b[k - Len(a)]
    BY <1>0, <1>1, <1>2, <1>3
  <2>1. CASE k < i
    BY <1>0, <1>1, <2>0, <2>1
  <2>2. CASE ~(k < i)
    <3>1. k - Len(a) \in 1..Len(q) - i /\ i + (k - Len(a)) = k + 1 /\ k + 1 \in 1..Len(q)
          /\ ~(k <= Len(a))
      BY <1>0, <2>0, <2>2
    <3>2. (a \o b)[k] = q[k + 1]
      BY <1>2, <2>0, <3>1
    <3>3. QED
      BY <2>2, <3>1, <3>2
  <2>3. QED
    BY <2>1, <2>2
<1>5. Distinct(a \o b)
  <2> SUFFICES ASSUME NEW j \in 1..Len(a \o b), NEW k \in 1..Len(a \o b), j # k
               PROVE  (a \o b)[j] # (a \o b)[k]
    BY DEF Distinct
  <2>1. PICK m \in 1..Len(q): (a \o b)[j] = q[m] /\ m = IF j < i THEN j ELSE j + 1
    BY <1>4
  <2>2. PICK n \in 1..Len(q): (a \o b)[k] = q[n] /\ n = IF k < i THEN k ELSE k + 1
    BY <1>4
  <2>3. m # n
    BY <1>0, <1>1, <1>2, <1>3, <2>1, <2>2
  <2>4. QED
    BY <2>1, <2>2, <2>3 DEF Distinct
<1>6. QED
  BY <1>3, <1>5 DEF RemoveAt, a, b

LEMMA Inserted ==
  ASSUME NEW q \in Seq(Display), Distinct(q), NEW i \in 1..Len(q) + 1,
         NEW d \in Display \ ToSet(q)
  PROVE  InsertAt(q, i, d) \in Seq(Display) /\ Distinct(InsertAt(q, i, d))
<1> DEFINE a == SubSeq(q, 1, i - 1)
           b == SubSeq(q, i, Len(q))
           c == a \o <<d>>
<1>0. Len(q) \in Nat /\ DOMAIN q = 1..Len(q) /\ i \in Int /\ 1 <= i /\ i <= Len(q) + 1
  BY LenProperties
<1>1. /\ a \in Seq(Display) /\ Len(a) = i - 1
      /\ \A k \in 1..i - 1: a[k] = q[k]
  <2>1. 1 \in 1..Len(q) + 1 /\ i - 1 \in 0..Len(q) /\ i - 1 >= 1 - 1
    BY <1>0
  <2>2. /\ a \in Seq(Display) /\ Len(a) = (i - 1) - 1 + 1
        /\ \A k \in 1..(i - 1) - 1 + 1: a[k] = q[1 + k - 1]
    BY <2>1, ListPart
  <2>3. \A k \in 1..i - 1: k \in 1..(i - 1) - 1 + 1 /\ 1 + k - 1 = k
    BY <1>0
  <2>4. QED
    BY <1>0, <2>2, <2>3
<1>2. /\ b \in Seq(Display) /\ Len(b) = Len(q) - i + 1
      /\ \A k \in 1..Len(q) - i + 1: b[k] = q[i + k - 1]
  <2>1. i \in 1..Len(q) + 1 /\ Len(q) \in 0..Len(q) /\ Len(q) >= i - 1
    BY <1>0
  <2>2. QED
    BY <2>1, ListPart
<1> HIDE DEF a, b
<1>3. <<d>> \in Seq(Display) /\ Len(<<d>>) = 1 /\ <<d>>[1] = d
  OBVIOUS
<1>4. /\ c \in Seq(Display) /\ Len(c) = i
      /\ \A k \in 1..i: c[k] = IF k < i THEN q[k] ELSE d
  <2>1. /\ c \in Seq(Display) /\ Len(c) = Len(a) + 1
        /\ \A k \in 1..Len(a) + 1: c[k] = IF k <= Len(a) THEN a[k] ELSE <<d>>[k - Len(a)]
    BY <1>1, <1>3, ConcatProperties
  <2>2. Len(c) = i
    BY <1>0, <1>1, <2>1
  <2>3. ASSUME NEW k \in 1..i PROVE c[k] = IF k < i THEN q[k] ELSE d
    <3>1. k \in 1..Len(a) + 1 /\ (k <= Len(a) <=> k < i) /\ (k < i => k \in 1..i - 1)
      BY <1>0, <1>1
    <3>2. CASE k < i
      BY <1>1, <2>1, <3>1, <3>2
    <3>3. CASE ~(k < i)
      <4>1. k - Len(a) = 1
        BY <1>0, <1>1, <3>3
      <4>2. QED
        BY <1>3, <2>1, <3>1, <3>3, <4>1
    <3>4. QED
      BY <3>2, <3>3
  <2>4. QED
    BY <2>1, <2>2, <2>3
<1> HIDE DEF c
<1>5. /\ c \o b \in Seq(Display) /\ Len(c \o b) = Len(c) + Len(b)
      /\ \A k \in 1..Len(c) + Len(b):
           (c \o b)[k] = IF k <= Len(c) THEN c[k] ELSE b[k - Len(c)]
  BY <1>2, <1>4, ConcatProperties
<1>6. \A k \in 1..Len(c \o b):
        IF k = i THEN (c \o b)[k] = d
        ELSE \E n \in 1..Len(q): (c \o b)[k] = q[n] /\ n = IF k < i THEN k ELSE k - 1
  <2> SUFFICES ASSUME NEW k \in 1..Len(c \o b)
               PROVE  IF k = i THEN (c \o b)[k] = d
                      ELSE \E n \in 1..Len(q):
                             (c \o b)[k] = q[n] /\ n = IF k < i THEN k ELSE k - 1
    OBVIOUS
  <2>0. k \in Int /\ 1 <= k /\ k <= Len(q) + 1
        /\ (c \o b)[k] = IF k <= i THEN c[k] ELSE b[k - i]
    BY <1>0, <1>2, <1>4, <1>5
  <2>1. CASE k = i
    BY <1>0, <1>4, <2>0, <2>1
  <2>2. CASE k < i
    BY <1>0, <1>4, <2>0, <2>2
  <2>3. CASE k > i
    <3>1. k - i \in 1..Len(q) - i + 1 /\ i + (k - i) - 1 = k - 1 /\ k - 1 \in 1..Len(q)
          /\ ~(k <= i) /\ k # i /\ ~(k < i)
      BY <1>0, <2>0, <2>3
    <3>2. (c \o b)[k] = q[k - 1]
      BY <1>2, <2>0, <3>1
    <3>3. QED
      BY <3>1, <3>2
  <2>4. QED
    BY <1>0, <2>0, <2>1, <2>2, <2>3
<1>7. \A n \in 1..Len(q): q[n] # d
  BY <1>0 DEF ToSet
<1>8. Distinct(c \o b)
  <2> SUFFICES ASSUME NEW j \in 1..Len(c \o b), NEW k \in 1..Len(c \o b), j # k
               PROVE  (c \o b)[j] # (c \o b)[k]
    BY DEF Distinct
  <2>1. CASE j = i \/ k = i
    BY <1>6, <1>7, <2>1
  <2>2. CASE j # i /\ k # i
    <3>1. PICK m \in 1..Len(q): (c \o b)[j] = q[m] /\ m = IF j < i THEN j ELSE j - 1
      BY <1>6, <2>2
    <3>2. PICK n \in 1..Len(q): (c \o b)[k] = q[n] /\ n = IF k < i THEN k ELSE k - 1
      BY <1>6, <2>2
    <3>3. m # n
      BY <1>0, <1>2, <1>4, <1>5, <2>2, <3>1, <3>2
    <3>4. QED
      BY <3>1, <3>2, <3>3 DEF Distinct
  <2>3. QED
    BY <2>1, <2>2
<1>9. QED
  BY <1>5, <1>8 DEF InsertAt, a, b, c

\* The types of the list and of the display that is open, on top of the invariant.
DspTypes ==
  /\ dspDesk \in Orders /\ dspNames \in Orders \cup {<<OutputName>>}
  /\ dspIndex \in 0..Len(dspNames) /\ dspSwitch \in 0..Cardinality(Display) + 1
  /\ dspPhase \in {"start", "first", "capture", "release", "reenum", "open", "ended"}
  /\ dspOpened \in Display \cup {NoName} /\ dspLast \in Display \cup {NoName}
  /\ dspCurrent \in BOOLEAN /\ dspFrame \in BOOLEAN /\ dspGroup \in 0..MaxGroup
  /\ dspExcused \subseteq Display
  /\ dspPhase \in {"capture", "release"} <=> dspOpened # NoName

LEMMA DspTypesStep == DspInv /\ DspTypes /\ [DspNext]_dspVars => DspTypes'
<1> SUFFICES ASSUME DspInv, DspTypes, [DspNext]_dspVars
             PROVE  DspTypes'
  OBVIOUS
<1> USE DEF DspTypes
<1>0. DspInv' /\ NoName \notin Display /\ Cardinality(Display) \in Nat
      /\ MaxGroup \in Nat \ {0} /\ 0 \in 0..MaxGroup /\ 1 \in 0..MaxGroup
      /\ 0 \in 0..Cardinality(Display) + 1
  BY StepDsp, DisplaysAssumption, FS_CardinalityType
<1>1. CASE Rearrange
  <2>1. dspDesk \in Seq(Display) /\ Distinct(dspDesk) /\ DOMAIN dspDesk = 1..Len(dspDesk)
    BY OrdersDistinct, LenProperties
  <2>2. dspDesk' \in Orders
    <3>1. ASSUME NEW i \in DOMAIN dspDesk, dspDesk' = RemoveAt(dspDesk, i)
          PROVE  dspDesk' \in Orders
      BY <2>1, <3>1, Removed, DistinctIsOrder
    <3>2. ASSUME NEW i \in 1..Len(dspDesk) + 1, NEW d \in Display \ ToSet(dspDesk),
                 dspDesk' = InsertAt(dspDesk, i, d)
          PROVE  dspDesk' \in Orders
      BY <2>1, <3>2, Inserted, DistinctIsOrder
    <3>3. QED
      BY <1>1, <3>1, <3>2 DEF Rearrange
  <2>3. QED
    BY <1>1, <2>2 DEF Rearrange, dspListVars
<1>2. CASE SwitchKey
  <2>1. dspSwitch' \in 0..Cardinality(Display) + 1
    BY <1>0, <1>2 DEF SwitchKey
  <2>2. QED
    BY <1>2, <2>1 DEF SwitchKey, dspListVars
<1>3. CASE ListDisplays
  <2> DEFINE r == Refreshed(dspDesk, dspNames, dspIndex)
  <2>1. /\ UNCHANGED <<dspDesk, dspOpened, dspCurrent, dspFrame, dspGroup, dspLast>>
        /\ dspPhase \notin {"capture", "release"} /\ dspPhase' \in {"first", "open"}
        /\ dspSwitch' = 0 /\ dspNames' = r.names /\ dspExcused' \subseteq Display
    BY <1>3 DEF ListDisplays
  <2>2. r.names \in {dspNames, dspDesk, <<OutputName>>}
    BY DEF Refreshed
  <2>3. dspNames' \in Orders \cup {<<OutputName>>}
    BY <2>1, <2>2
  <2>4. dspIndex' \in 0..Len(dspNames')
    <3>1. dspIndex' \in 1..Len(dspNames')
      BY <1>0, <2>1 DEF DspInv, ListInv
    <3>2. QED
      BY <3>1
  <2>5. QED
    BY <1>0, <2>1, <2>3, <2>4
<1>4. CASE OpenDisplay
  <2>1. dspLast' \in Display /\ dspOpened' = dspLast'
    BY <1>4, Opened DEF OpenDisplay, Open
  <2>2. /\ UNCHANGED <<dspDesk, dspNames, dspIndex, dspSwitch>>
        /\ dspCurrent' = TRUE /\ dspFrame' = FALSE /\ dspGroup' = 0
        /\ dspPhase' = "capture" /\ dspExcused' \subseteq Display
    BY <1>4 DEF OpenDisplay, Open, dspListVars
  <2>3. QED
    BY <1>0, <2>1, <2>2
<1>5. CASE OpenFails
  BY <1>0, <1>5 DEF OpenFails, End, Close, dspDisp, dspListVars
<1>6. CASE NoticeChange \/ AccessLost
  BY <1>0, <1>6 DEF NoticeChange, AccessLost, Interrupted, End, Close, dspListVars
<1>7. CASE Acquire
  <2>1. dspGroup' \in 0..MaxGroup
    BY <1>0, <1>7 DEF Acquire
  <2>2. QED
    BY <1>7, <2>1 DEF Acquire, dspListVars
<1>8. CASE TimeOut
  BY <1>0, <1>8 DEF TimeOut, dspListVars
<1>9. CASE PushAndRelease
  BY <1>0, <1>9 DEF PushAndRelease, Interrupted, End, Close, dspListVars
<1>10. CASE UNCHANGED dspVars
  BY <1>10 DEF dspVars, dspListVars, dspDisp
<1>11. QED
  BY <1>1, <1>2, <1>3, <1>4, <1>5, <1>6, <1>7, <1>8, <1>9, <1>10 DEF DspNext

LEMMA DspTypesInit == DspInit => DspTypes
<1> SUFFICES ASSUME DspInit
             PROVE  DspTypes
  OBVIOUS
<1>1. <<>> \in Orders
  <2>1. Distinct(<<>>) /\ <<>> \in Seq(Display)
    BY DEF Distinct
  <2>2. QED
    BY <2>1, DistinctIsOrder
<1>2. /\ 0 \in 0..MaxGroup /\ 0 \in 0..Cardinality(Display) + 1 /\ 0 \in 0..Len(<<>>)
  BY DisplaysAssumption, FS_CardinalityType
<1>3. QED
  BY <1>1, <1>2 DEF DspInit, DspTypes

\* The lists of displays name none twice, the index stays in the list, and a display
\* is open exactly while frames are taken from it, for any displays.
THEOREM DspTypeCorrect == DspSpec => []DspTypeOK
<1>1. DspTypes => DspTypeOK
  BY DEF DspTypes, DspTypeOK
<1>2. QED
  BY InitDsp, StepDsp, DspTypesInit, DspTypesStep, <1>1, PTL DEF DspSpec

----------------------------------------------------------------------------
(* The frames of the capture.                                              *)

\* The state of a pooled image.
Slots == [alloc: BOOLEAN, texture: Texture \cup {0}, dummy: BOOLEAN, blank: BOOLEAN,
          picture: Pictures]

\* What the encoder has opened for an image.
Views == [texture: Texture \cup {0}, own: BOOLEAN, picture: Pictures]

\* The types of the state.
SnapTypes ==
  /\ desk \in 0..MaxDesk
  /\ cursor \in [version: 0..MaxCursor, visible: BOOLEAN]
  /\ pending \in [frame: BOOLEAN, mouse: BOOLEAN]
  /\ drawing \in BOOLEAN /\ format \in BOOLEAN /\ surface \in 0..MaxDesk
  /\ last \in [kind: {"none", "image", "surface"}, image: Image \cup {NoImage}]
  /\ last.kind = "image" => last.image \in Image
  /\ img \in [Image -> Slots]
  /\ out \in Image \cup {NoImage} /\ slot \in Image \cup {NoImage}
  /\ held \in Image \cup {NoImage}
  /\ seen \in [desk: 0..MaxDesk, cursor: 0..MaxCursor, src: BOOLEAN, blend: BOOLEAN]
  /\ snapPc \in {"next", "last", "out", "push", "error"}
  /\ opened \in [Image -> Views] /\ shown \in Pictures /\ newest \in 0..MaxDesk

\* A function takes no more values than its domain has members.
LEMMA ImageCount ==
  ASSUME NEW S, IsFiniteSet(S), NEW f
  PROVE  /\ IsFiniteSet({f[x] : x \in S})
         /\ Cardinality({f[x] : x \in S}) <= Cardinality(S)
<1> DEFINE g == [x \in S |-> f[x]]
           T == {f[x] : x \in S}
<1>1. g \in Surjection(S, T)
  BY DEF Surjection
<1>2. QED
  BY <1>1, FS_Surjection

\* There is an address for a new texture of an image, besides the one that the
\* encoder opened for it: the other images keep at most one each.
LEMMA FreshTexture ==
  ASSUME NEW i \in Image
  PROVE  NewAddress(i) \subseteq Texture
<1> DEFINE f == [j \in Image |-> IF j = i THEN opened[i].texture ELSE img[j].texture]
           A == {f[j] : j \in Image}
<1>1. IsFiniteSet(A) /\ Cardinality(A) <= Cardinality(Image)
  BY ImageCount, SnapshotAssumption
<1>2. ~(Texture \subseteq A)
  <2> SUFFICES ASSUME Texture \subseteq A PROVE FALSE
    OBVIOUS
  <2>1. Cardinality(Texture) <= Cardinality(A)
    BY <1>1, FS_Subset
  <2>2. /\ Cardinality(Texture) \in Nat /\ Cardinality(A) \in Nat
        /\ Cardinality(Image) \in Nat
    BY <1>1, FS_CardinalityType, SnapshotAssumption
  <2>3. QED
    BY <1>1, <2>1, <2>2, SnapshotAssumption
<1>3. PICK t \in Texture: t \notin A
  BY <1>2
<1>4. t \in Addresses(i) /\ t # opened[i].texture
  <2>1. f[i] \in A /\ f[i] = opened[i].texture
    OBVIOUS
  <2>2. ASSUME NEW j \in Image \ {i} PROVE t # img[j].texture
    <3>1. f[j] \in A /\ f[j] = img[j].texture
      OBVIOUS
    <3>2. QED
      BY <1>3, <3>1
  <2>3. QED
    BY <1>3, <2>1, <2>2 DEF Addresses
<1>5. (CHOOSE x \in Addresses(i): x # opened[i].texture) \in Addresses(i)
  BY <1>4
<1>6. QED
  BY <1>5 DEF NewAddress, Addresses

\* What the operations write to an image is an image.
LEMMA SlotDrawn ==
  ASSUME NEW m \in Slots, NEW p \in Pictures
  PROVE  /\ [m EXCEPT !.blank = FALSE, !.picture = p] \in Slots
         /\ [m EXCEPT !.blank = FALSE, !.picture = p].picture = p
         /\ [m EXCEPT !.blank = FALSE, !.picture = p].texture = m.texture
         /\ [m EXCEPT !.blank = FALSE, !.picture = p].dummy = m.dummy
BY DEF Slots

LEMMA PictureTypes ==
  /\ Black \in Pictures /\ Absent \in Slots /\ Absent.picture = Black /\ Black.desk = 0
  /\ Closed \in Views /\ Closed.picture = Black /\ Absent.texture = 0
  /\ \A d \in 0..MaxDesk, c \in 0..MaxCursor: [desk |-> d, cursor |-> c] \in Pictures
  /\ \A d \in 0..MaxDesk: Plain(d) \in Pictures
<1>1. 0 \in 0..MaxDesk /\ 0 \in 0..MaxCursor
  BY SnapshotAssumption
<1>2. QED
  BY <1>1 DEF Black, Absent, Closed, Pictures, Slots, Views, Plain

\* The image after complete_img has a texture of the kind that was asked for.
LEMMA CompletedTypes ==
  ASSUME SnapTypes, NEW i \in Image, NEW d \in BOOLEAN, NEW new \in Completed(i, d)
  PROVE  new \in Slots /\ new.texture # 0 /\ new.dummy = d
<1>1. img[i] \in Slots
  BY DEF SnapTypes
<1>2. CASE ~Replaces(i, d)
  BY <1>1, <1>2 DEF Completed, Replaces
<1>3. CASE Replaces(i, d)
  <2>1. PICK t \in NewAddress(i): new = [img[i] EXCEPT !.alloc = TRUE, !.texture = t,
                                                      !.dummy = d, !.picture = Black]
    BY <1>3 DEF Completed
  <2>2. t \in Texture /\ t # 0
    BY <2>1, FreshTexture, SnapshotAssumption
  <2>3. Black \in Pictures
    BY PictureTypes
  <2>4. QED
    BY <1>1, <2>1, <2>2, <2>3 DEF Slots
<1>4. QED
  BY <1>2, <1>3

LEMMA OutlivedTypes ==
  ASSUME SnapTypes, NEW i \in Image
  PROVE  Outlived(i) \in Views
<1>1. opened[i] \in Views /\ img[i].picture \in Pictures
  BY DEF SnapTypes, Slots
<1>2. QED
  BY <1>1 DEF Outlived, Views

\* Nothing that the encoder keeps of a replaced texture shows a desktop: only a
\* dummy is replaced, and real images exist only once the format is known.
StaleInv ==
  /\ \A i \in Image: opened[i].picture.desk = 0
  /\ \A i \in Image: img[i].dummy \/ img[i].texture = 0 => img[i].picture.desk = 0
  /\ ~format => \A i \in Image: img[i].dummy \/ img[i].texture = 0

\* A drawing puts its picture in the image, and leaves the images in use alone.
LEMMA DrawTypes ==
  ASSUME SnapTypes, NEW i \in Image, NEW d \in BOOLEAN, NEW p \in Pictures, Draw(i, d, p)
  PROVE  /\ img' \in [Image -> Slots] /\ opened' \in [Image -> Views]
         /\ img'[i].picture = p
         /\ \A j \in Image: j # i /\ InUse(j) => img'[j].picture = img[j].picture
<1>1. PICK new \in Completed(i, d), trim \in {{}, {j \in Image \ {i}: ~InUse(j)}}:
        /\ img' = [j \in Image |->
             IF j = i THEN [new EXCEPT !.blank = FALSE, !.picture = p]
             ELSE IF j \in trim THEN Absent ELSE img[j]]
        /\ opened' = [j \in Image |->
             IF j \in trim \/ (j = i /\ ~img[i].alloc) THEN Closed
             ELSE IF j = i /\ Replaces(i, d) THEN Outlived(i) ELSE opened[j]]
  BY DEF Draw
<1>2. new \in Slots
  BY <1>1, CompletedTypes
<1>3. opened' \in [Image -> Views]
  <2>1. Outlived(i) \in Views /\ Closed \in Views
    BY OutlivedTypes, PictureTypes
  <2>2. QED
    BY <1>1, <2>1 DEF SnapTypes
<1>4. \A j \in Image: j # i /\ InUse(j) => img'[j].picture = img[j].picture
  BY <1>1
<1>5. img' \in [Image -> Slots] /\ img'[i].picture = p
  <2>1. /\ [new EXCEPT !.blank = FALSE, !.picture = p] \in Slots
        /\ [new EXCEPT !.blank = FALSE, !.picture = p].picture = p
    BY <1>2, SlotDrawn
  <2>2. QED
    BY <1>1, <2>1, PictureTypes DEF SnapTypes
<1>6. QED
  BY <1>3, <1>4, <1>5

\* A dummy is drawn without a desktop, and only while the format is not known.
LEMMA DrawStale ==
  ASSUME SnapTypes, StaleInv, NEW i \in Image, NEW d \in BOOLEAN, NEW p \in Pictures,
         Draw(i, d, p), format' = format, IF format THEN ~d ELSE d /\ p.desk = 0
  PROVE  StaleInv'
<1>1. PICK new \in Completed(i, d), trim \in {{}, {j \in Image \ {i}: ~InUse(j)}}:
        /\ img' = [j \in Image |->
             IF j = i THEN [new EXCEPT !.blank = FALSE, !.picture = p]
             ELSE IF j \in trim THEN Absent ELSE img[j]]
        /\ opened' = [j \in Image |->
             IF j \in trim \/ (j = i /\ ~img[i].alloc) THEN Closed
             ELSE IF j = i /\ Replaces(i, d) THEN Outlived(i) ELSE opened[j]]
  BY DEF Draw
<1>2. new \in Slots /\ new.texture # 0 /\ new.dummy = d
  BY <1>1, CompletedTypes
<1>3. /\ img'[i].dummy = d /\ img'[i].texture # 0 /\ img'[i].picture = p
  <2>1. /\ [new EXCEPT !.blank = FALSE, !.picture = p].picture = p
        /\ [new EXCEPT !.blank = FALSE, !.picture = p].texture = new.texture
        /\ [new EXCEPT !.blank = FALSE, !.picture = p].dummy = new.dummy
    BY <1>2, SlotDrawn
  <2>2. QED
    BY <1>1, <1>2, <2>1
<1>4. ASSUME NEW j \in Image, j # i
      PROVE  \/ img'[j] = img[j] /\ opened'[j] = opened[j]
             \/ img'[j] = Absent /\ opened'[j] = Closed
  BY <1>1, <1>4
<1>5. /\ Absent.picture.desk = 0 /\ Absent.texture = 0 /\ Closed.picture.desk = 0
  BY PictureTypes
<1>6. opened'[i].picture.desk = 0
  <2>1. CASE Replaces(i, d) /\ opened'[i] = Outlived(i)
    <3>1. img[i].picture.desk = 0 /\ opened[i].picture.desk = 0
      <4>1. CASE format
        BY <2>1, <4>1 DEF StaleInv, Replaces, SnapTypes, Slots
      <4>2. CASE ~format
        BY <4>2 DEF StaleInv
      <4>3. QED
        BY <4>1, <4>2
    <3>2. Outlived(i).picture \in {img[i].picture, opened[i].picture}
      <4>1. opened[i] \in Views
        BY DEF SnapTypes
      <4>2. QED
        BY <4>1 DEF Outlived, Views
    <3>3. QED
      BY <2>1, <3>1, <3>2
  <2>2. CASE opened'[i] = opened[i]
    BY <2>2 DEF StaleInv
  <2>3. CASE opened'[i] = Closed
    BY <1>5, <2>3
  <2>4. QED
    BY <1>1, <2>1, <2>2, <2>3
<1>7. \A j \in Image: opened'[j].picture.desk = 0
  BY <1>4, <1>5, <1>6 DEF StaleInv
<1>8. \A j \in Image: img'[j].dummy \/ img'[j].texture = 0 => img'[j].picture.desk = 0
  <2>1. img'[i].dummy \/ img'[i].texture = 0 => img'[i].picture.desk = 0
    BY <1>3
  <2>2. QED
    BY <1>4, <1>5, <2>1 DEF StaleInv
<1>9. ~format' => \A j \in Image: img'[j].dummy \/ img'[j].texture = 0
  BY <1>3, <1>4, <1>5 DEF StaleInv
<1>10. QED
  BY <1>7, <1>8, <1>9 DEF StaleInv

LEMMA SnapTypesInit == SnapInit => SnapTypes
<1> SUFFICES ASSUME SnapInit PROVE SnapTypes
  OBVIOUS
<1>1. 0 \in 0..MaxDesk /\ 0 \in 0..MaxCursor
  BY SnapshotAssumption
<1>2. /\ cursor \in [version: 0..MaxCursor, visible: BOOLEAN]
      /\ seen \in [desk: 0..MaxDesk, cursor: 0..MaxCursor, src: BOOLEAN, blend: BOOLEAN]
  BY <1>1, Zenon DEF SnapInit, Nothing
<1>3. desk \in 0..MaxDesk /\ surface \in 0..MaxDesk /\ newest \in 0..MaxDesk
  BY <1>1 DEF SnapInit
<1>4. QED
  BY <1>2, <1>3, PictureTypes DEF SnapInit, SnapTypes, Empty

LEMMA SnapTypesNext ==
  ASSUME SnapTypes, [SnapNext]_snapVars
  PROVE  SnapTypes'
<1> USE DEF deskVars, lastVars, callVars, readVars
<1>1. CASE Present
  <2>1. desk' \in 0..MaxDesk
    BY <1>1, SnapshotAssumption DEF Present, SnapTypes
  <2>2. pending' \in [frame: BOOLEAN, mouse: BOOLEAN]
    BY <1>1 DEF Present, SnapTypes
  <2>3. QED
    BY <1>1, <2>1, <2>2 DEF Present, SnapTypes
<1>2. CASE MoveCursor
  <2>1. PICK v \in BOOLEAN: cursor' = [version |-> cursor.version + 1, visible |-> v]
    BY <1>2 DEF MoveCursor
  <2>2. cursor.version + 1 \in 0..MaxCursor
    BY <1>2, SnapshotAssumption DEF MoveCursor, SnapTypes
  <2>3. cursor' \in [version: 0..MaxCursor, visible: BOOLEAN]
    BY <2>1, <2>2, Zenon
  <2>4. pending' \in [frame: BOOLEAN, mouse: BOOLEAN]
    BY <1>2 DEF MoveCursor, SnapTypes
  <2>5. QED
    BY <1>2, <2>3, <2>4 DEF MoveCursor, SnapTypes
<1>3. CASE ToggleCursor
  BY <1>3 DEF ToggleCursor, SnapTypes
<1>4. CASE NextFrame
  <2>1. /\ seen'.desk \in 0..MaxDesk /\ seen'.cursor \in 0..MaxCursor
        /\ seen'.src \in BOOLEAN /\ seen'.blend \in BOOLEAN
        /\ seen' = [desk |-> seen'.desk, cursor |-> seen'.cursor, src |-> seen'.src,
                     blend |-> seen'.blend]
    BY <1>4 DEF NextFrame, SnapTypes
  <2>2. seen' \in [desk: 0..MaxDesk, cursor: 0..MaxCursor, src: BOOLEAN, blend: BOOLEAN]
    BY <2>1, Zenon
  <2>3. QED
    BY <1>4, <2>2 DEF NextFrame, SnapTypes
<1>5. CASE Reinit
  <2>1. seen' \in [desk: 0..MaxDesk, cursor: 0..MaxCursor, src: BOOLEAN, blend: BOOLEAN]
    <3>1. 0 \in 0..MaxDesk /\ 0 \in 0..MaxCursor
      BY SnapshotAssumption
    <3>2. QED
      BY <1>5, <3>1, Zenon DEF Reinit, Nothing
  <2>2. surface' \in 0..MaxDesk /\ newest' \in 0..MaxDesk
    BY <1>5, SnapshotAssumption DEF Reinit
  <2>3. QED
    BY <1>5, <2>1, <2>2, PictureTypes DEF Reinit, SnapTypes, Empty
<1>6. CASE LastFrame
  <2>1. UNCHANGED <<deskVars, format, out, seen, slot, held, shown, newest>> /\ snapPc' = "out"
    BY <1>6 DEF LastFrame
  <2>2. CASE KeepLast
    BY <2>1, <2>2 DEF KeepLast, SnapTypes
  <2>3. CASE SurfaceToImage
    <3>1. PICK i \in Image: Draw(i, FALSE, Plain(surface)) /\ AsImage(i) /\ UNCHANGED surface
      BY <2>3 DEF SurfaceToImage
    <3>2. Plain(surface) \in Pictures
      BY PictureTypes DEF SnapTypes
    <3>3. QED
      BY <2>1, <3>1, <3>2, DrawTypes DEF SnapTypes, AsImage
  <2>4. CASE ImageToSurface
    <3>1. surface' \in 0..MaxDesk
      BY <2>4 DEF ImageToSurface, SnapTypes, Slots, Pictures
    <3>2. QED
      BY <2>1, <2>4, <3>1 DEF ImageToSurface, SnapTypes, AsSurface
  <2>5. CASE SrcToImage
    <3>1. PICK i \in Image: Draw(i, FALSE, Plain(seen.desk)) /\ AsImage(i) /\ UNCHANGED surface
      BY <2>5 DEF SrcToImage
    <3>2. Plain(seen.desk) \in Pictures
      BY PictureTypes DEF SnapTypes
    <3>3. QED
      BY <2>1, <3>1, <3>2, DrawTypes DEF SnapTypes, AsImage
  <2>6. CASE SrcToSurface
    BY <2>1, <2>6 DEF SrcToSurface, SnapTypes, AsSurface
  <2>7. QED
    BY <1>6, <2>2, <2>3, <2>4, <2>5, <2>6 DEF LastFrame
<1>7. CASE OutFrame
  <2>1. UNCHANGED <<deskVars, lastVars, seen, slot, held, shown, newest>>
    BY <1>7 DEF OutFrame
  <2>2. CASE ForwardLast
    BY <2>1, <2>2 DEF ForwardLast, SnapTypes
  <2>3. CASE BlendCursor
    <3>1. PICK i \in Image:
            /\ out' = i /\ Draw(i, FALSE, [desk |-> surface, cursor |-> seen.cursor])
            /\ snapPc' = "push"
      BY <2>3 DEF BlendCursor
    <3>2. [desk |-> surface, cursor |-> seen.cursor] \in Pictures
      BY PictureTypes DEF SnapTypes
    <3>3. img' \in [Image -> Slots] /\ opened' \in [Image -> Views]
      BY <3>1, <3>2, DrawTypes
    <3>4. QED
      BY <2>1, <3>1, <3>3 DEF SnapTypes
  <2>4. CASE DummyFallback
    <3>1. PICK i \in Image:
            /\ out' = i
            /\ Draw(i, TRUE, [desk |-> 0, cursor |-> IF seen.blend THEN seen.cursor ELSE 0])
            /\ snapPc' = "push"
      BY <2>4 DEF DummyFallback
    <3>2. [desk |-> 0, cursor |-> IF seen.blend THEN seen.cursor ELSE 0] \in Pictures
      BY PictureTypes, SnapshotAssumption DEF SnapTypes
    <3>3. img' \in [Image -> Slots] /\ opened' \in [Image -> Views]
      BY <3>1, <3>2, DrawTypes
    <3>4. QED
      BY <2>1, <3>1, <3>3 DEF SnapTypes
  <2>5. CASE LogicalError
    BY <2>1, <2>5 DEF LogicalError, SnapTypes
  <2>6. QED
    BY <1>7, <2>2, <2>3, <2>4, <2>5 DEF OutFrame
<1>8. CASE PushFrame
  BY <1>8 DEF PushFrame, SnapTypes
<1>9. CASE TakeImage
  BY <1>9 DEF TakeImage, SnapTypes
<1>10. CASE Convert
  <2>1. held \in Image /\ img[held] \in Slots
    BY <1>10 DEF Convert, SnapTypes
  <2>2. /\ img[held].texture \in Texture \cup {0} /\ img[held].picture \in Pictures
        /\ opened[held] \in Views
    BY <2>1 DEF Slots, SnapTypes
  <2>3. OpenedTexture(held) \in Views
    BY <2>2, PictureTypes DEF OpenedTexture, Views
  <2>4. shown' \in Pictures
    BY <1>10, <2>2 DEF Convert, Views
  <2>5. newest' \in 0..MaxDesk
    BY <1>10, <2>4 DEF Convert, Pictures, SnapTypes
  <2>6. QED
    BY <1>10, <2>1, <2>3, <2>4, <2>5 DEF Convert, SnapTypes
<1>11. CASE UNCHANGED snapVars
  BY <1>11 DEF snapVars, SnapTypes
<1>12. QED
  BY <1>1, <1>2, <1>3, <1>4, <1>5, <1>6, <1>7, <1>8, <1>9, <1>10, <1>11 DEF SnapNext

\* The version of the desktop in an image.
DeskOf(i) == img[i].picture.desk

\* The last frame, in whichever form it was kept, is the desktop that was seen.
LastCurrent ==
  /\ last.kind = "image" => img[last.image].picture = Plain(seen.desk)
  /\ last.kind = "surface" => surface = seen.desk

\* Outside of a call that brings a new frame the last frame is the current one.
LastInv ==
  /\ ~format => last.kind = "none" /\ seen.desk = 0
  /\ snapPc = "last" /\ seen.src => format
  /\ ~(snapPc = "last" /\ seen.src) => LastCurrent
  /\ format /\ ~(snapPc = "last" /\ seen.src) => last.kind # "none"

\* At each point of snapshot the actions are the ones chosen for what was seen, and
\* what is pushed at its end is the desktop, with the cursor where it is blended.
TodoInv ==
  /\ snapPc = "last" => todo = Actions(seen.src, seen.blend, format)
  /\ snapPc = "out" =>
       /\ todo.out = IF ~format THEN "dummy" ELSE IF seen.blend THEN "blend" ELSE "forward"
       /\ format => last.kind = IF seen.blend THEN "surface" ELSE "image"
  /\ snapPc # "error"
  /\ snapPc # "push" => out = NoImage
  /\ snapPc = "push" =>
       /\ out \in Image
       /\ img[out].picture = [desk   |-> seen.desk,
                              cursor |-> IF seen.blend THEN seen.cursor ELSE 0]

\* From the newest one the encoder showed over the image that it reads, the one that waits, and what was
\* seen to the desktop no version is smaller than the one before.
SnapOrderInv ==
  /\ newest <= seen.desk /\ seen.desk <= desk
  /\ \A i \in Image \cap {held, slot}: newest <= DeskOf(i) /\ DeskOf(i) <= seen.desk
  /\ held \in Image /\ slot \in Image => DeskOf(held) <= DeskOf(slot)

\* Only an image that nobody waits for or reads is drawn on.
WaitingKept ==
  \A i \in Image: i \in {slot, held} /\ i \in {slot', held'}
    => img'[i].picture = img[i].picture

LEMMA DeskTypes ==
  SnapTypes => /\ desk \in Nat /\ seen.desk \in Nat /\ newest \in Nat
               /\ \A i \in Image: DeskOf(i) \in Nat
BY SnapshotAssumption DEF SnapTypes, Slots, Pictures, DeskOf

\* A step that draws on no waiting image keeps the order.
LEMMA OrderKept ==
  ASSUME SnapOrderInv, UNCHANGED <<desk, seen, newest, held, slot>>, WaitingKept
  PROVE  SnapOrderInv'
<1>1. \A i \in Image \cap {held, slot}: DeskOf(i)' = DeskOf(i)
  BY DEF WaitingKept, DeskOf
<1>2. (newest <= seen.desk /\ seen.desk <= desk)'
  BY DEF SnapOrderInv
<1>3. (\A i \in Image \cap {held, slot}: newest <= DeskOf(i) /\ DeskOf(i) <= seen.desk)'
  BY <1>1 DEF SnapOrderInv
<1>4. (held \in Image /\ slot \in Image => DeskOf(held) <= DeskOf(slot))'
  BY <1>1 DEF SnapOrderInv, DeskOf
<1>5. QED
  BY <1>2, <1>3, <1>4 DEF SnapOrderInv

\* last_frame_action leaves the last frame in the form that out_frame_action
\* expects, with the desktop that was seen.
LEMMA LastFrameLeaves ==
  ASSUME SnapTypes, LastInv, TodoInv, LastFrame
  PROVE  /\ LastCurrent' /\ WaitingKept
         /\ ~format => last'.kind = "none"
         /\ format => last'.kind = IF seen.blend THEN "surface" ELSE "image"
         /\ todo.out = IF ~format THEN "dummy" ELSE IF seen.blend THEN "blend" ELSE "forward"
<1>1. /\ todo = Actions(seen.src, seen.blend, format) /\ snapPc = "last"
      /\ UNCHANGED <<format, seen, slot, held>>
      /\ seen.src \in BOOLEAN /\ seen.blend \in BOOLEAN /\ format \in BOOLEAN
      /\ Plain(seen.desk) \in Pictures /\ Plain(surface) \in Pictures
  BY PictureTypes DEF LastFrame, TodoInv, SnapTypes
<1>0. UNCHANGED <<seen, slot, held>>
  BY <1>1
<1>2. \A i \in Image, p \in Pictures:
        Draw(i, FALSE, p) /\ i \notin {slot, held} =>
          WaitingKept /\ img'[i].picture = p
  BY <1>1, DrawTypes DEF WaitingKept, InUse
<1>3. CASE ~format
  <2>1. ~seen.src /\ todo = [last |-> "nothing", out |-> "dummy"] /\ last.kind = "none"
    BY <1>1, <1>3 DEF LastInv, Actions
  <2>2. KeepLast
    BY <2>1 DEF LastFrame, SurfaceToImage, ImageToSurface, SrcToImage, SrcToSurface
  <2>3. UNCHANGED <<last, surface, img>>
    BY <2>2 DEF KeepLast
  <2>4. QED
    BY <1>1, <1>3, <2>1, <2>3 DEF LastCurrent, WaitingKept
<1>4. CASE format /\ seen.src /\ seen.blend
  <2>1. todo = [last |-> "srcToSurface", out |-> "blend"]
    BY <1>1, <1>4 DEF Actions
  <2>2. SrcToSurface
    BY <2>1 DEF LastFrame, SurfaceToImage, ImageToSurface, SrcToImage, KeepLast
  <2>3. surface' = seen.desk /\ last'.kind = "surface" /\ img' = img
    BY <2>2 DEF SrcToSurface, AsSurface
  <2>4. LastCurrent' /\ WaitingKept
    BY <1>0, <2>3 DEF LastCurrent, WaitingKept
  <2>5. QED
    BY <1>4, <2>1, <2>3, <2>4
<1>5. CASE format /\ seen.src /\ ~seen.blend
  <2>1. todo = [last |-> "srcToImage", out |-> "forward"]
    BY <1>1, <1>5 DEF Actions
  <2>2. SrcToImage
    BY <2>1 DEF LastFrame, SurfaceToImage, ImageToSurface, SrcToSurface, KeepLast
  <2>3. PICK i \in Image: /\ Draw(i, FALSE, Plain(seen.desk)) /\ AsImage(i)
                          /\ i \notin {slot, held}
    BY <2>2 DEF SrcToImage, Free, InUse
  <2>4. WaitingKept /\ img'[i].picture = Plain(seen.desk)
    BY <1>1, <1>2, <2>3
  <2>5. last'.kind = "image" /\ LastCurrent'
    BY <1>0, <2>3, <2>4 DEF AsImage, LastCurrent
  <2>6. QED
    BY <1>5, <2>1, <2>4, <2>5
<1>6. CASE format /\ ~seen.src
  <2>1. /\ last.kind \in {"image", "surface"} /\ LastCurrent
        /\ last.kind = "image" => last.image \in Image
    BY <1>6 DEF LastInv, SnapTypes
  <2>2. CASE seen.blend /\ last.kind = "image"
    <3>1. todo = [last |-> "imageToSurface", out |-> "blend"]
      BY <1>1, <1>6, <2>2 DEF Actions
    <3>2. ImageToSurface
      BY <3>1 DEF LastFrame, SurfaceToImage, SrcToImage, SrcToSurface, KeepLast
    <3>3. surface' = seen.desk /\ last'.kind = "surface" /\ img' = img
      BY <2>1, <2>2, <3>2 DEF ImageToSurface, AsSurface, LastCurrent, Plain
    <3>4. LastCurrent' /\ WaitingKept
      BY <1>0, <3>3 DEF LastCurrent, WaitingKept
    <3>5. QED
      BY <1>6, <2>2, <3>1, <3>3, <3>4
  <2>3. CASE ~seen.blend /\ last.kind = "surface"
    <3>1. todo = [last |-> "surfaceToImage", out |-> "forward"]
      BY <1>1, <1>6, <2>3 DEF Actions
    <3>2. SurfaceToImage
      BY <3>1 DEF LastFrame, ImageToSurface, SrcToImage, SrcToSurface, KeepLast
    <3>3. PICK i \in Image: /\ Draw(i, FALSE, Plain(seen.desk)) /\ AsImage(i)
                            /\ i \notin {slot, held}
      BY <2>1, <2>3, <3>2 DEF SurfaceToImage, Free, InUse, LastCurrent
    <3>4. WaitingKept /\ img'[i].picture = Plain(seen.desk)
      BY <1>1, <1>2, <3>3
    <3>5. last'.kind = "image" /\ LastCurrent'
      BY <1>0, <3>3, <3>4 DEF AsImage, LastCurrent
    <3>6. QED
      BY <1>6, <2>3, <3>1, <3>4, <3>5
  <2>4. CASE (seen.blend /\ last.kind = "surface") \/ (~seen.blend /\ last.kind = "image")
    <3>1. todo = [last |-> "nothing", out |-> IF seen.blend THEN "blend" ELSE "forward"]
      BY <1>1, <1>6, <2>4 DEF Actions
    <3>2. KeepLast
      BY <3>1 DEF LastFrame, SurfaceToImage, ImageToSurface, SrcToImage, SrcToSurface
    <3>3. UNCHANGED <<last, surface, img>>
      BY <3>2 DEF KeepLast
    <3>4. LastCurrent' /\ WaitingKept
      BY <1>0, <2>1, <3>3 DEF LastCurrent, WaitingKept
    <3>5. QED
      BY <1>6, <2>4, <3>1, <3>3, <3>4
  <2>5. QED
    BY <1>1, <2>1, <2>2, <2>3, <2>4
<1>7. QED
  BY <1>1, <1>3, <1>4, <1>5, <1>6

\* out_frame_action takes none of the error returns, and what it hands on shows
\* the desktop that was seen, and the cursor when it is to be drawn.
LEMMA OutFrameGives ==
  ASSUME SnapTypes, LastInv, TodoInv, OutFrame
  PROVE  /\ LastCurrent' /\ WaitingKept /\ snapPc' = "push" /\ out' \in Image
         /\ img'[out'].picture = [desk   |-> seen.desk,
                                  cursor |-> IF seen.blend THEN seen.cursor ELSE 0]
<1>1. /\ UNCHANGED <<lastVars, seen, slot, held>> /\ snapPc = "out" /\ LastCurrent
      /\ todo.out = IF ~format THEN "dummy" ELSE IF seen.blend THEN "blend" ELSE "forward"
      /\ format => last.kind = IF seen.blend THEN "surface" ELSE "image"
      /\ ~format => seen.desk = 0
      /\ last.kind = "image" => last.image \in Image
  BY DEF OutFrame, TodoInv, LastInv, SnapTypes
<1>2. \A i \in Image, p \in Pictures, d \in BOOLEAN:
        Draw(i, d, p) /\ Free(i) =>
          /\ WaitingKept /\ img'[i].picture = p
          /\ last.kind = "image" => img'[last.image].picture = img[last.image].picture
  BY <1>1, DrawTypes DEF WaitingKept, Free, InUse
<1>3. CASE ~format
  <2>1. todo.out = "dummy"
    BY <1>1, <1>3
  <2>2. PICK i \in Image:
          /\ Free(i) /\ out' = i /\ snapPc' = "push"
          /\ Draw(i, TRUE, [desk |-> 0, cursor |-> IF seen.blend THEN seen.cursor ELSE 0])
    BY <2>1 DEF OutFrame, ForwardLast, BlendCursor, DummyFallback, LogicalError
  <2>3. [desk |-> 0, cursor |-> IF seen.blend THEN seen.cursor ELSE 0] \in Pictures
    BY PictureTypes, SnapshotAssumption DEF SnapTypes
  <2>4. QED
    BY <1>1, <1>2, <1>3, <2>2, <2>3 DEF LastCurrent, lastVars
<1>4. CASE format /\ seen.blend
  <2>1. todo.out = "blend" /\ last.kind = "surface" /\ surface = seen.desk
    BY <1>1, <1>4 DEF LastCurrent
  <2>2. PICK i \in Image:
          /\ Free(i) /\ out' = i /\ snapPc' = "push"
          /\ Draw(i, FALSE, [desk |-> surface, cursor |-> seen.cursor])
    BY <1>4, <2>1 DEF OutFrame, ForwardLast, BlendCursor, DummyFallback, LogicalError
  <2>3. [desk |-> surface, cursor |-> seen.cursor] \in Pictures
    BY PictureTypes DEF SnapTypes
  <2>4. QED
    BY <1>1, <1>2, <1>4, <2>1, <2>2, <2>3 DEF LastCurrent, lastVars
<1>5. CASE format /\ ~seen.blend
  <2>1. todo.out = "forward" /\ last.kind = "image"
    BY <1>1, <1>5
  <2>2. out' = last.image /\ img' = img /\ snapPc' = "push"
    BY <2>1 DEF OutFrame, ForwardLast, BlendCursor, DummyFallback, LogicalError
  <2>3. QED
    BY <1>1, <1>5, <2>1, <2>2 DEF LastCurrent, lastVars, WaitingKept, Plain
<1>6. QED
  BY <1>3, <1>4, <1>5 DEF SnapTypes

\* snapshot draws a dummy only while the format is not known.
LEMMA LastFrameStale ==
  ASSUME SnapTypes, StaleInv, TodoInv, LastFrame
  PROVE  StaleInv'
<1>1. /\ format' = format /\ todo = Actions(seen.src, seen.blend, format)
      /\ format \in BOOLEAN /\ Plain(seen.desk) \in Pictures /\ Plain(surface) \in Pictures
  BY PictureTypes DEF LastFrame, TodoInv, SnapTypes
<1>2. CASE KeepLast \/ ImageToSurface \/ SrcToSurface
  BY <1>1, <1>2 DEF KeepLast, ImageToSurface, SrcToSurface, StaleInv
<1>3. CASE SurfaceToImage \/ SrcToImage
  <2>1. PICK i \in Image, p \in Pictures: Draw(i, FALSE, p)
    BY <1>1, <1>3 DEF SurfaceToImage, SrcToImage
  <2>2. format
    BY <1>1, <1>3 DEF Actions, SurfaceToImage, SrcToImage
  <2>3. QED
    BY <1>1, <2>1, <2>2, DrawStale
<1>4. QED
  BY <1>2, <1>3 DEF LastFrame

LEMMA OutFrameStale ==
  ASSUME SnapTypes, StaleInv, TodoInv, OutFrame
  PROVE  StaleInv'
<1>1. /\ format' = format /\ format \in BOOLEAN
      /\ todo.out = IF ~format THEN "dummy" ELSE IF seen.blend THEN "blend" ELSE "forward"
  BY DEF OutFrame, TodoInv, SnapTypes, lastVars
<1>2. CASE ForwardLast \/ LogicalError
  BY <1>1, <1>2 DEF ForwardLast, LogicalError, StaleInv
<1>3. CASE BlendCursor
  <2>1. PICK i \in Image: Draw(i, FALSE, [desk |-> surface, cursor |-> seen.cursor])
    BY <1>3 DEF BlendCursor
  <2>2. [desk |-> surface, cursor |-> seen.cursor] \in Pictures
    BY PictureTypes DEF SnapTypes
  <2>3. format
    BY <1>1, <1>3 DEF BlendCursor
  <2>4. QED
    BY <1>1, <2>1, <2>2, <2>3, DrawStale
<1>4. CASE DummyFallback
  <2>1. PICK i \in Image:
          Draw(i, TRUE, [desk |-> 0, cursor |-> IF seen.blend THEN seen.cursor ELSE 0])
    BY <1>4 DEF DummyFallback
  <2>2. [desk |-> 0, cursor |-> IF seen.blend THEN seen.cursor ELSE 0] \in Pictures
    BY PictureTypes, SnapshotAssumption DEF SnapTypes
  <2>3. ~format
    BY <1>1, <1>4 DEF DummyFallback
  <2>4. QED
    BY <1>1, <2>1, <2>2, <2>3, DrawStale
<1>5. QED
  BY <1>2, <1>3, <1>4 DEF OutFrame

\* The invariant of the capture.
SnapInv == LastInv /\ TodoInv /\ SnapOrderInv /\ StaleInv

LEMMA SnapInvInit == SnapInit => SnapInv
<1> SUFFICES ASSUME SnapInit PROVE SnapInv
  OBVIOUS
<1>1. LastInv /\ TodoInv
  BY DEF SnapInit, LastInv, TodoInv, LastCurrent, Empty, Nothing
<1>2. SnapOrderInv
  BY SnapshotAssumption DEF SnapInit, SnapOrderInv, Nothing
<1>3. StaleInv
  BY PictureTypes DEF SnapInit, StaleInv
<1>4. QED
  BY <1>1, <1>2, <1>3 DEF SnapInv

\* What every step promises.
SnapStep ==
  /\ WaitingKept
  /\ held # NoImage /\ held' = NoImage =>
       shown'.desk >= newest \/ (ReusedAddress(held) /\ shown'.desk = 0)

LEMMA SnapInvNext ==
  ASSUME SnapTypes, SnapInv, [SnapNext]_snapVars
  PROVE  SnapInv' /\ SnapStep
<1> USE DEF SnapInv, deskVars, lastVars, callVars, readVars
<1>0. LastInv /\ TodoInv /\ SnapOrderInv /\ StaleInv
  OBVIOUS
<1>1. ASSUME UNCHANGED <<lastVars, img, callVars, readVars>>, desk' \in Nat, desk' >= desk
      PROVE  SnapInv' /\ SnapStep
  <2>1. LastInv' /\ TodoInv'
    BY <1>0, <1>1 DEF LastInv, TodoInv, LastCurrent, Actions
  <2>2. SnapOrderInv'
    <3>1. seen.desk <= desk' /\ newest <= seen.desk
      BY <1>0, <1>1, DeskTypes DEF SnapOrderInv
    <3>2. QED
      BY <1>0, <1>1, <3>1 DEF SnapOrderInv, DeskOf
  <2>3. SnapStep /\ StaleInv'
    BY <1>0, <1>1 DEF SnapStep, WaitingKept, StaleInv
  <2>4. QED
    BY <2>1, <2>2, <2>3
<1>2. CASE Present
  <2>1. desk' \in Nat /\ desk' >= desk
    BY <1>2, DeskTypes DEF Present
  <2>2. QED
    BY <1>1, <1>2, <2>1 DEF Present
<1>3. CASE MoveCursor \/ ToggleCursor \/ UNCHANGED snapVars
  <2>1. desk' \in Nat /\ desk' >= desk
    BY <1>3, DeskTypes DEF MoveCursor, ToggleCursor, snapVars
  <2>2. QED
    BY <1>1, <1>3, <2>1 DEF MoveCursor, ToggleCursor, snapVars
<1>4. CASE NextFrame
  <2>1. /\ snapPc = "next" /\ snapPc' = "last"
        /\ UNCHANGED <<desk, last, surface, img, out, slot, held, opened, newest>>
        /\ seen'.desk = IF pending.frame THEN desk ELSE seen.desk
        /\ seen'.src = pending.frame
        /\ format' = (format \/ pending.frame)
        /\ todo' = Actions(seen'.src, seen'.blend, format')
    BY <1>4 DEF NextFrame
  <2>2. LastInv'
    <3>1. LastCurrent /\ (format => last.kind # "none") /\ (~format => last.kind = "none" /\ seen.desk = 0)
      BY <1>0, <2>1 DEF LastInv
    <3>2. CASE pending.frame
      BY <2>1, <3>1, <3>2 DEF LastInv
    <3>3. CASE ~pending.frame
      <4>1. seen'.desk = seen.desk /\ ~seen'.src /\ (format' <=> format)
        BY <2>1, <3>3
      <4>2. LastCurrent'
        BY <2>1, <3>1, <4>1 DEF LastCurrent, Plain
      <4>3. QED
        BY <2>1, <3>1, <4>1, <4>2 DEF LastInv
    <3>4. QED
      BY <3>2, <3>3
  <2>3. TodoInv'
    BY <1>0, <2>1 DEF TodoInv, Actions
  <2>4. SnapOrderInv'
    <3>1. seen.desk <= seen'.desk /\ seen'.desk <= desk /\ seen'.desk \in Nat
      BY <1>0, <2>1, DeskTypes DEF SnapOrderInv
    <3>2. (newest <= seen.desk /\ seen.desk <= desk)'
      BY <1>0, <2>1, <3>1, DeskTypes DEF SnapOrderInv
    <3>3. \A i \in Image \cap {held, slot}: newest <= DeskOf(i) /\ DeskOf(i) <= seen'.desk
      BY <1>0, <3>1, DeskTypes DEF SnapOrderInv
    <3>4. (\A i \in Image \cap {held, slot}: newest <= DeskOf(i) /\ DeskOf(i) <= seen.desk)'
      BY <2>1, <3>3 DEF DeskOf
    <3>5. (held \in Image /\ slot \in Image => DeskOf(held) <= DeskOf(slot))'
      BY <1>0, <2>1 DEF SnapOrderInv, DeskOf
    <3>6. QED
      BY <3>2, <3>4, <3>5 DEF SnapOrderInv
  <2>5. SnapStep /\ StaleInv'
    BY <1>0, <2>1 DEF SnapStep, WaitingKept, StaleInv
  <2>6. QED
    BY <2>2, <2>3, <2>4, <2>5
<1>5. CASE Reinit
  <2>1. /\ format' = FALSE /\ last'.kind = "none" /\ seen'.desk = 0 /\ seen'.src = FALSE
        /\ newest' = 0 /\ slot' = NoImage /\ held = NoImage /\ held' = NoImage
        /\ snapPc = "next" /\ snapPc' = "next" /\ out' = out /\ desk' = desk
    BY <1>5 DEF Reinit, Empty, Nothing
  <2>2. LastInv' /\ TodoInv'
    BY <1>0, <2>1 DEF LastInv, TodoInv, LastCurrent
  <2>3. SnapOrderInv' /\ SnapStep
    BY <2>1, DeskTypes, SnapshotAssumption DEF SnapOrderInv, SnapStep, WaitingKept
  <2>4. StaleInv'
    BY <1>5, PictureTypes DEF Reinit, StaleInv
  <2>5. QED
    BY <2>2, <2>3, <2>4
<1>6. CASE LastFrame
  <2>1. /\ UNCHANGED <<desk, format, out, seen, todo, slot, held, shown, newest>>
        /\ snapPc = "last" /\ snapPc' = "out"
    BY <1>6 DEF LastFrame
  <2>2. /\ LastCurrent' /\ WaitingKept /\ (~format => last'.kind = "none")
        /\ format => last'.kind = IF seen.blend THEN "surface" ELSE "image"
        /\ todo.out = IF ~format THEN "dummy" ELSE IF seen.blend THEN "blend" ELSE "forward"
    BY <1>0, <1>6, LastFrameLeaves
  <2>3. LastInv'
    BY <1>0, <2>1, <2>2 DEF LastInv
  <2>4. TodoInv'
    BY <1>0, <2>1, <2>2 DEF TodoInv
  <2>5. SnapOrderInv' /\ SnapStep
    BY <1>0, <2>1, <2>2, OrderKept DEF SnapStep
  <2>6. StaleInv'
    BY <1>0, <1>6, LastFrameStale
  <2>7. QED
    BY <2>3, <2>4, <2>5, <2>6
<1>7. CASE OutFrame
  <2>1. UNCHANGED <<desk, lastVars, seen, slot, held, shown, newest>> /\ snapPc = "out"
    BY <1>7 DEF OutFrame
  <2>2. /\ LastCurrent' /\ WaitingKept /\ snapPc' = "push" /\ out' \in Image
        /\ img'[out'].picture = [desk   |-> seen.desk,
                                 cursor |-> IF seen.blend THEN seen.cursor ELSE 0]
    BY <1>0, <1>7, OutFrameGives
  <2>3. LastInv'
    BY <1>0, <2>1, <2>2 DEF LastInv
  <2>4. TodoInv'
    BY <2>1, <2>2 DEF TodoInv
  <2>5. SnapOrderInv' /\ SnapStep
    BY <1>0, <2>1, <2>2, OrderKept DEF SnapStep
  <2>6. StaleInv'
    BY <1>0, <1>7, OutFrameStale
  <2>7. QED
    BY <2>3, <2>4, <2>5, <2>6
<1>8. CASE PushFrame
  <2>1. /\ slot' = out /\ out' = NoImage /\ snapPc = "push" /\ snapPc' = "next"
        /\ UNCHANGED <<desk, lastVars, img, seen, held, opened, newest>>
    BY <1>8 DEF PushFrame
  <2>2. out \in Image /\ DeskOf(out) = seen.desk
    BY <1>0, <2>1 DEF TodoInv, DeskOf
  <2>3. LastInv' /\ TodoInv'
    BY <1>0, <2>1 DEF LastInv, TodoInv, LastCurrent
  <2>4. SnapOrderInv'
    <3>1. \A i \in Image \cap {held, out}: newest <= DeskOf(i) /\ DeskOf(i) <= seen.desk
      BY <1>0, <2>2, DeskTypes DEF SnapOrderInv
    <3>2. held \in Image => DeskOf(held) <= DeskOf(out)
      BY <1>0, <2>2 DEF SnapOrderInv
    <3>3. QED
      BY <1>0, <2>1, <3>1, <3>2 DEF SnapOrderInv, DeskOf
  <2>5. SnapStep /\ StaleInv'
    BY <1>0, <2>1 DEF SnapStep, WaitingKept, StaleInv
  <2>6. QED
    BY <2>3, <2>4, <2>5
<1>9. CASE TakeImage
  <2>1. /\ held = NoImage /\ held' = slot /\ slot' = NoImage /\ slot \in Image
        /\ UNCHANGED <<desk, lastVars, img, callVars, opened, newest>>
    BY <1>9 DEF TakeImage, SnapTypes
  <2>2. LastInv' /\ TodoInv'
    BY <1>0, <2>1 DEF LastInv, TodoInv, LastCurrent, Actions
  <2>3. SnapOrderInv'
    BY <1>0, <2>1, SnapshotAssumption DEF SnapOrderInv, DeskOf
  <2>4. SnapStep /\ StaleInv'
    BY <1>0, <2>1 DEF SnapStep, WaitingKept, StaleInv
  <2>5. QED
    BY <2>2, <2>3, <2>4
<1>10. CASE Convert
  <2>1. /\ held \in Image /\ held' = NoImage
        /\ shown' = IF ReusedAddress(held) THEN opened[held].picture ELSE img[held].picture
        /\ newest' = IF shown'.desk > newest THEN shown'.desk ELSE newest
        /\ opened' = [opened EXCEPT ![held] = OpenedTexture(held)]
        /\ UNCHANGED <<desk, lastVars, img, callVars, slot>>
    BY <1>10 DEF Convert, SnapTypes
  <2>2. LastInv' /\ TodoInv'
    BY <1>0, <2>1 DEF LastInv, TodoInv, LastCurrent, Actions
  <2>3. /\ newest <= DeskOf(held) /\ DeskOf(held) <= seen.desk /\ seen.desk <= desk
        /\ slot \in Image => DeskOf(held) <= DeskOf(slot) /\ DeskOf(slot) <= seen.desk
    BY <1>0, <2>1 DEF SnapOrderInv
  <2>4. shown'.desk = IF ReusedAddress(held) THEN 0 ELSE DeskOf(held)
    BY <1>0, <2>1 DEF StaleInv, DeskOf
  <2>5. newest' <= DeskOf(held)
    BY <2>1, <2>3, <2>4, DeskTypes
  <2>6. SnapOrderInv'
    <3>1. newest' \in Nat
      BY <2>1, <2>4, DeskTypes, SnapshotAssumption
    <3>2. (newest <= seen.desk /\ seen.desk <= desk)'
      BY <2>1, <2>3, <2>5, <3>1, DeskTypes
    <3>3. slot \in Image => newest' <= DeskOf(slot)
      BY <2>1, <2>3, <2>5, <3>1, DeskTypes
    <3>4. QED
      BY <2>1, <2>3, <3>2, <3>3, SnapshotAssumption DEF SnapOrderInv, DeskOf
  <2>7. SnapStep
    <3>1. shown'.desk >= newest \/ (ReusedAddress(held) /\ shown'.desk = 0)
      BY <2>1, <2>3, <2>4, DeskTypes
    <3>2. QED
      BY <2>1, <3>1 DEF SnapStep, WaitingKept
  <2>8. StaleInv'
    <3>1. OpenedTexture(held).picture.desk = 0
      BY <1>0, <2>1, PictureTypes DEF StaleInv, OpenedTexture
    <3>2. \A i \in Image: opened'[i].picture.desk = 0
      BY <1>0, <2>1, <3>1 DEF StaleInv, SnapTypes
    <3>3. QED
      BY <1>0, <2>1, <3>2 DEF StaleInv
  <2>9. QED
    BY <2>2, <2>6, <2>7, <2>8
<1>11. QED
  BY <1>2, <1>3, <1>4, <1>5, <1>6, <1>7, <1>8, <1>9, <1>10 DEF SnapNext

LEMMA SnapInvHolds == SnapSpec => [](SnapTypes /\ SnapInv)
<1>1. SnapInit => SnapTypes /\ SnapInv
  BY SnapTypesInit, SnapInvInit
<1>2. SnapTypes /\ SnapInv /\ [SnapNext]_snapVars => (SnapTypes /\ SnapInv)'
  BY SnapTypesNext, SnapInvNext
<1>3. QED
  BY <1>1, <1>2, PTL DEF SnapSpec

\* The types of the images and of the state of snapshot.
THEOREM SnapTypeCorrect == SnapSpec => []SnapTypeOK
<1>1. SnapTypes => SnapTypeOK
  BY DEF SnapTypes, SnapTypeOK, Slots, Views
<1>2. QED
  BY <1>1, SnapInvHolds, PTL

\* snapshot pushes what it has seen and takes none of its error returns, no image is
\* drawn on while it waits or is read, and no desktop older than one shown before is
\* shown, save the black one of a dummy whose address a real image got, for any number
\* of images and textures.
THEOREM FramesInOrder == SnapSpec => SeenInOrder
<1>1. ASSUME SnapTypes /\ SnapInv, [SnapNext]_snapVars
      PROVE  [/\ snapPc' # "error" /\ ForwardsWhatIsSeen'
              /\ \A i \in Image: i \in {slot, held} /\ i \in {slot', held'}
                   => img'[i].picture = img[i].picture
              /\ held # NoImage /\ held' = NoImage =>
                   shown'.desk >= newest \/ (ReusedAddress(held) /\ shown'.desk = 0)
             ]_snapVars
  <2>1. TodoInv' /\ LastInv' /\ SnapStep
    BY <1>1, SnapInvNext DEF SnapInv
  <2>2. snapPc' # "error" /\ ForwardsWhatIsSeen'
    BY <2>1 DEF TodoInv, LastInv, ForwardsWhatIsSeen
  <2>3. QED
    BY <2>1, <2>2 DEF SnapStep, WaitingKept
<1>2. QED
  BY <1>1, SnapInvHolds, PTL DEF SnapSpec, SeenInOrder
===============================================================================

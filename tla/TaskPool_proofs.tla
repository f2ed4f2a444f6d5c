--------------------------- MODULE TaskPool_proofs ---------------------------
(***************************************************************************)
(* Proofs about TaskPool, for any tasks, workers, delays and bound of the  *)
(* clock, under the calls this repository makes: push, pushDelayed, cancel *)
(* and stop (Calls = {}).                                                  *)
(***************************************************************************)
EXTENDS TaskPool, FiniteSetTheorems, SequenceTheorems, WellFoundedInduction, TLAPS

----------------------------------------------------------------------------
(* Sequences.                                                              *)

LEMMA MinIsLeast ==
  ASSUME NEW S \in SUBSET Nat, S # {}
  PROVE  Min(S) \in S /\ \A x \in S : Min(S) <= x
<1> DEFINE R == {p \in Nat \X Nat : p[1] < p[2]}
<1>1. IsWellFoundedOn(R, Nat)
  BY NatLessThanWellFounded DEF OpToRel
<1> HIDE DEF R
<1>2. PICK m \in S : \A y \in S : ~(<<y, m>> \in R)
  <2>1. S \subseteq Nat /\ S # {}
    OBVIOUS
  <2>2. QED
    BY <1>1, <2>1, WFMin, Zenon
<1>3. \A y \in S : m <= y
  <2> SUFFICES ASSUME NEW y \in S, y < m
               PROVE  FALSE
    OBVIOUS
  <2>1. <<y, m>> \in Nat \X Nat /\ <<y, m>>[1] < <<y, m>>[2]
    OBVIOUS
  <2>2. <<y, m>> \in R
    BY <2>1, Zenon DEF R
  <2>3. QED
    BY <1>2, <2>2
<1>4. QED
  BY <1>3 DEF Min

LEMMA ConcatElements ==
  ASSUME NEW S, NEW s \in Seq(S), NEW u \in Seq(S)
  PROVE  /\ s \o u \in Seq(S) /\ Len(s) \in Nat /\ Len(u) \in Nat
         /\ Len(s \o u) = Len(s) + Len(u)
         /\ \A i \in 1 .. Len(s) : (s \o u)[i] = s[i]
         /\ \A i \in 1 .. Len(u) : (s \o u)[Len(s) + i] = u[i]
<1>1. Len(s) \in Nat /\ Len(u) \in Nat
  BY LenProperties
<1>2. /\ s \o u \in Seq(S)
      /\ Len(s \o u) = Len(s) + Len(u)
      /\ \A i \in 1 .. Len(s) + Len(u) :
           (s \o u)[i] = IF i <= Len(s) THEN s[i] ELSE u[i - Len(s)]
  BY ConcatProperties
<1>3. ASSUME NEW i \in 1 .. Len(u)
      PROVE  (s \o u)[Len(s) + i] = u[i]
  <2>1. /\ Len(s) + i \in 1 .. Len(s) + Len(u) /\ ~(Len(s) + i <= Len(s))
        /\ (Len(s) + i) - Len(s) = i
    BY <1>1
  <2>2. QED
    BY <1>2, <2>1
<1>4. QED
  BY <1>1, <1>2, <1>3

LEMMA InsertAtElements ==
  ASSUME NEW S, NEW s \in Seq(S), NEW k \in 1 .. Len(s) + 1, NEW e \in S
  PROVE  /\ InsertAt(s, k, e) \in Seq(S)
         /\ Len(InsertAt(s, k, e)) = Len(s) + 1
         /\ \A i \in 1 .. Len(s) + 1 :
              InsertAt(s, k, e)[i] = IF i < k THEN s[i] ELSE IF i = k THEN e ELSE s[i - 1]
<1> DEFINE before == SubSeq(s, 1, k - 1)
           behind == SubSeq(s, k, Len(s))
           one == <<e>>
           head == before \o one
<1>0. Len(s) \in Nat /\ \A i \in 1 .. Len(s) : s[i] \in S
  BY ElementOfSeq, LenProperties
<1>1. /\ before \in Seq(S) /\ Len(before) = k - 1
      /\ \A i \in 1 .. k - 1 : before[i] = s[i]
  BY <1>0
<1>2. /\ behind \in Seq(S) /\ Len(behind) = Len(s) - k + 1
      /\ \A i \in 1 .. Len(s) - k + 1 : behind[i] = s[k + i - 1]
  BY <1>0
<1>3. one \in Seq(S) /\ Len(one) = 1 /\ one[1] = e
  OBVIOUS
<1>4. InsertAt(s, k, e) = head \o behind
  BY DEF InsertAt
<1> HIDE DEF before, behind, one
<1>5. /\ head \in Seq(S) /\ Len(head) = k
      /\ \A i \in 1 .. k - 1 : head[i] = s[i]
      /\ head[k] = e
  <2>1. /\ head \in Seq(S) /\ Len(head) = Len(before) + Len(one)
        /\ \A i \in 1 .. Len(before) : head[i] = before[i]
        /\ \A i \in 1 .. Len(one) : head[Len(before) + i] = one[i]
    <3>1. before \in Seq(S) /\ one \in Seq(S)
      BY <1>1, <1>3
    <3>2. QED
      BY ONLY <3>1, ConcatElements
  <2>2. head[Len(before) + 1] = e
    BY <1>3, <2>1
  <2>3. Len(before) + 1 = k
    BY <1>0, <1>1
  <2>4. QED
    BY <1>0, <1>1, <1>3, <2>1, <2>2, <2>3
<1> HIDE DEF head
<1>6. /\ head \o behind \in Seq(S) /\ Len(head \o behind) = k + Len(behind)
      /\ \A i \in 1 .. k : (head \o behind)[i] = head[i]
      /\ \A i \in 1 .. Len(behind) : (head \o behind)[k + i] = behind[i]
  <2>1. /\ head \o behind \in Seq(S) /\ Len(head \o behind) = Len(head) + Len(behind)
        /\ \A i \in 1 .. Len(head) : (head \o behind)[i] = head[i]
        /\ \A i \in 1 .. Len(behind) : (head \o behind)[Len(head) + i] = behind[i]
    <3>1. head \in Seq(S) /\ behind \in Seq(S)
      BY <1>2, <1>5
    <3>2. QED
      BY ONLY <3>1, ConcatElements
  <2>2. QED
    BY <1>5, <2>1
<1>7. ASSUME NEW i \in 1 .. Len(s) + 1
      PROVE  (head \o behind)[i] = IF i < k THEN s[i] ELSE IF i = k THEN e ELSE s[i - 1]
  <2>1. CASE i < k
    BY <1>0, <1>5, <1>6, <2>1
  <2>2. CASE i = k
    BY <1>0, <1>5, <1>6, <2>2
  <2>3. CASE i > k
    <3>1. i - k \in 1 .. Len(behind) /\ k + (i - k) = i /\ k + (i - k) - 1 = i - 1
      BY <1>0, <1>2, <2>3
    <3>2. (head \o behind)[k + (i - k)] = behind[i - k]
      BY <1>6, <3>1
    <3>3. behind[i - k] = s[k + (i - k) - 1]
      BY <1>2, <3>1
    <3>4. (head \o behind)[i] = s[i - 1]
      BY <3>1, <3>2, <3>3
    <3>5. ~(i < k) /\ i # k
      BY <1>0, <2>3
    <3>6. QED
      BY <3>4, <3>5
  <2>4. i < k \/ i = k \/ i > k
    BY <1>0
  <2>5. QED
    BY <2>1, <2>2, <2>3, <2>4
<1>8. QED
  BY <1>0, <1>2, <1>4, <1>6, <1>7

LEMMA RemoveAtElements ==
  ASSUME NEW S, NEW s \in Seq(S), NEW k \in 1 .. Len(s)
  PROVE  /\ RemoveAt(s, k) \in Seq(S)
         /\ Len(RemoveAt(s, k)) = Len(s) - 1
         /\ \A i \in 1 .. Len(s) - 1 :
              RemoveAt(s, k)[i] = IF i < k THEN s[i] ELSE s[i + 1]
<1> DEFINE before == SubSeq(s, 1, k - 1)
           behind == SubSeq(s, k + 1, Len(s))
<1>0. Len(s) \in Nat /\ \A i \in 1 .. Len(s) : s[i] \in S
  BY ElementOfSeq, LenProperties
<1>1. /\ before \in Seq(S) /\ Len(before) = k - 1
      /\ \A i \in 1 .. k - 1 : before[i] = s[i]
  BY <1>0
<1>2. /\ behind \in Seq(S) /\ Len(behind) = Len(s) - k
      /\ \A i \in 1 .. Len(s) - k : behind[i] = s[i + k]
  BY <1>0
<1> HIDE DEF before, behind
<1>3. /\ before \o behind \in Seq(S)
      /\ Len(before \o behind) = Len(s) - 1
      /\ \A i \in 1 .. Len(s) - 1 : (before \o behind)[i] = IF i < k THEN s[i] ELSE s[i + 1]
  <2>1. /\ before \o behind \in Seq(S)
        /\ Len(before \o behind) = Len(before) + Len(behind)
        /\ \A i \in 1 .. Len(before) + Len(behind) :
             (before \o behind)[i] = IF i <= Len(before) THEN before[i]
                                     ELSE behind[i - Len(before)]
    BY <1>1, <1>2, ConcatProperties
  <2>2. Len(before) + Len(behind) = Len(s) - 1
    BY <1>0, <1>1, <1>2
  <2>3. ASSUME NEW i \in 1 .. Len(s) - 1
        PROVE  (before \o behind)[i] = IF i < k THEN s[i] ELSE s[i + 1]
    <3>1. CASE i < k
      BY <1>1, <2>1, <2>2, <3>1, <1>0
    <3>2. CASE ~(i < k)
      <4>1. i - (k - 1) \in 1 .. Len(s) - k /\ ~(i <= k - 1) /\ i - (k - 1) + k = i + 1
        BY <3>2, <1>0
      <4>2. QED
        BY <1>1, <1>2, <2>1, <2>2, <3>2, <4>1
    <3>3. QED
      BY <3>1, <3>2
  <2>4. QED
    BY <2>1, <2>2, <2>3
<1>4. RemoveAt(s, k) = before \o behind
  BY DEF RemoveAt, before, behind
<1>5. QED
  BY <1>3, <1>4

\* The first element that passes a test, where one does.
LEMMA FirstIndex ==
  ASSUME NEW S, NEW s \in Seq(S), NEW P \in SUBSET (1 .. Len(s)), P # {}
  PROVE  Min(P) \in P /\ Min(P) \in 1 .. Len(s) /\ \A i \in 1 .. Min(P) - 1 : i \notin P
<1>1. Len(s) \in Nat /\ P \in SUBSET Nat
  BY LenProperties
<1>2. Min(P) \in P /\ \A x \in P : Min(P) <= x
  BY <1>1, MinIsLeast
<1>3. Min(P) \in 1 .. Len(s)
  BY <1>2
<1>4. ASSUME NEW i \in 1 .. Min(P) - 1, i \in P
      PROVE  FALSE
  <2>1. Min(P) <= i
    BY <1>2, <1>4
  <2>2. QED
    BY <1>1, <1>3, <2>1
<1>5. QED
  BY <1>2, <1>3, <1>4

----------------------------------------------------------------------------
(* The invariant.                                                          *)

Timer == [at : 0 .. MaxTime, task : Task]

Types ==
  /\ now \in 0 .. MaxTime /\ tasks \in Seq(Task) /\ timers \in Seq(Timer)
  /\ going \in BOOLEAN /\ lock \in BOOLEAN
  /\ pc \in [Worker -> Label] /\ hand \in [Worker -> Task \cup {NoTask}]
  /\ deadline \in [Worker -> -1 .. MaxTime] /\ notified \in [Worker -> BOOLEAN]
  /\ due \in [Task -> -1 .. MaxTime] /\ ran \in [Task -> {0, 1}]
  /\ cancelled \subseteq Task /\ after \subseteq Task /\ odd = FALSE
  /\ \A w \in Worker : (pc[w] = "run" <=> hand[w] \in Task) /\ pc[w] # "dead"

\* The places a task can be in: queued, a timer, in the hand of a worker.
Queued(t) == \E i \in 1 .. Len(tasks) : tasks[i] = t
Timed(t)  == \E i \in 1 .. Len(timers) : timers[i].task = t
Held(t)   == \E w \in Worker : hand[w] = t

Once ==
  /\ \A i, j \in 1 .. Len(tasks) : tasks[i] = tasks[j] => i = j
  /\ \A i, j \in 1 .. Len(timers) : timers[i].task = timers[j].task => i = j
  /\ \A v, w \in Worker : hand[v] = hand[w] /\ hand[v] \in Task => v = w

Apart ==
  \A t \in Task :
    /\ Queued(t) => ~Timed(t) /\ ~Held(t) /\ ran[t] = 0 /\ t \notin cancelled
    /\ Timed(t) => ~Held(t) /\ ran[t] = 0 /\ t \notin cancelled
    /\ Held(t) => ran[t] = 0 /\ t \notin cancelled
    /\ ran[t] = 1 => t \notin cancelled
    /\ due[t] # -1 <=> Queued(t) \/ Timed(t) \/ Held(t) \/ ran[t] = 1 \/ t \in cancelled

Dues ==
  /\ \A i \in 1 .. Len(tasks) : due[tasks[i]] <= now
  /\ \A i \in 1 .. Len(timers) : timers[i].at = due[timers[i].task]
  /\ \A w \in Worker : hand[w] \in Task => due[hand[w]] <= now

\* A worker that waits, or is about to.
Idle(w) == Waiting(w) \/ pc[w] = "next"

\* The lock is held by at most one worker, between looking and waiting.
LockHeld ==
  /\ \A w \in Worker : pc[w] = "next" => lock = TRUE
  /\ \A v, w \in Worker : pc[v] = "next" /\ pc[w] = "next" => v = w

NothingMissed ==
  (\A w \in Worker : Idle(w)) =>
    /\ going = TRUE /\ tasks = <<>>
    /\ timers # <<>> =>
         \E w \in Worker : pc[w] = "next" \/ deadline[w] \in 0 .. timers[Len(timers)].at

Leaving ==
  /\ \A v, w \in Worker : pc[v] = "off" => pc[w] = "off" /\ going = FALSE
  /\ \A w \in Worker : pc[w] \in {"drain", "exited"} => going = FALSE

Drained ==
  \A w \in Worker, i \in 1 .. Len(tasks) : pc[w] = "exited" => tasks[i] \in after

PoolInv ==
  /\ Types /\ Once /\ Apart /\ Dues /\ SmallerAtTheBack
  /\ LockHeld /\ NothingMissed /\ Leaving /\ Drained

LEMMA InitPool == Init => PoolInv
<1> SUFFICES ASSUME Init
             PROVE  PoolInv
  OBVIOUS
<1>1. Types
  <2>1. now \in 0 .. MaxTime /\ due \in [Task -> -1 .. MaxTime] /\ deadline \in [Worker -> -1 .. MaxTime]
    BY TaskAssumption DEF Init
  <2>2. /\ tasks \in Seq(Task) /\ timers \in Seq(Timer) /\ going \in BOOLEAN /\ lock \in BOOLEAN
        /\ odd = FALSE /\ cancelled \subseteq Task /\ after \subseteq Task
        /\ notified \in [Worker -> BOOLEAN] /\ ran \in [Task -> {0, 1}]
    <3>1. tasks \in Seq(Task) /\ timers \in Seq(Timer)
      BY DEF Init
    <3>2. going \in BOOLEAN /\ lock \in BOOLEAN /\ notified \in [Worker -> BOOLEAN]
      BY DEF Init
    <3>3. ran \in [Task -> {0, 1}] /\ cancelled \subseteq Task /\ after \subseteq Task
      BY DEF Init
    <3>4. QED
      BY <3>1, <3>2, <3>3 DEF Init
  <2>3. /\ pc \in [Worker -> Label] /\ hand \in [Worker -> Task \cup {NoTask}]
        /\ \A w \in Worker : (pc[w] = "run" <=> hand[w] \in Task) /\ pc[w] # "dead"
    BY TaskAssumption DEF Init, Label
  <2>4. QED
    BY <2>1, <2>2, <2>3 DEF Types
<1>2. Len(tasks) = 0 /\ Len(timers) = 0
  BY DEF Init
<1>3. Once /\ Dues /\ SmallerAtTheBack
  BY <1>2, TaskAssumption DEF Init, Once, Dues, SmallerAtTheBack
<1>4. Apart
  BY <1>2, TaskAssumption DEF Init, Apart, Queued, Timed, Held
<1>5. LockHeld /\ Leaving /\ Drained
  BY <1>2 DEF Init, LockHeld, Leaving, Drained
<1>6. NothingMissed
  BY TaskAssumption DEF Init, NothingMissed, Idle, Waiting
<1>7. QED
  BY <1>1, <1>3, <1>4, <1>5, <1>6 DEF PoolInv

----------------------------------------------------------------------------
(* Steps that move no task.                                                *)

Places == Once /\ Apart /\ Dues /\ SmallerAtTheBack
Control == LockHeld /\ NothingMissed /\ Leaving /\ Drained

LEMMA ByParts == Types /\ Places /\ Control <=> PoolInv
  BY DEF PoolInv, Places, Control

LEMMA QuietPlaces ==
  ASSUME PoolInv, now' = now \/ now' = now + 1,
         UNCHANGED <<tasks, timers, hand, due, ran, cancelled>>
  PROVE  Places'
<1>0. now' \in Int /\ now <= now'
  BY DEF PoolInv, Types
<1>1. Once' /\ SmallerAtTheBack'
  BY DEF PoolInv, Once, SmallerAtTheBack
<1>2. Apart'
  BY DEF PoolInv, Apart, Queued, Timed, Held
<1>3. Dues'
  <2>1. \A t \in Task : due[t] \in Int
    BY TaskAssumption DEF PoolInv, Types
  <2>2. \A i \in 1 .. Len(tasks) : tasks[i] \in Task
    BY ElementOfSeq DEF PoolInv, Types
  <2>3. now \in Int
    BY DEF PoolInv, Types
  <2>4. \A t \in Task : due[t] <= now => due'[t] <= now'
    BY <1>0, <2>1, <2>3
  <2>5. QED
    BY <2>2, <2>4 DEF PoolInv, Dues
<1>4. QED
  BY <1>1, <1>2, <1>3 DEF Places

\* A worker that is neither off nor about to wait goes on to a label at which it
\* does not wait.
LEMMA BusyWorker ==
  ASSUME PoolInv, NEW w \in Worker, NEW l \in Label \ {"off", "dead", "next", "wait"},
         pc' = [pc EXCEPT ![w] = l], pc[w] \notin {"off", "next"},
         UNCHANGED <<lock, going>>, l \in {"drain", "exited"} => going = FALSE
  PROVE  LockHeld' /\ NothingMissed' /\ Leaving' /\ pc' \in [Worker -> Label]
<1>1. /\ pc' \in [Worker -> Label] /\ pc'[w] = l
      /\ \A v \in Worker \ {w} : pc'[v] = pc[v]
  BY DEF PoolInv, Types, Label
<1>2. LockHeld'
  BY <1>1 DEF PoolInv, LockHeld
<1>3. ~Idle(w)'
  BY <1>1 DEF Idle, Waiting
<1>4. NothingMissed'
  BY <1>3 DEF NothingMissed
<1>5. Leaving'
  BY <1>1 DEF PoolInv, Leaving
<1>6. QED
  BY <1>1, <1>2, <1>4, <1>5

LEMMA StartStep ==
  ASSUME PoolInv, Start
  PROVE  PoolInv'
<1>1. /\ pc' = [w \in Worker |-> "loop"] /\ going' = TRUE
      /\ UNCHANGED <<now, tasks, timers, hand, deadline, notified, lock, due, ran, cancelled, after, odd>>
      /\ \A w \in Worker : pc[w] = "off"
  BY DEF Start, clockVars, poolVars, historyVars
<1>2. Types'
  BY <1>1 DEF PoolInv, Types, Label
<1>3. Places'
  BY <1>1, QuietPlaces
<1>4. Control'
  <2>1. LockHeld' /\ Leaving' /\ Drained'
    BY <1>1 DEF LockHeld, Leaving, Drained
  <2>2. NothingMissed'
    BY <1>1, TaskAssumption DEF NothingMissed, Idle, Waiting
  <2>3. QED
    BY <2>1, <2>2 DEF Control
<1>5. QED
  BY <1>2, <1>3, <1>4, ByParts, PTL

\* With the lock free every worker that idles waits, so that telling all of them
\* leaves one that does not idle.
LEMMA AllTold ==
  ASSUME PoolInv, lock = FALSE, NotifyAll, UNCHANGED pc
  PROVE  NothingMissed' /\ notified' \in [Worker -> BOOLEAN]
<1>1. notified' \in [Worker -> BOOLEAN] /\ \A w \in Worker : pc[w] = "wait" => notified'[w] = TRUE
  BY DEF PoolInv, Types, NotifyAll
<1>2. \A w \in Worker : ~Idle(w)'
  BY <1>1 DEF PoolInv, LockHeld, Idle, Waiting
<1>3. QED
  BY <1>1, <1>2, TaskAssumption DEF NothingMissed

LEMMA StopStep ==
  ASSUME PoolInv, Stop
  PROVE  PoolInv'
<1>1. /\ NotifyAll /\ going' = FALSE /\ lock = FALSE
      /\ UNCHANGED <<now, tasks, timers, pc, hand, deadline, lock, due, ran, cancelled, after, odd>>
  BY DEF Stop, clockVars, poolVars, historyVars, PoolInv, Types
<1>2. NothingMissed' /\ notified' \in [Worker -> BOOLEAN]
  BY <1>1, AllTold
<1>3. Types'
  BY <1>1, <1>2 DEF PoolInv, Types
<1>4. Places'
  BY <1>1, QuietPlaces
<1>5. LockHeld' /\ Leaving' /\ Drained'
  BY <1>1 DEF PoolInv, LockHeld, Leaving, Drained
<1>6. QED
  BY <1>2, <1>3, <1>4, <1>5, ByParts, PTL DEF Control

LEMMA TickStep ==
  ASSUME PoolInv, Tick
  PROVE  PoolInv'
<1>1. /\ now' = now + 1 /\ now < MaxTime
      /\ UNCHANGED <<tasks, timers, going, pc, hand, deadline, notified, lock, due, ran, cancelled, after, odd>>
  BY DEF Tick, poolVars, workerVars, historyVars
<1>2. Types'
  BY <1>1, TaskAssumption DEF PoolInv, Types
<1>3. Places'
  BY <1>1, QuietPlaces
<1>4. Control'
  BY <1>1 DEF PoolInv, Control, LockHeld, NothingMissed, Leaving, Drained, Idle, Waiting
<1>5. QED
  BY <1>2, <1>3, <1>4, ByParts, PTL

LEMMA LoopStep ==
  ASSUME PoolInv, NEW w \in Worker,
         WorkerLoop(w) \/ WorkerFindsNone(w) \/ WorkerWakes(w) \/ WorkerExits(w)
  PROVE  PoolInv'
<1>1. PICK l \in {"loop", "pop", "drain", "exited", "lock"} :
         /\ pc' = [pc EXCEPT ![w] = l] /\ pc[w] \in {"loop", "pop", "wait", "drain"}
         /\ l \in {"drain", "exited"} => going = FALSE
         /\ l = "exited" => tasks = <<>>
  <2>1. CASE WorkerLoop(w)
    BY <2>1 DEF WorkerLoop, Goto, AfterStop, PoolInv, Types
  <2>2. CASE WorkerFindsNone(w)
    BY <2>2 DEF WorkerFindsNone, Goto
  <2>3. CASE WorkerWakes(w)
    BY <2>3 DEF WorkerWakes, Goto
  <2>4. CASE WorkerExits(w)
    BY <2>4 DEF WorkerExits, Goto, Ready, PoolInv, Leaving
  <2>5. QED
    BY <2>1, <2>2, <2>3, <2>4
<1>2. /\ UNCHANGED <<now, tasks, timers, going, hand, lock, due, ran, cancelled, after, odd>>
      /\ deadline' \in [Worker -> -1 .. MaxTime] /\ notified' \in [Worker -> BOOLEAN]
  <2>1. CASE WorkerWakes(w)
    <3>1. -1 \in -1 .. MaxTime
      BY TaskAssumption
    <3>2. QED
      BY <2>1, <3>1 DEF WorkerWakes, clockVars, poolVars, historyVars, PoolInv, Types
  <2>2. CASE WorkerLoop(w) \/ WorkerFindsNone(w) \/ WorkerExits(w)
    BY <2>2 DEF WorkerLoop, WorkerFindsNone, WorkerExits, clockVars, poolVars, historyVars, PoolInv, Types
  <2>3. QED
    BY <2>1, <2>2
<1>3. LockHeld' /\ NothingMissed' /\ Leaving' /\ pc' \in [Worker -> Label]
  <2>1. l \in Label \ {"off", "dead", "next", "wait"}
    BY DEF Label
  <2>2. QED
    BY <1>1, <1>2, <2>1, BusyWorker
<1>4. Types'
  <2>1. \A v \in Worker : (pc'[v] = "run" <=> hand'[v] \in Task) /\ pc'[v] # "dead"
    BY <1>1, <1>2 DEF PoolInv, Types
  <2>2. QED
    BY <1>2, <1>3, <2>1 DEF PoolInv, Types
<1>5. Places'
  BY <1>2, QuietPlaces
<1>6. Drained'
  <2>1. CASE l = "exited"
    BY <1>1, <1>2, <2>1 DEF Drained
  <2>2. CASE l # "exited"
    BY <1>1, <1>2, <2>2 DEF PoolInv, Types, Drained
  <2>3. QED
    BY <2>1, <2>2
<1>7. QED
  BY <1>3, <1>4, <1>5, <1>6, ByParts, PTL DEF Control

LEMMA WaitsStep ==
  ASSUME PoolInv, NEW w \in Worker, WorkerWaits(w)
  PROVE  PoolInv'
<1>1. /\ pc[w] = "next" /\ pc' = [pc EXCEPT ![w] = "wait"] /\ lock' = FALSE
      /\ notified' = [notified EXCEPT ![w] = FALSE]
      /\ deadline' = [deadline EXCEPT ![w] = IF timers = <<>> THEN -1 ELSE timers[Len(timers)].at]
      /\ UNCHANGED <<now, tasks, timers, going, hand, due, ran, cancelled, after, odd>>
  BY DEF WorkerWaits, Goto, Last, clockVars, poolVars, historyVars
<1>2. timers # <<>> => timers[Len(timers)].at \in 0 .. MaxTime
  <2>1. ASSUME timers # <<>>
        PROVE  timers[Len(timers)] \in Timer
    <3>1. Len(timers) \in 1 .. Len(timers)
      BY <2>1, EmptySeq, LenProperties DEF PoolInv, Types
    <3>2. QED
      BY <3>1, ElementOfSeq DEF PoolInv, Types
  <2>2. QED
    BY <2>1 DEF Timer
<1>3. Types'
  <2>1. deadline' \in [Worker -> -1 .. MaxTime]
    BY <1>1, <1>2, TaskAssumption DEF PoolInv, Types
  <2>2. /\ pc' \in [Worker -> Label] /\ notified' \in [Worker -> BOOLEAN]
        /\ \A v \in Worker : (pc'[v] = "run" <=> hand'[v] \in Task) /\ pc'[v] # "dead"
    BY <1>1 DEF PoolInv, Types, Label
  <2>3. QED
    BY <1>1, <2>1, <2>2 DEF PoolInv, Types
<1>4. Places'
  BY <1>1, QuietPlaces
<1>5. LockHeld' /\ Leaving' /\ Drained'
  <2>1. pc'[w] = "wait" /\ \A v \in Worker \ {w} : pc'[v] = pc[v] /\ pc[v] # "next"
    BY <1>1 DEF PoolInv, Types, LockHeld
  <2>2. QED
    BY <1>1, <2>1 DEF PoolInv, LockHeld, Leaving, Drained
<1>6. NothingMissed'
  <2> SUFFICES ASSUME \A v \in Worker : Idle(v)'
               PROVE  NothingMissed'
    BY DEF NothingMissed
  <2>1. \A v \in Worker : Idle(v)
    BY <1>1 DEF PoolInv, Types, Idle, Waiting
  <2>2. going = TRUE /\ tasks = <<>>
    BY <2>1 DEF PoolInv, NothingMissed
  <2>3. timers # <<>> => deadline'[w] \in 0 .. timers[Len(timers)].at
    BY <1>1, <1>2 DEF PoolInv, Types
  <2>4. QED
    BY <1>1, <2>2, <2>3 DEF NothingMissed
<1>7. QED
  BY <1>3, <1>4, <1>5, <1>6, ByParts, PTL DEF Control

LEMMA LocksStep ==
  ASSUME PoolInv, NEW w \in Worker, WorkerLocks(w)
  PROVE  PoolInv'
<1>1. /\ pc[w] = "lock" /\ lock = FALSE
      /\ UNCHANGED <<now, tasks, timers, going, hand, deadline, notified, due, ran, cancelled, after, odd>>
  BY DEF WorkerLocks, clockVars, poolVars, historyVars, PoolInv, Types
<1>2. Places'
  BY <1>1, QuietPlaces
<1>3. CASE ~Ready /\ going = TRUE
  <2>1. pc' = [pc EXCEPT ![w] = "next"] /\ lock' = TRUE /\ tasks = <<>>
    BY <1>3 DEF WorkerLocks, Goto, Ready
  <2>2. /\ pc'[w] = "next" /\ \A v \in Worker \ {w} : pc'[v] = pc[v] /\ pc[v] # "next"
    BY <1>1, <2>1 DEF PoolInv, Types, LockHeld
  <2>3. Types'
    BY <1>1, <2>1 DEF PoolInv, Types, Label
  <2>4. LockHeld' /\ Leaving' /\ Drained' /\ NothingMissed'
    BY <1>1, <1>3, <2>1, <2>2 DEF PoolInv, LockHeld, Leaving, Drained, NothingMissed
  <2>5. QED
    BY <1>2, <2>3, <2>4, ByParts, PTL DEF Control
<1>4. CASE ~(~Ready /\ going = TRUE)
  <2>1. PICK l \in {"loop", "drain"} :
          pc' = [pc EXCEPT ![w] = l] /\ lock' = FALSE /\ (l = "drain" => going = FALSE)
    BY <1>4 DEF WorkerLocks, Goto, AfterStop, PoolInv, Types
  <2>2. LockHeld' /\ NothingMissed' /\ Leaving' /\ pc' \in [Worker -> Label]
    <3>1. l \in Label \ {"off", "dead", "next", "wait"}
      BY DEF Label
    <3>2. QED
      BY <1>1, <2>1, <3>1, BusyWorker
  <2>3. Types'
    <3>1. \A v \in Worker : (pc'[v] = "run" <=> hand'[v] \in Task) /\ pc'[v] # "dead"
      BY <1>1, <2>1 DEF PoolInv, Types
    <3>2. QED
      BY <1>1, <2>1, <2>2, <3>1 DEF PoolInv, Types
  <2>4. Drained'
    BY <1>1, <2>1 DEF PoolInv, Types, Drained
  <2>5. QED
    BY <1>2, <2>2, <2>3, <2>4, ByParts, PTL DEF Control
<1>5. QED
  BY <1>3, <1>4

----------------------------------------------------------------------------
(* Steps that move a task.                                                 *)

LEMMA Elements ==
  ASSUME PoolInv
  PROVE  /\ Len(tasks) \in Nat /\ \A i \in 1 .. Len(tasks) : tasks[i] \in Task
         /\ Len(timers) \in Nat
         /\ \A i \in 1 .. Len(timers) :
              timers[i] \in Timer /\ timers[i].task \in Task /\ timers[i].at \in 0 .. MaxTime
<1>1. tasks \in Seq(Task) /\ timers \in Seq(Timer)
  BY DEF PoolInv, Types
<1>2. Len(tasks) \in Nat /\ Len(timers) \in Nat
  BY <1>1, LenProperties
<1>3. /\ \A i \in 1 .. Len(tasks) : tasks[i] \in Task
      /\ \A i \in 1 .. Len(timers) : timers[i] \in Timer
  BY <1>1, ElementOfSeq
<1>4. \A e \in Timer : e.task \in Task /\ e.at \in 0 .. MaxTime
  BY DEF Timer
<1>5. QED
  BY <1>2, <1>3, <1>4

LEMMA RunsStep ==
  ASSUME PoolInv, NEW w \in Worker, WorkerRuns(w)
  PROVE  PoolInv'
<1> DEFINE t == hand[w]
<1>1. /\ pc[w] = "run" /\ t \in Task /\ pc' = [pc EXCEPT ![w] = "loop"]
      /\ ran' = [ran EXCEPT ![t] = ran[t] + 1] /\ hand' = [hand EXCEPT ![w] = NoTask]
      /\ UNCHANGED <<now, tasks, timers, going, deadline, notified, lock, due, cancelled, after, odd>>
  BY DEF WorkerRuns, Goto, clockVars, poolVars
<1>2. Held(t) /\ ran[t] = 0
  BY <1>1 DEF PoolInv, Held, Apart
<1>3. /\ ran'[t] = 1 /\ ran' \in [Task -> {0, 1}] /\ \A u \in Task \ {t} : ran'[u] = ran[u]
  BY <1>1, <1>2 DEF PoolInv, Types
<1>4. /\ hand'[w] = NoTask /\ \A v \in Worker \ {w} : hand'[v] = hand[v]
      /\ hand' \in [Worker -> Task \cup {NoTask}]
  BY <1>1 DEF PoolInv, Types
<1>5. LockHeld' /\ NothingMissed' /\ Leaving' /\ pc' \in [Worker -> Label]
  <2>1. "loop" \in Label \ {"off", "dead", "next", "wait"}
    BY DEF Label
  <2>2. QED
    BY <1>1, <2>1, BusyWorker
<1>6. /\ pc'[w] = "loop" /\ \A v \in Worker \ {w} : pc'[v] = pc[v]
  BY <1>1 DEF PoolInv, Types
<1>7. Types'
  <2>1. \A v \in Worker : (pc'[v] = "run" <=> hand'[v] \in Task) /\ pc'[v] # "dead"
    BY <1>4, <1>6, TaskAssumption DEF PoolInv, Types
  <2>2. QED
    BY <1>1, <1>3, <1>4, <1>5, <2>1 DEF PoolInv, Types
<1>8. Drained'
  BY <1>1, <1>6 DEF PoolInv, Drained
<1>9. Once' /\ SmallerAtTheBack'
  BY <1>1, <1>4, TaskAssumption DEF PoolInv, Once, SmallerAtTheBack
<1>10. Apart'
  <2>1. \A u \in Task : (Queued(u)' <=> Queued(u)) /\ (Timed(u)' <=> Timed(u))
    BY <1>1 DEF Queued, Timed
  <2>2. \A u \in Task : Held(u)' <=> Held(u) /\ u # t
    BY <1>1, <1>4, TaskAssumption DEF Held, PoolInv, Once
  <2>3. ~Queued(t) /\ ~Timed(t) /\ t \notin cancelled /\ due[t] # -1
    BY <1>1, <1>2 DEF PoolInv, Apart
  <2>4. QED
    BY <1>1, <1>2, <1>3, <2>1, <2>2, <2>3 DEF PoolInv, Apart
<1>11. Dues'
  BY <1>1, <1>4, TaskAssumption DEF PoolInv, Dues
<1>12. QED
  BY <1>5, <1>7, <1>8, <1>9, <1>10, <1>11, ByParts, PTL DEF Control, Places

\* A worker takes a task out of one of the containers.
LEMMA Taken ==
  ASSUME PoolInv, NEW w \in Worker, NEW t \in Task, pc[w] \in {"pop", "drain"},
         hand' = [hand EXCEPT ![w] = t], pc' = [pc EXCEPT ![w] = "run"],
         Queued(t) \/ Timed(t), ~Queued(t)', ~Timed(t)', due[t] <= now,
         \A u \in Task \ {t} : (Queued(u)' <=> Queued(u)) /\ (Timed(u)' <=> Timed(u)),
         UNCHANGED <<now, going, deadline, notified, lock, due, ran, cancelled, after, odd>>
  PROVE  /\ Apart' /\ LockHeld' /\ NothingMissed' /\ Leaving'
         /\ tasks' \in Seq(Task) /\ timers' \in Seq(Timer) => Types'
         /\ \A u, v \in Worker : hand'[u] = hand'[v] /\ hand'[u] \in Task => u = v
         /\ \A v \in Worker : hand'[v] \in Task => due'[hand'[v]] <= now'
<1>1. /\ hand'[w] = t /\ \A v \in Worker \ {w} : hand'[v] = hand[v]
      /\ hand' \in [Worker -> Task \cup {NoTask}]
  BY DEF PoolInv, Types
<1>2. hand[w] \notin Task /\ ~Held(t) /\ ran[t] = 0 /\ t \notin cancelled /\ due[t] # -1
  BY DEF PoolInv, Types, Apart
<1>3. \A u \in Task : Held(u)' <=> Held(u) \/ u = t
  BY <1>1, <1>2 DEF Held
<1>4. Apart'
  <2> SUFFICES ASSUME NEW u \in Task
               PROVE  /\ Queued(u)' => ~Timed(u)' /\ ~Held(u)' /\ ran'[u] = 0 /\ u \notin cancelled'
                      /\ Timed(u)' => ~Held(u)' /\ ran'[u] = 0 /\ u \notin cancelled'
                      /\ Held(u)' => ran'[u] = 0 /\ u \notin cancelled'
                      /\ ran'[u] = 1 => u \notin cancelled'
                      /\ due'[u] # -1 <=> Queued(u)' \/ Timed(u)' \/ Held(u)' \/ ran'[u] = 1 \/ u \in cancelled'
    BY DEF Apart
  <2>1. CASE u = t
    BY <1>2, <1>3, <2>1
  <2>2. CASE u # t
    BY <1>3, <2>2 DEF PoolInv, Apart
  <2>3. QED
    BY <2>1, <2>2
<1>5. LockHeld' /\ NothingMissed' /\ Leaving' /\ pc' \in [Worker -> Label]
  <2>1. "run" \in Label \ {"off", "dead", "next", "wait"}
    BY DEF Label
  <2>2. QED
    BY <2>1, BusyWorker
<1>6. /\ pc'[w] = "run" /\ \A v \in Worker \ {w} : pc'[v] = pc[v]
  BY DEF PoolInv, Types
<1>7. \A v \in Worker : (pc'[v] = "run" <=> hand'[v] \in Task) /\ pc'[v] # "dead"
  BY <1>1, <1>6 DEF PoolInv, Types
<1>8. tasks' \in Seq(Task) /\ timers' \in Seq(Timer) => Types'
  BY <1>1, <1>5, <1>7 DEF PoolInv, Types
<1>9. \A u, v \in Worker : hand'[u] = hand'[v] /\ hand'[u] \in Task => u = v
  BY <1>1, <1>2 DEF Held, PoolInv, Once
<1>10. \A v \in Worker : hand'[v] \in Task => due'[hand'[v]] <= now'
  BY <1>1 DEF PoolInv, Dues
<1>11. QED
  BY <1>4, <1>5, <1>8, <1>9, <1>10

LEMMA TakesStep ==
  ASSUME PoolInv, NEW w \in Worker, WorkerTakes(w)
  PROVE  PoolInv'
<1>1. /\ pc[w] \in {"pop", "drain"} /\ pc' = [pc EXCEPT ![w] = "run"]
      /\ hand' = [hand EXCEPT ![w] = Popped] /\ Pop
      /\ UNCHANGED <<now, going, deadline, notified, lock, due, ran, cancelled, after, odd>>
  BY DEF WorkerTakes, Goto, clockVars, historyVars
<1>2. CASE tasks # <<>>
  <2>0. PICK t \in Task : t = Head(tasks)
    BY <1>2, EmptySeq, HeadTailProperties DEF PoolInv, Types
  <2>1. /\ Popped = t /\ tasks' = Tail(tasks) /\ UNCHANGED timers
    BY <1>1, <1>2, <2>0 DEF Pop, Popped
  <2>2. /\ tasks \in Seq(Task) /\ Len(tasks) \in Nat /\ Len(tasks) > 0 /\ t = tasks[1] /\ t \in Task
    BY <1>2, <2>0, EmptySeq DEF PoolInv, Types
  <2>3. /\ tasks' \in Seq(Task) /\ Len(tasks') = Len(tasks) - 1
        /\ \A i \in 1 .. Len(tasks') : tasks'[i] = tasks[i + 1]
    BY <1>2, <2>1, <2>2, HeadTailProperties
  <2>4. \A i \in 1 .. Len(tasks') : i + 1 \in 1 .. Len(tasks) /\ i + 1 # 1
    BY <2>2, <2>3
  <2>5. Queued(t) /\ 1 \in 1 .. Len(tasks)
    BY <2>2 DEF Queued
  <2>6. ~Queued(t)' /\ ~Timed(t) /\ due[t] <= now
    <3>1. ~Queued(t)'
      BY <2>2, <2>3, <2>4, <2>5 DEF Queued, PoolInv, Once
    <3>2. ~Timed(t)
      BY <2>5 DEF PoolInv, Apart
    <3>3. due[t] <= now
      BY <2>2, <2>5 DEF PoolInv, Dues
    <3>4. QED
      BY <3>1, <3>2, <3>3
  <2>7. \A u \in Task : Timed(u)' <=> Timed(u)
    BY <2>1 DEF Timed
  <2>8. ASSUME NEW u \in Task \ {t}
        PROVE  Queued(u)' <=> Queued(u)
    <3>1. ASSUME NEW i \in 1 .. Len(tasks), tasks[i] = u
          PROVE  i - 1 \in 1 .. Len(tasks') /\ tasks'[i - 1] = u
      <4>1. i # 1
        BY <2>2, <3>1
      <4>2. i - 1 \in 1 .. Len(tasks') /\ (i - 1) + 1 = i
        BY <2>2, <2>3, <4>1
      <4>3. QED
        BY <2>3, <3>1, <4>2
    <3>2. QED
      BY <2>3, <2>4, <3>1 DEF Queued
  <2>9. /\ Apart' /\ LockHeld' /\ NothingMissed' /\ Leaving' /\ Types'
        /\ \A u, v \in Worker : hand'[u] = hand'[v] /\ hand'[u] \in Task => u = v
        /\ \A v \in Worker : hand'[v] \in Task => due'[hand'[v]] <= now'
    <3>1. timers' \in Seq(Timer)
      BY <2>1 DEF PoolInv, Types
    <3>2. QED
      BY <1>1, <2>1, <2>3, <2>5, <2>6, <2>7, <2>8, <3>1, Taken
  <2>10. Once'
    BY <2>1, <2>2, <2>3, <2>4, <2>9 DEF PoolInv, Once
  <2>11. Dues' /\ SmallerAtTheBack'
    BY <1>1, <2>1, <2>3, <2>4, <2>9 DEF PoolInv, Dues, SmallerAtTheBack
  <2>12. Drained'
    <3>1. \A v \in Worker : pc'[v] = "exited" => pc[v] = "exited"
      BY <1>1 DEF PoolInv, Types
    <3>2. QED
      BY <1>1, <2>3, <2>4, <3>1 DEF PoolInv, Drained
  <2>13. QED
    BY <2>9, <2>10, <2>11, <2>12, ByParts, PTL DEF Control, Places
<1>3. CASE tasks = <<>>
  <2> DEFINE n == Len(timers)
  <2>0. timers # <<>> /\ n \in Nat /\ n > 0 /\ timers \in Seq(Timer)
    BY <1>1, <1>3, EmptySeq DEF Pop, IsDue, PoolInv, Types
  <2>2. PICK t \in Task : t = timers[n].task
    BY <2>0, Elements
  <2>1. /\ Popped = t /\ timers' = SubSeq(timers, 1, n - 1) /\ UNCHANGED tasks
        /\ timers[n].at <= now
    BY <1>1, <1>3, <2>2 DEF Pop, Popped, IsDue, Last, Front
  <2>3. /\ timers' \in Seq(Timer) /\ Len(timers') = n - 1
        /\ \A i \in 1 .. Len(timers') : timers'[i] = timers[i]
    <3>1. \A i \in 1 .. n - 1 : timers[i] \in Timer
      BY <2>0, Elements
    <3> HIDE DEF n
    <3>2. /\ SubSeq(timers, 1, n - 1) \in Seq(Timer) /\ Len(SubSeq(timers, 1, n - 1)) = n - 1
          /\ \A i \in 1 .. n - 1 : SubSeq(timers, 1, n - 1)[i] = timers[i]
      BY <2>0, <3>1
    <3>3. QED
      BY <2>1, <3>2
  <2>4. \A i \in 1 .. Len(timers') : i \in 1 .. n /\ i # n
    BY <2>0, <2>3
  <2>5. n \in 1 .. n
    BY <2>0
  <2>6. Timed(t) /\ ~Queued(t)
    BY <2>2, <2>5 DEF Timed, PoolInv, Apart
  <2>7. ~Timed(t)' /\ due[t] <= now
    <3>1. ~Timed(t)'
      BY <2>2, <2>3, <2>4, <2>5 DEF Timed, PoolInv, Once
    <3>2. due[t] <= now
      BY <2>1, <2>2, <2>5 DEF PoolInv, Dues
    <3>3. QED
      BY <3>1, <3>2
  <2>8. \A u \in Task : Queued(u)' <=> Queued(u)
    BY <2>1 DEF Queued
  <2>9. ASSUME NEW u \in Task \ {t}
        PROVE  Timed(u)' <=> Timed(u)
    <3>1. ASSUME NEW i \in 1 .. n, timers[i].task = u
          PROVE  i \in 1 .. Len(timers')
      <4>1. i # n
        BY <2>2, <3>1
      <4>2. QED
        BY <2>0, <2>3, <4>1
    <3>2. QED
      BY <2>3, <2>4, <3>1 DEF Timed
  <2>10. /\ Apart' /\ LockHeld' /\ NothingMissed' /\ Leaving' /\ Types'
         /\ \A u, v \in Worker : hand'[u] = hand'[v] /\ hand'[u] \in Task => u = v
         /\ \A v \in Worker : hand'[v] \in Task => due'[hand'[v]] <= now'
    <3>1. tasks' \in Seq(Task)
      BY <2>1 DEF PoolInv, Types
    <3>2. hand' = [hand EXCEPT ![w] = t]
      BY <1>1, <2>1
    <3>3. QED
      BY <1>1, <2>3, <2>6, <2>7, <2>8, <2>9, <3>1, <3>2, Taken
  <2>11. Once'
    BY <2>1, <2>3, <2>4, <2>10 DEF PoolInv, Once
  <2>12. Dues' /\ SmallerAtTheBack'
    BY <1>1, <2>1, <2>3, <2>4, <2>10 DEF PoolInv, Dues, SmallerAtTheBack
  <2>13. Drained'
    <3>1. Len(tasks') = 0
      BY <1>3, <2>1
    <3>2. QED
      BY <3>1 DEF Drained
  <2>14. QED
    BY <2>10, <2>11, <2>12, <2>13, ByParts, PTL DEF Control, Places
<1>4. QED
  BY <1>2, <1>3

\* A task enters the pool.
LEMMA Fresh ==
  ASSUME PoolInv, NEW t \in Task, due[t] = -1
  PROVE  ~Queued(t) /\ ~Timed(t) /\ ~Held(t) /\ ran[t] = 0 /\ t \notin cancelled
  BY DEF PoolInv, Types, Apart

LEMMA Arrives ==
  ASSUME PoolInv, NEW t \in Task, NEW time \in 0 .. MaxTime, Known(t, time),
         (Queued(t)' /\ ~Timed(t)') \/ (~Queued(t)' /\ Timed(t)'),
         \A u \in Task \ {t} : (Queued(u)' <=> Queued(u)) /\ (Timed(u)' <=> Timed(u)),
         UNCHANGED hand
  PROVE  /\ Apart' /\ due' \in [Task -> -1 .. MaxTime] /\ due'[t] = time
         /\ \A u \in Task \ {t} : due'[u] = due[u]
         /\ after' \subseteq Task /\ after \subseteq after'
         /\ UNCHANGED <<ran, cancelled>>
         /\ \A w \in Worker : hand[w] # t
<1>1. /\ due[t] = -1 /\ due' = [due EXCEPT ![t] = time] /\ UNCHANGED <<ran, cancelled>>
      /\ after' = after \/ after' = after \cup {t}
  BY DEF Known
<1>2. /\ due' \in [Task -> -1 .. MaxTime] /\ due'[t] = time
      /\ \A u \in Task \ {t} : due'[u] = due[u]
  BY <1>1, TaskAssumption DEF PoolInv, Types
<1>3. ~Queued(t) /\ ~Timed(t) /\ ~Held(t) /\ ran[t] = 0 /\ t \notin cancelled
  BY <1>1, Fresh
<1>4. \A u \in Task : Held(u)' <=> Held(u)
  BY DEF Held
<1>5. time # -1
  BY TaskAssumption
<1>6. Apart'
  <2> SUFFICES ASSUME NEW u \in Task
               PROVE  /\ Queued(u)' => ~Timed(u)' /\ ~Held(u)' /\ ran'[u] = 0 /\ u \notin cancelled'
                      /\ Timed(u)' => ~Held(u)' /\ ran'[u] = 0 /\ u \notin cancelled'
                      /\ Held(u)' => ran'[u] = 0 /\ u \notin cancelled'
                      /\ ran'[u] = 1 => u \notin cancelled'
                      /\ due'[u] # -1 <=> Queued(u)' \/ Timed(u)' \/ Held(u)' \/ ran'[u] = 1 \/ u \in cancelled'
    BY DEF Apart
  <2>1. CASE u = t
    BY <1>1, <1>2, <1>3, <1>4, <1>5, <2>1
  <2>2. CASE u # t
    BY <1>1, <1>2, <1>4, <2>2 DEF PoolInv, Apart
  <2>3. QED
    BY <2>1, <2>2
<1>7. \A w \in Worker : hand[w] # t
  BY <1>3 DEF Held
<1>8. after' \subseteq Task /\ after \subseteq after'
  BY <1>1 DEF PoolInv, Types
<1>9. QED
  BY <1>1, <1>2, <1>6, <1>7, <1>8

LEMMA OneTold ==
  ASSUME PoolInv, lock = FALSE, NotifyOne, UNCHANGED pc
  PROVE  NothingMissed' /\ notified' \in [Worker -> BOOLEAN]
<1>1. \A w \in Worker : pc[w] # "next"
  BY DEF PoolInv, LockHeld
<1>2. CASE \E w \in Worker : Waiting(w)
  <2>1. PICK w \in Worker : Waiting(w) /\ notified' = [notified EXCEPT ![w] = TRUE]
    BY <1>2 DEF NotifyOne
  <2>2. notified'[w] = TRUE /\ notified' \in [Worker -> BOOLEAN]
    BY <2>1 DEF PoolInv, Types
  <2>3. ~Idle(w)'
    BY <1>1, <2>2 DEF Idle, Waiting
  <2>4. QED
    BY <2>2, <2>3 DEF NothingMissed
<1>3. CASE ~\E w \in Worker : Waiting(w)
  <2>1. notified' = notified
    BY <1>3 DEF NotifyOne
  <2>2. \A w \in Worker : ~Idle(w)'
    BY <1>1, <1>3, <2>1 DEF Idle, Waiting
  <2>3. QED
    BY <2>1, <2>2, TaskAssumption DEF NothingMissed, PoolInv, Types
<1>4. QED
  BY <1>2, <1>3

LEMMA PushStep ==
  ASSUME PoolInv, NEW t \in Task, Push(t)
  PROVE  PoolInv'
<1>1. /\ lock = FALSE /\ Known(t, now) /\ tasks' = Append(tasks, t) /\ NotifyOne
      /\ UNCHANGED <<now, timers, going, pc, hand, deadline, lock, odd>>
  BY DEF Push, clockVars, PoolInv, Types
<1>2. /\ tasks \in Seq(Task) /\ Len(tasks) \in Nat /\ now \in 0 .. MaxTime
  BY LenProperties DEF PoolInv, Types
<1>3. /\ tasks' \in Seq(Task) /\ Len(tasks') = Len(tasks) + 1 /\ tasks'[Len(tasks) + 1] = t
      /\ \A i \in 1 .. Len(tasks) : tasks'[i] = tasks[i]
  BY <1>1, <1>2, AppendProperties
<1>4. \A i \in 1 .. Len(tasks') : i \in 1 .. Len(tasks) \/ i = Len(tasks) + 1
  BY <1>2, <1>3
<1>5. ~Queued(t) /\ ~Timed(t) /\ due[t] = -1
  BY <1>1, Fresh DEF Known
<1>6. Queued(t)' /\ \A u \in Task \ {t} : Queued(u)' <=> Queued(u)
  <2>1. Queued(t)'
    BY <1>2, <1>3 DEF Queued
  <2>2. ASSUME NEW u \in Task \ {t}
        PROVE  Queued(u)' <=> Queued(u)
    BY <1>2, <1>3, <1>4 DEF Queued
  <2>3. QED
    BY <2>1, <2>2
<1>7. \A u \in Task : Timed(u)' <=> Timed(u)
  BY <1>1 DEF Timed
<1>8. /\ Apart' /\ due' \in [Task -> -1 .. MaxTime] /\ due'[t] = now
      /\ \A u \in Task \ {t} : due'[u] = due[u]
      /\ after' \subseteq Task /\ after \subseteq after'
      /\ UNCHANGED <<ran, cancelled>> /\ \A w \in Worker : hand[w] # t
  <2>1. PICK time \in 0 .. MaxTime : time = now
    BY <1>2
  <2>2. Known(t, time)
    BY <1>1, <2>1
  <2>3. (Queued(t)' /\ ~Timed(t)') \/ (~Queued(t)' /\ Timed(t)')
    BY <1>5, <1>6, <1>7
  <2>4. /\ Apart' /\ due' \in [Task -> -1 .. MaxTime] /\ due'[t] = time
        /\ \A u \in Task \ {t} : due'[u] = due[u]
        /\ after' \subseteq Task /\ after \subseteq after'
        /\ UNCHANGED <<ran, cancelled>> /\ \A w \in Worker : hand[w] # t
    BY <1>1, <1>6, <1>7, <2>2, <2>3, Arrives
  <2>5. QED
    BY <2>1, <2>4
<1>9. NothingMissed' /\ notified' \in [Worker -> BOOLEAN]
  BY <1>1, OneTold
<1>10. Types'
  BY <1>1, <1>3, <1>8, <1>9 DEF PoolInv, Types
<1>11. \A i \in 1 .. Len(tasks) : tasks[i] # t
  BY <1>5 DEF Queued
<1>12. Once' /\ SmallerAtTheBack'
  BY <1>1, <1>3, <1>4, <1>11 DEF PoolInv, Once, SmallerAtTheBack
<1>13. Dues'
  <2>1. \A i \in 1 .. Len(tasks') : due'[tasks'[i]] <= now'
    BY <1>1, <1>2, <1>3, <1>4, <1>8, <1>11, Elements DEF PoolInv, Dues
  <2>2. \A i \in 1 .. Len(timers') : timers'[i].at = due'[timers'[i].task]
    BY <1>1, <1>5, <1>8, Elements DEF Timed, PoolInv, Dues
  <2>3. \A w \in Worker : hand'[w] \in Task => due'[hand'[w]] <= now'
    BY <1>1, <1>8 DEF PoolInv, Dues
  <2>4. QED
    BY <2>1, <2>2, <2>3 DEF Dues
<1>14. LockHeld' /\ Leaving'
  BY <1>1 DEF PoolInv, LockHeld, Leaving
<1>15. Drained'
  <2> SUFFICES ASSUME NEW w \in Worker, NEW i \in 1 .. Len(tasks'), pc'[w] = "exited"
               PROVE  tasks'[i] \in after'
    BY DEF Drained
  <2>1. Stopped
    BY <1>1 DEF PoolInv, Leaving, Stopped
  <2>2. after' = after \cup {t}
    BY <1>1, <2>1 DEF Known
  <2>3. QED
    BY <1>1, <1>3, <1>4, <2>2 DEF PoolInv, Drained
<1>16. QED
  BY <1>8, <1>9, <1>10, <1>12, <1>13, <1>14, <1>15, ByParts, PTL DEF Control, Places

\* Insert puts a new timer so that the times still go down.
LEMMA Inserted ==
  ASSUME PoolInv, NEW e \in Timer
  PROVE  \E k \in 1 .. Len(timers) + 1 :
           /\ Insert(e) = InsertAt(timers, k, e)
           /\ \A i \in 1 .. k - 1 : timers[i].at >= e.at
           /\ \A i \in k .. Len(timers) : timers[i].at <= e.at
<1> DEFINE P == {i \in 1 .. Len(timers) : timers[i].at < e.at}
<1>1. /\ timers \in Seq(Timer) /\ Len(timers) \in Nat /\ e.at \in Int
      /\ \A i \in 1 .. Len(timers) : timers[i].at \in Int
  <2>1. timers \in Seq(Timer) /\ e.at \in Int
    BY DEF PoolInv, Types, Timer
  <2>2. /\ Len(timers) \in Nat
        /\ \A i \in 1 .. Len(timers) : timers[i].at \in 0 .. MaxTime
    BY Elements
  <2>3. QED
    BY <2>1, <2>2
<1>2. CASE P = {}
  <2>1. SelectInSeq(timers, LAMBDA f : f.at < e.at) = 0
    BY <1>2 DEF SelectInSeq
  <2>2. Insert(e) = InsertAt(timers, Len(timers) + 1, e)
    BY <2>1 DEF Insert
  <2>3. \A i \in 1 .. Len(timers) : timers[i].at >= e.at
    BY <1>1, <1>2
  <2>4. QED
    BY <1>1, <2>2, <2>3
<1>3. CASE P # {}
  <2> DEFINE k == Min(P)
  <2>1. /\ k \in 1 .. Len(timers) /\ timers[k].at < e.at
        /\ \A i \in 1 .. k - 1 : i \notin P
    <3>1. P \in SUBSET (1 .. Len(timers))
      OBVIOUS
    <3>2. k \in P /\ k \in 1 .. Len(timers) /\ \A i \in 1 .. k - 1 : i \notin P
      BY <1>1, <1>3, <3>1, FirstIndex
    <3>3. QED
      BY <3>2
  <2>2. SelectInSeq(timers, LAMBDA f : f.at < e.at) = k
    BY <1>3 DEF SelectInSeq
  <2> HIDE DEF k
  <2>3. Insert(e) = InsertAt(timers, k, e)
    BY <1>1, <2>1, <2>2 DEF Insert
  <2>4. \A i \in 1 .. k - 1 : timers[i].at >= e.at
    BY <1>1, <2>1
  <2>5. \A i \in k .. Len(timers) : timers[i].at <= e.at
    <3>1. ASSUME NEW i \in k .. Len(timers)
          PROVE  timers[i].at <= timers[k].at
      BY <1>1, <2>1 DEF PoolInv, SmallerAtTheBack
    <3>2. QED
      BY <1>1, <2>1, <3>1
  <2>6. QED
    BY <1>1, <2>1, <2>3, <2>4, <2>5
<1>4. QED
  BY <1>2, <1>3

LEMMA PushDelayedStep ==
  ASSUME PoolInv, NEW t \in Task, NEW d \in Delays, PushDelayed(t, d)
  PROVE  PoolInv'
<1> DEFINE n == Len(timers)
<1>1. PICK time \in 0 .. MaxTime : time = now + d /\ now <= time
  BY TaskAssumption DEF PushDelayed, DelayedUntil, PoolInv, Types
<1>2. PICK e \in Timer : e = [at |-> time, task |-> t]
  BY DEF Timer
<1>3. /\ lock = FALSE /\ Known(t, time) /\ timers' = Insert(e) /\ NotifyAll
      /\ UNCHANGED <<now, tasks, going, pc, hand, deadline, lock, odd>>
  BY <1>1, <1>2 DEF PushDelayed, DelayedUntil, clockVars, PoolInv, Types
<1>4. PICK k \in 1 .. n + 1 :
        /\ timers' = InsertAt(timers, k, e)
        /\ \A i \in 1 .. k - 1 : timers[i].at >= e.at
        /\ \A i \in k .. n : timers[i].at <= e.at
  BY <1>3, Inserted
<1>5. timers \in Seq(Timer) /\ n \in Nat /\ \A i \in 1 .. n : timers[i].at \in 0 .. MaxTime
  BY Elements DEF PoolInv, Types
<1>6. /\ timers' \in Seq(Timer) /\ Len(timers') = n + 1
      /\ \A i \in 1 .. n + 1 :
           timers'[i] = IF i < k THEN timers[i] ELSE IF i = k THEN e ELSE timers[i - 1]
  <2>1. /\ InsertAt(timers, k, e) \in Seq(Timer)
        /\ Len(InsertAt(timers, k, e)) = Len(timers) + 1
        /\ \A i \in 1 .. Len(timers) + 1 :
             InsertAt(timers, k, e)[i]
               = IF i < k THEN timers[i] ELSE IF i = k THEN e ELSE timers[i - 1]
    BY ONLY <1>5, InsertAtElements, k \in 1 .. Len(timers) + 1, e \in Timer
  <2>2. QED
    BY <1>4, <2>1
<1> HIDE DEF n
<1>7. /\ \A i \in 1 .. k - 1 : i \in 1 .. n /\ i \in 1 .. n + 1 /\ timers'[i] = timers[i]
      /\ timers'[k] = e /\ k \in 1 .. n + 1
      /\ \A i \in k .. n : i \in 1 .. n /\ i + 1 \in 1 .. n + 1 /\ timers'[i + 1] = timers[i]
  <2>1. ASSUME NEW i \in k .. n
        PROVE  i \in 1 .. n /\ i + 1 \in 1 .. n + 1 /\ timers'[i + 1] = timers[i]
    <3>1. i \in 1 .. n /\ i + 1 \in 1 .. n + 1 /\ ~(i + 1 < k) /\ i + 1 # k /\ (i + 1) - 1 = i
      BY <1>5
    <3>2. QED
      BY <1>6, <3>1
  <2>2. QED
    BY <1>5, <1>6, <2>1
<1>8. \A i \in 1 .. n + 1 :
         \/ i \in 1 .. k - 1
         \/ i = k
         \/ \E j \in k .. n : i = j + 1
  <2> SUFFICES ASSUME NEW i \in 1 .. n + 1, i > k
               PROVE  \E j \in k .. n : i = j + 1
    BY <1>5
  <2>1. i - 1 \in k .. n /\ i = (i - 1) + 1
    BY <1>5
  <2>2. QED
    BY <2>1
<1>9. \A i \in 1 .. n + 1 : i # k => \E j \in 1 .. n : timers'[i] = timers[j]
  BY <1>7, <1>8
<1>10. ~Queued(t) /\ ~Timed(t) /\ due[t] = -1
  BY <1>3, Fresh DEF Known
<1>11. Timed(t)' /\ \A u \in Task \ {t} : Timed(u)' <=> Timed(u)
  <2>1. Timed(t)'
    BY <1>2, <1>6, <1>7 DEF Timed
  <2>2. ASSUME NEW u \in Task \ {t}, Timed(u)'
        PROVE  Timed(u)
    <3>1. PICK i \in 1 .. n + 1 : timers'[i].task = u
      BY <1>6, <2>2 DEF Timed
    <3>2. i # k
      BY <1>2, <1>7, <3>1
    <3>3. QED
      BY <1>9, <3>1, <3>2 DEF Timed, n
  <2>3. ASSUME NEW u \in Task \ {t}, Timed(u)
        PROVE  Timed(u)'
    <3>1. PICK i \in 1 .. n : timers[i].task = u
      BY <2>3 DEF Timed, n
    <3>2. i \in 1 .. k - 1 \/ i \in k .. n
      BY <1>5
    <3>3. QED
      BY <1>6, <1>7, <3>1, <3>2 DEF Timed
  <2>4. QED
    BY <2>1, <2>2, <2>3
<1>12. \A u \in Task : Queued(u)' <=> Queued(u)
  BY <1>3 DEF Queued
<1>13. /\ Apart' /\ due' \in [Task -> -1 .. MaxTime] /\ due'[t] = time
       /\ \A u \in Task \ {t} : due'[u] = due[u]
       /\ after' \subseteq Task /\ after \subseteq after'
       /\ UNCHANGED <<ran, cancelled>> /\ \A w \in Worker : hand[w] # t
  <2>1. (Queued(t)' /\ ~Timed(t)') \/ (~Queued(t)' /\ Timed(t)')
    BY <1>10, <1>11, <1>12
  <2>2. QED
    BY <1>3, <1>11, <1>12, <2>1, Arrives
<1>14. NothingMissed' /\ notified' \in [Worker -> BOOLEAN]
  BY <1>3, AllTold
<1>15. Types'
  BY <1>3, <1>6, <1>13, <1>14 DEF PoolInv, Types
<1>16. \A i \in 1 .. n : timers[i].task # t /\ timers[i].task \in Task
  BY <1>10, Elements DEF Timed, n
<1>17. Once'
  <2>1. \A i, j \in 1 .. n : timers[i].task = timers[j].task => i = j
    BY DEF PoolInv, Once, n
  <2>2. ASSUME NEW i \in 1 .. n + 1, NEW j \in 1 .. n + 1, timers'[i].task = timers'[j].task
        PROVE  i = j
    <3>1. CASE i = k \/ j = k
      BY <1>2, <1>7, <1>9, <1>16, <2>2, <3>1
    <3>2. CASE i # k /\ j # k
      <4>1. \A q \in 1 .. n + 1 : q # k =>
              \E p \in 1 .. n : timers'[q] = timers[p] /\ q = IF p < k THEN p ELSE p + 1
        <5> SUFFICES ASSUME NEW q \in 1 .. n + 1, q # k
                     PROVE  \E p \in 1 .. n : timers'[q] = timers[p]
                                             /\ q = IF p < k THEN p ELSE p + 1
          OBVIOUS
        <5>1. CASE q \in 1 .. k - 1
          BY <1>5, <1>7, <5>1
        <5>2. ASSUME NEW m \in k .. n, q = m + 1
              PROVE  \E p \in 1 .. n : timers'[q] = timers[p]
                                      /\ q = IF p < k THEN p ELSE p + 1
          <6>1. m \in 1 .. n /\ timers'[q] = timers[m] /\ ~(m < k)
            BY <1>5, <1>7, <5>2
          <6>2. QED
            BY <5>2, <6>1
        <5>3. QED
          BY <1>8, <5>1, <5>2
      <4>2. PICK p \in 1 .. n : timers'[i] = timers[p] /\ i = IF p < k THEN p ELSE p + 1
        BY <3>2, <4>1
      <4>3. PICK q \in 1 .. n : timers'[j] = timers[q] /\ j = IF q < k THEN q ELSE q + 1
        BY <3>2, <4>1
      <4>4. p = q
        BY <2>1, <2>2, <4>2, <4>3
      <4>5. QED
        BY <4>2, <4>3, <4>4
    <3>3. QED
      BY <3>1, <3>2
  <2>3. QED
    BY <1>3, <1>6, <2>2 DEF PoolInv, Once
<1>18. Dues'
  <2>1. \A i \in 1 .. Len(tasks') : due'[tasks'[i]] <= now'
    <3>1. \A i \in 1 .. Len(tasks) : tasks[i] \in Task \ {t}
      BY <1>10, Elements DEF Queued
    <3>2. QED
      BY <1>3, <1>13, <3>1 DEF PoolInv, Dues
  <2>2. \A i \in 1 .. Len(timers') : timers'[i].at = due'[timers'[i].task]
    <3> SUFFICES ASSUME NEW i \in 1 .. n + 1
                 PROVE  timers'[i].at = due'[timers'[i].task]
      BY <1>6
    <3>1. CASE i = k
      BY <1>2, <1>7, <1>13, <3>1
    <3>2. CASE i # k
      <4>1. PICK j \in 1 .. n : timers'[i] = timers[j]
        BY <1>9, <3>2
      <4>2. timers[j].at = due[timers[j].task]
        BY DEF PoolInv, Dues, n
      <4>3. QED
        BY <1>13, <1>16, <4>1, <4>2
    <3>3. QED
      BY <3>1, <3>2
  <2>3. \A w \in Worker : hand'[w] \in Task => due'[hand'[w]] <= now'
    BY <1>3, <1>13 DEF PoolInv, Dues
  <2>4. QED
    BY <2>1, <2>2, <2>3 DEF Dues
<1>19. SmallerAtTheBack'
  <2>1. \A i, j \in 1 .. n : i < j => timers[i].at >= timers[j].at
    BY DEF PoolInv, SmallerAtTheBack, n
  <2>2. ASSUME NEW i \in 1 .. n + 1, NEW j \in 1 .. n + 1, i < j
        PROVE  timers'[i].at >= timers'[j].at
    <3>1. CASE j \in 1 .. k - 1
      <4>1. i \in 1 .. k - 1
        BY <1>5, <2>2, <3>1
      <4>2. QED
        BY <1>7, <2>1, <2>2, <3>1, <4>1
    <3>2. CASE j = k
      <4>1. i \in 1 .. k - 1
        BY <1>5, <2>2, <3>2
      <4>2. QED
        BY <1>4, <1>7, <3>2, <4>1
    <3>3. ASSUME NEW q \in k .. n, j = q + 1
          PROVE  timers'[i].at >= timers'[j].at
      <4>1. timers'[j] = timers[q] /\ q \in 1 .. n
        BY <1>7, <3>3
      <4>2. CASE i \in 1 .. k - 1
        <5>1. i < q /\ i \in 1 .. n
          BY <1>5, <4>2
        <5>2. QED
          BY <1>7, <2>1, <4>1, <4>2, <5>1
      <4>3. CASE i = k
        BY <1>4, <1>7, <3>3, <4>1, <4>3
      <4>4. ASSUME NEW p \in k .. n, i = p + 1
            PROVE  timers'[i].at >= timers'[j].at
        <5>1. p < q /\ p \in 1 .. n
          BY <1>5, <2>2, <3>3, <4>4
        <5>2. QED
          BY <1>7, <2>1, <4>1, <4>4, <5>1
      <4>5. QED
        BY <1>8, <4>2, <4>3, <4>4
    <3>4. QED
      BY <1>8, <3>1, <3>2, <3>3
  <2>3. QED
    BY <1>6, <2>2 DEF SmallerAtTheBack
<1>20. LockHeld' /\ Leaving' /\ Drained'
  BY <1>3, <1>13 DEF PoolInv, LockHeld, Leaving, Drained
<1>21. QED
  BY <1>13, <1>14, <1>15, <1>17, <1>18, <1>19, <1>20, ByParts, PTL DEF Control, Places

LEMMA IndexFound ==
  ASSUME PoolInv, NEW t \in Task, IndexOf(t) # 0
  PROVE  IndexOf(t) \in 1 .. Len(timers) /\ timers[IndexOf(t)].task = t
<1> DEFINE P == {i \in 1 .. Len(timers) : timers[i].task = t}
<1>1. IndexOf(t) = (IF P # {} THEN Min(P) ELSE 0)
  BY DEF IndexOf, SelectInSeq
<1>2. P # {} /\ IndexOf(t) = Min(P)
  BY <1>1
<1>3. P \in SUBSET (1 .. Len(timers)) /\ timers \in Seq(Timer)
  BY DEF PoolInv, Types
<1>4. Min(P) \in P
  BY <1>2, <1>3, FirstIndex
<1>5. QED
  BY <1>2, <1>4

LEMMA CancelStep ==
  ASSUME PoolInv, NEW t \in Task, Cancel(t)
  PROVE  PoolInv'
<1> DEFINE n == Len(timers)
<1>1. /\ IndexOf(t) # 0 /\ timers' = RemoveAt(timers, IndexOf(t)) /\ cancelled' = cancelled \cup {t}
      /\ UNCHANGED <<now, tasks, going, pc, hand, deadline, notified, lock, due, ran, after, odd>>
  BY DEF Cancel, clockVars, workerVars
<1>2. PICK k \in 1 .. n : k = IndexOf(t) /\ timers[k].task = t
  BY <1>1, IndexFound
<1>3. timers \in Seq(Timer) /\ n \in Nat /\ \A i \in 1 .. n : timers[i].at \in 0 .. MaxTime
  BY Elements DEF PoolInv, Types
<1>4. /\ timers' \in Seq(Timer) /\ Len(timers') = n - 1
      /\ \A i \in 1 .. n - 1 : timers'[i] = IF i < k THEN timers[i] ELSE timers[i + 1]
  BY <1>1, <1>2, <1>3, RemoveAtElements
<1> HIDE DEF n
<1>5. \A i \in 1 .. n - 1 : \E j \in 1 .. n :
         /\ timers'[i] = timers[j] /\ j # k /\ j >= i
         /\ j = IF i < k THEN i ELSE i + 1
  BY <1>3, <1>4
<1>6. \A j \in 1 .. n : j # k => \E i \in 1 .. n - 1 : timers'[i] = timers[j]
  <2> SUFFICES ASSUME NEW j \in 1 .. n, j # k
               PROVE  \E i \in 1 .. n - 1 : timers'[i] = timers[j]
    OBVIOUS
  <2>1. CASE j < k
    BY <1>3, <1>4, <2>1
  <2>2. CASE j > k
    <3>1. j - 1 \in 1 .. n - 1 /\ ~(j - 1 < k) /\ (j - 1) + 1 = j
      BY <1>3, <2>2
    <3>2. QED
      BY <1>4, <3>1
  <2>3. QED
    BY <1>3, <2>1, <2>2
<1>7. \A i, j \in 1 .. n : timers[i].task = timers[j].task => i = j
  BY DEF PoolInv, Once, n
<1>8. Timed(t) /\ ~Timed(t)' /\ \A u \in Task \ {t} : Timed(u)' <=> Timed(u)
  <2>1. Timed(t)
    BY <1>2 DEF Timed, n
  <2>2. ~Timed(t)'
    BY <1>2, <1>4, <1>5, <1>7 DEF Timed
  <2>3. ASSUME NEW u \in Task \ {t}, Timed(u)'
        PROVE  Timed(u)
    BY <1>4, <1>5, <2>3 DEF Timed, n
  <2>4. ASSUME NEW u \in Task \ {t}, Timed(u)
        PROVE  Timed(u)'
    BY <1>2, <1>4, <1>6, <2>4 DEF Timed, n
  <2>5. QED
    BY <2>1, <2>2, <2>3, <2>4
<1>9. \A u \in Task : (Queued(u)' <=> Queued(u)) /\ (Held(u)' <=> Held(u))
  BY <1>1 DEF Queued, Held
<1>10. Apart'
  <2>1. ~Queued(t) /\ ~Held(t) /\ ran[t] = 0 /\ due[t] # -1
    BY <1>8 DEF PoolInv, Apart
  <2> SUFFICES ASSUME NEW u \in Task
               PROVE  /\ Queued(u)' => ~Timed(u)' /\ ~Held(u)' /\ ran'[u] = 0 /\ u \notin cancelled'
                      /\ Timed(u)' => ~Held(u)' /\ ran'[u] = 0 /\ u \notin cancelled'
                      /\ Held(u)' => ran'[u] = 0 /\ u \notin cancelled'
                      /\ ran'[u] = 1 => u \notin cancelled'
                      /\ due'[u] # -1 <=> Queued(u)' \/ Timed(u)' \/ Held(u)' \/ ran'[u] = 1 \/ u \in cancelled'
    BY DEF Apart
  <2>2. CASE u = t
    BY <1>1, <1>8, <1>9, <2>1, <2>2
  <2>3. CASE u # t
    BY <1>1, <1>8, <1>9, <2>3 DEF PoolInv, Apart
  <2>4. QED
    BY <2>2, <2>3
<1>11. Types'
  BY <1>1, <1>4 DEF PoolInv, Types
<1>12. Once'
  <2>1. ASSUME NEW i \in 1 .. n - 1, NEW j \in 1 .. n - 1, timers'[i].task = timers'[j].task
        PROVE  i = j
    BY <1>3, <1>5, <1>7, <2>1
  <2>2. QED
    BY <1>1, <1>4, <2>1 DEF PoolInv, Once
<1>13. Dues'
  BY <1>1, <1>4, <1>5 DEF PoolInv, Dues, n
<1>14. SmallerAtTheBack'
  <2>1. ASSUME NEW i \in 1 .. n - 1, NEW j \in 1 .. n - 1, i < j
        PROVE  timers'[i].at >= timers'[j].at
    <3>1. PICK p \in 1 .. n : timers'[i] = timers[p] /\ p = IF i < k THEN i ELSE i + 1
      BY <1>5
    <3>2. PICK q \in 1 .. n : timers'[j] = timers[q] /\ q = IF j < k THEN j ELSE j + 1
      BY <1>5
    <3>3. p < q
      BY <1>3, <2>1, <3>1, <3>2
    <3>4. QED
      BY <3>1, <3>2, <3>3 DEF PoolInv, SmallerAtTheBack, n
  <2>2. QED
    BY <1>4, <2>1 DEF SmallerAtTheBack
<1>15. LockHeld' /\ Leaving' /\ Drained'
  BY <1>1 DEF PoolInv, LockHeld, Leaving, Drained
<1>16. NothingMissed'
  <2> SUFFICES ASSUME \A w \in Worker : Idle(w)'
               PROVE  NothingMissed'
    BY DEF NothingMissed
  <2>1. \A w \in Worker : Idle(w)
    BY <1>1 DEF Idle, Waiting
  <2>2. timers # <<>> /\ n > 0
    <3>1. n # 0
      BY <1>2, <1>3
    <3>2. QED
      BY <1>3, <3>1, EmptySeq DEF n
  <2>3. PICK w \in Worker : pc[w] = "next" \/ deadline[w] \in 0 .. timers[n].at
    BY <2>1, <2>2 DEF PoolInv, NothingMissed, n
  <2>4. ASSUME timers' # <<>>
        PROVE  timers'[n - 1].at >= timers[n].at /\ timers'[n - 1].at \in 0 .. MaxTime
    <3>1. n - 1 \in 1 .. n - 1
      BY <1>3, <1>4, <2>2, <2>4, EmptySeq
    <3>2. PICK j \in 1 .. n : timers'[n - 1] = timers[j] /\ j >= n - 1
      BY <1>5, <3>1
    <3>3. j = n \/ (j < n /\ n \in 1 .. n)
      BY <1>3, <3>2
    <3>4. timers[j].at >= timers[n].at
      BY <1>3, <3>3 DEF PoolInv, SmallerAtTheBack, n
    <3>5. QED
      BY <1>3, <3>2, <3>4
  <2>5. timers' # <<>> => pc'[w] = "next" \/ deadline'[w] \in 0 .. timers'[Len(timers')].at
    <3>1. deadline[w] \in Int /\ timers[n].at \in Int
      BY <1>3, <2>2, TaskAssumption DEF PoolInv, Types
    <3>2. QED
      BY <1>1, <1>4, <2>3, <2>4, <3>1
  <2>6. QED
    BY <1>1, <2>1, <2>5 DEF PoolInv, NothingMissed
<1>17. QED
  BY <1>10, <1>11, <1>12, <1>13, <1>14, <1>15, <1>16, ByParts, PTL DEF Control, Places

----------------------------------------------------------------------------
(* The properties.                                                         *)

LEMMA NextPool ==
  ASSUME Calls = {}, PoolInv, [Next]_vars
  PROVE  PoolInv'
<1>1. CASE Start \/ Stop \/ Tick
  BY <1>1, StartStep, StopStep, TickStep
<1>2. ASSUME NEW w \in Worker, Work(w)
      PROVE  PoolInv'
  <2>1. ~WorkerFaults(w)
    BY TaskAssumption DEF WorkerFaults, PoolInv, Types
  <2>2. QED
    BY <1>2, <2>1, LoopStep, TakesStep, RunsStep, LocksStep, WaitsStep DEF Work
<1>3. ASSUME NEW t \in Task, Push(t) \/ Cancel(t) \/ PopTask(t)
      PROVE  PoolInv'
  BY <1>3, PushStep, CancelStep DEF PopTask
<1>4. ASSUME NEW t \in Task, NEW d \in Delays, PushDelayed(t, d) \/ PushPair(t, d) \/ Delay(t, d)
      PROVE  PoolInv'
  BY <1>4, PushDelayedStep DEF PushPair, Delay
<1>5. CASE UNCHANGED vars
  <2>1. UNCHANGED <<now, tasks, timers, going, pc, hand, deadline, notified, lock, due, ran,
                    cancelled, after, odd>>
    BY <1>5 DEF vars, clockVars, poolVars, workerVars, historyVars
  <2>2. Types' /\ Control'
    BY <2>1 DEF PoolInv, Types, Control, LockHeld, NothingMissed, Leaving, Drained, Idle, Waiting
  <2>3. Places'
    BY <2>1, QuietPlaces
  <2>4. QED
    BY <2>2, <2>3, ByParts, PTL
<1>6. QED
  BY <1>1, <1>2, <1>3, <1>4, <1>5 DEF Next

\* What the invariant of the pool says at any moment, without a count in it.
THEOREM Pool == ASSUME Calls = {} PROVE Spec => []PoolInv
<1>1. PoolInv /\ [Next]_vars => PoolInv'
  BY NextPool
<1>2. QED
  BY InitPool, <1>1, PTL DEF Spec

\* The variables of the pool keep their types, and a worker holds a task exactly
\* while it runs one.
THEOREM TypeCorrect == ASSUME Calls = {} PROVE Spec => []TypeOK
<1>1. PoolInv => TypeOK
  <2> SUFFICES ASSUME PoolInv
               PROVE  TypeOK
    OBVIOUS
  <2>1. timers \in Seq([at : 0 .. MaxTime, task : Task \cup {NoTask}])
    <3>1. Timer \subseteq [at : 0 .. MaxTime, task : Task \cup {NoTask}]
      BY DEF Timer
    <3>2. QED
      BY <3>1, SeqMonotonic DEF PoolInv, Types
  <2>2. ran \in [Task -> Nat]
    <3>1. ran \in [Task -> {0, 1}] /\ {0, 1} \subseteq Nat
      BY DEF PoolInv, Types
    <3>2. QED
      BY <3>1
  <2>3. \A w \in Worker : hand[w] # NoTask => pc[w] \in {"run", "dead"}
    BY DEF PoolInv, Types
  <2>4. QED
    BY <2>1, <2>2, <2>3 DEF TypeOK, PoolInv, Types
<1>2. QED
  BY <1>1, Pool, PTL

\* No worker runs a delayed task before its time (pushDelayed, pop).
THEOREM NeverEarly == ASSUME Calls = {} PROVE Spec => []NotEarly
<1>1. PoolInv => NotEarly
  BY DEF PoolInv, Dues, NotEarly
<1>2. QED
  BY <1>1, Pool, PTL

\* The timer that runs next is at the back, which pop(), ready() and next() rely on.
THEOREM Sorted == ASSUME Calls = {} PROVE Spec => []TimersSorted
<1>1. PoolInv => TimersSorted
  BY DEF PoolInv, TimersSorted
<1>2. QED
  BY <1>1, Pool, PTL

\* Workers that all wait unnotified have nothing to do, and one of them wakes in
\* time for the next timer (push, pushDelayed, stop, _main).
THEOREM WakeupNotLost == ASSUME Calls = {} PROVE Spec => []NoLostWakeup
<1>1. PoolInv => NoLostWakeup
  <2> SUFFICES ASSUME PoolInv, \A w \in Worker : Waiting(w)
               PROVE  /\ going /\ tasks = <<>>
                      /\ timers # <<>> => \E w \in Worker : deadline[w] \in 0 .. Last(timers).at
    BY DEF NoLostWakeup
  <2>1. \A w \in Worker : Idle(w) /\ pc[w] # "next"
    BY DEF Idle, Waiting
  <2>2. QED
    BY <2>1 DEF PoolInv, NothingMissed, Last
<1>2. QED
  BY <1>1, Pool, PTL

\* When the workers have left, what is still queued was pushed after stop()
\* (_main: "Execute remaining tasks").
THEOREM DrainDone == ASSUME Calls = {} PROVE Spec => []DrainComplete
<1>1. PoolInv => DrainComplete
  <2> SUFFICES ASSUME PoolInv, \A w \in Worker : pc[w] = "exited"
               PROVE  ToSet(tasks) \subseteq after
    BY DEF DrainComplete
  <2>1. \A i \in 1 .. Len(tasks) : tasks[i] \in after
    BY TaskAssumption DEF PoolInv, Drained
  <2>2. DOMAIN tasks = 1 .. Len(tasks)
    BY LenProperties DEF PoolInv, Types
  <2>3. QED
    BY <2>1, <2>2 DEF ToSet
<1>2. QED
  BY <1>1, Pool, PTL

\* A task that was pushed is in exactly one place: queued, a timer, in a worker's
\* hand, run, or cancelled (pop, cancel, _main).
THEOREM InOnePlace == ASSUME Calls = {} PROVE Spec => []OnePlace
<1>1. PoolInv => OnePlace
  <2> SUFFICES ASSUME PoolInv, NEW t \in Task
               PROVE  Cardinality({i \in 1..Len(tasks) : tasks[i] = t})
                        + Cardinality({i \in 1..Len(timers) : timers[i].task = t})
                        + Cardinality({w \in Worker : hand[w] = t})
                        + ran[t] + (IF t \in cancelled THEN 1 ELSE 0)
                      = IF due[t] = -1 THEN 0 ELSE 1
    BY DEF OnePlace
  <2> DEFINE Q == {i \in 1..Len(tasks) : tasks[i] = t}
             T == {i \in 1..Len(timers) : timers[i].task = t}
             H == {w \in Worker : hand[w] = t}
  <2>1. /\ Queued(t) => \E i : Q = {i}
        /\ ~Queued(t) => Q = {}
    <3>1. ASSUME NEW i \in Q
          PROVE  Q = {i}
      BY DEF PoolInv, Once
    <3>2. QED
      BY <3>1 DEF Queued
  <2>2. /\ Timed(t) => \E i : T = {i}
        /\ ~Timed(t) => T = {}
    <3>1. ASSUME NEW i \in T
          PROVE  T = {i}
      BY DEF PoolInv, Once
    <3>2. QED
      BY <3>1 DEF Timed
  <2>3. /\ Held(t) => \E w : H = {w}
        /\ ~Held(t) => H = {}
    <3>1. ASSUME NEW w \in H
          PROVE  H = {w}
      BY DEF PoolInv, Once
    <3>2. QED
      BY <3>1 DEF Held
  <2> HIDE DEF Q, T, H
  <2>4. /\ Cardinality(Q) = IF Queued(t) THEN 1 ELSE 0
        /\ Cardinality(T) = IF Timed(t) THEN 1 ELSE 0
        /\ Cardinality(H) = IF Held(t) THEN 1 ELSE 0
    BY <2>1, <2>2, <2>3, FS_EmptySet, FS_Singleton
  <2>5. ran[t] \in {0, 1} /\ due[t] \in Int
    BY TaskAssumption DEF PoolInv, Types
  <2>6. Cardinality(Q) + Cardinality(T) + Cardinality(H) + ran[t]
          + (IF t \in cancelled THEN 1 ELSE 0) = IF due[t] = -1 THEN 0 ELSE 1
    <3>1. CASE Queued(t)
      BY <2>4, <2>5, <3>1 DEF PoolInv, Apart
    <3>2. CASE Timed(t)
      BY <2>4, <2>5, <3>2 DEF PoolInv, Apart
    <3>3. CASE Held(t)
      BY <2>4, <2>5, <3>3 DEF PoolInv, Apart
    <3>4. CASE ~Queued(t) /\ ~Timed(t) /\ ~Held(t)
      BY <2>4, <2>5, <3>4 DEF PoolInv, Apart
    <3>5. QED
      BY <3>1, <3>2, <3>3, <3>4
  <2>7. QED
    BY <2>6 DEF Q, T, H
<1>2. QED
  BY <1>1, Pool, PTL
=============================================================================

------------------------------ MODULE TaskPool ------------------------------
(***************************************************************************)
(* task_pool.h and thread_pool.h: the pool that runs input messages,       *)
(* repeated keys and the watchdogs of join() and of the signal handlers.   *)
(*                                                                         *)
(* Any thread calls push, pushDelayed, cancel, delay, pop(id) and stop; a  *)
(* worker runs ThreadPool::_main.  push, pushDelayed and stop are made     *)
(* under _lock, the mutex of the condition variable; cancel, delay and pop *)
(* take _task_mutex alone.                                                 *)
(***************************************************************************)
EXTENDS Integers, Sequences, SequencesExt, FiniteSets

CONSTANTS
  Task,         \* the tasks a run may push, each once
  NoTask,       \* what pop(id) leaves in its entry
  Worker,
  Delays,       \* the delays in use
  MaxTime,      \* bound of the clock
  Calls         \* which of "delay", "pop" and "pair" are called (none of them is in
                \* this repository)

ASSUME TaskAssumption ==
  NoTask \notin Task /\ Delays \subseteq Nat /\ MaxTime \in Nat /\ Worker # {}
ASSUME CallsAssumption == Calls \subseteq {"delay", "pop", "pair"}

VARIABLES
  now,
  tasks,      \* _tasks, the front first
  timers,     \* _timer_tasks: [at, task], the next one to run last
  going,      \* _continue
  lock,       \* whether a worker holds _lock between its steps
  pc, hand,   \* of each worker: label, and the task it runs
  deadline,   \* of each worker: what wait_until was given; -1 for wait
  notified,   \* of each worker: it was notified
  \* history
  due,        \* when a task may run, -1 before it is pushed
  ran,        \* how often a task was run
  cancelled,  \* the tasks that cancel() or pop(id) said they removed
  after,      \* the tasks that were pushed after stop()
  odd         \* one of Calls was made

clockVars   == <<now>>
poolVars    == <<tasks, timers>>
workerVars  == <<pc, hand, deadline, notified, lock>>
historyVars == <<due, ran, cancelled, after, odd>>
vars == <<clockVars, poolVars, going, workerVars, historyVars>>

Label == {"off", "loop", "pop", "run", "lock", "next", "wait", "drain", "exited",
          "dead"}

Init ==
  /\ now = 0 /\ tasks = <<>> /\ timers = <<>> /\ going = FALSE
  /\ lock = FALSE /\ pc = [w \in Worker |-> "off"]
  /\ hand = [w \in Worker |-> NoTask]
  /\ deadline = [w \in Worker |-> -1] /\ notified = [w \in Worker |-> FALSE]
  /\ due = [t \in Task |-> -1] /\ ran = [t \in Task |-> 0]
  /\ cancelled = {} /\ after = {} /\ odd = FALSE

----------------------------------------------------------------------------
(* The containers.                                                         *)

\* Altered form: the search for the place of a new timer goes on past equal or
\* earlier ones, so that every new timer is the next to run.
InsertLast(entry) == Append(timers, entry)

\* A new timer goes before the first one that is earlier than it.
Insert(entry) ==
  LET i == SelectInSeq(timers, LAMBDA e : e.at < entry.at)
  IN  InsertAt(timers, IF i = 0 THEN Len(timers) + 1 ELSE i, entry)

IndexOf(t) == SelectInSeq(timers, LAMBDA e : e.task = t)

IsDue == timers # <<>> /\ Last(timers).at <= now

\* Altered form: a timer is handed out before its time.
PopEarly ==
  \/ /\ tasks # <<>>
     /\ tasks' = Tail(tasks) /\ UNCHANGED timers
  \/ /\ tasks = <<>> /\ timers # <<>>
     /\ timers' = Front(timers) /\ UNCHANGED tasks

\* pop(): the front of _tasks, else the last timer when its time has come.
Pop ==
  \/ /\ tasks # <<>>
     /\ tasks' = Tail(tasks) /\ UNCHANGED timers
  \/ /\ tasks = <<>> /\ IsDue
     /\ timers' = Front(timers) /\ UNCHANGED tasks

Popped == IF tasks # <<>> THEN Head(tasks) ELSE Last(timers).task

Ready == tasks # <<>> \/ IsDue

----------------------------------------------------------------------------
(* The clients.                                                            *)

Waiting(w) == pc[w] = "wait" /\ ~notified[w]

NotifyOne ==
  IF \E w \in Worker : Waiting(w)
    THEN \E w \in Worker :
           Waiting(w) /\ notified' = [notified EXCEPT ![w] = TRUE]
    ELSE UNCHANGED notified

NotifyAll == notified' = [w \in Worker |-> notified[w] \/ pc[w] = "wait"]

Stopped == ~going /\ \A w \in Worker : pc[w] # "off"

Known(t, time) ==
  /\ due[t] = -1
  /\ due' = [due EXCEPT ![t] = time]
  /\ after' = IF Stopped THEN after \cup {t} ELSE after
  /\ UNCHANGED <<ran, cancelled>>

\* Altered form: the task is queued without _lock, and without a notification.
PushUnlocked(t) ==
  /\ Known(t, now)
  /\ tasks' = Append(tasks, t)
  /\ UNCHANGED <<clockVars, timers, going, workerVars, odd>>

Push(t) ==
  /\ ~lock
  /\ Known(t, now)
  /\ tasks' = Append(tasks, t)
  /\ NotifyOne
  /\ UNCHANGED <<clockVars, timers, going, pc, hand, deadline, lock, odd>>

DelayedUntil(t, d) ==
  /\ ~lock /\ now + d <= MaxTime
  /\ Known(t, now + d)
  /\ timers' = Insert([at |-> now + d, task |-> t])
  /\ UNCHANGED <<clockVars, tasks, going, pc, hand, deadline, lock>>

\* Altered form: the worker sleeps on, to the deadline it was given.
PushDelayedSilently(t, d) == DelayedUntil(t, d) /\ UNCHANGED <<notified, odd>>

PushDelayed(t, d) == DelayedUntil(t, d) /\ NotifyAll /\ UNCHANGED odd

\* The overload of pushDelayed that takes a time and a task notifies nobody.
PushPair(t, d) ==
  /\ "pair" \in Calls
  /\ DelayedUntil(t, d)
  /\ odd' = TRUE
  /\ UNCHANGED notified

\* Altered form: the entry stays.
CancelKeeps(t) ==
  /\ IndexOf(t) # 0
  /\ cancelled' = cancelled \cup {t}
  /\ UNCHANGED <<clockVars, poolVars, going, workerVars, due, ran, after, odd>>

\* Only a timer can be cancelled, until a worker popped it.
Cancel(t) ==
  /\ IndexOf(t) # 0
  /\ timers' = RemoveAt(timers, IndexOf(t))
  /\ cancelled' = cancelled \cup {t}
  /\ UNCHANGED <<clockVars, tasks, going, workerVars, due, ran, after, odd>>

\* The loop of delay() over the entry and those before it: of each pair of neighbours
\* the later one goes to the front, and on with the next pair.
Bubble(before, entry) ==
  LET swap(e, acc) == IF acc[1].at > e.at THEN <<acc[1], <<e>> \o acc[2]>>
                                          ELSE <<e, <<acc[1]>> \o acc[2]>>
      result == FoldRight(swap, before, <<entry, <<>>>>)
  IN  <<result[1]>> \o result[2]

\* delay(): the entry gets its time, and may move to the front; never to the back.
Delay(t, d) ==
  /\ "delay" \in Calls /\ now + d <= MaxTime
  /\ IndexOf(t) # 0
  /\ timers' = Bubble(SubSeq(timers, 1, IndexOf(t) - 1), [at |-> now + d, task |-> t])
                 \o SubSeq(timers, IndexOf(t) + 1, Len(timers))
  /\ due' = [due EXCEPT ![t] = now + d]
  /\ odd' = TRUE
  /\ UNCHANGED <<clockVars, tasks, going, workerVars, ran, cancelled, after>>

\* pop(id): the task is moved out of its entry, the entry stays.
PopTask(t) ==
  /\ "pop" \in Calls
  /\ IndexOf(t) # 0
  /\ timers' = [timers EXCEPT ![IndexOf(t)].task = NoTask]
  /\ cancelled' = cancelled \cup {t}
  /\ odd' = TRUE
  /\ UNCHANGED <<clockVars, tasks, going, workerVars, due, ran, after>>

Start ==
  /\ \A w \in Worker : pc[w] = "off"
  /\ going' = TRUE
  /\ pc' = [w \in Worker |-> "loop"]
  /\ UNCHANGED <<clockVars, poolVars, hand, deadline, notified, lock, historyVars>>

\* Altered form: waiting workers are not told.
StopSilently ==
  /\ going /\ ~lock
  /\ going' = FALSE
  /\ UNCHANGED <<clockVars, poolVars, workerVars, historyVars>>

Stop ==
  /\ going /\ ~lock
  /\ going' = FALSE
  /\ NotifyAll
  /\ UNCHANGED <<clockVars, poolVars, pc, hand, deadline, lock, historyVars>>

Tick ==
  /\ now < MaxTime
  /\ now' = now + 1
  /\ UNCHANGED <<poolVars, going, workerVars, historyVars>>

----------------------------------------------------------------------------
(* ThreadPool::_main.                                                      *)

Goto(w, label) == pc' = [pc EXCEPT ![w] = label]

\* Altered form: a worker that saw the stop leaves at once.
AfterStopLeaves == "exited"

\* The remaining tasks are run before the worker leaves.
AfterStop == "drain"

WorkerLoop(w) ==
  /\ pc[w] = "loop"
  /\ Goto(w, IF going THEN "pop" ELSE AfterStop)
  /\ UNCHANGED <<clockVars, poolVars, going, hand, deadline, notified, lock,
                 historyVars>>

\* A task in the loop, or in the draining that follows it.
WorkerTakes(w) ==
  /\ pc[w] \in {"pop", "drain"}
  /\ Pop
  /\ hand' = [hand EXCEPT ![w] = Popped]
  /\ Goto(w, "run")
  /\ UNCHANGED <<clockVars, going, deadline, notified, lock, historyVars>>

\* Altered form: the task is not let go after it ran.
WorkerRunsHolding(w) ==
  /\ pc[w] = "run" /\ hand[w] \in Task
  /\ ran' = [ran EXCEPT ![hand[w]] = @ + 1]
  /\ Goto(w, "loop")
  /\ UNCHANGED <<clockVars, poolVars, going, hand, deadline, notified, lock, due,
                 cancelled, after, odd>>

WorkerRuns(w) ==
  /\ pc[w] = "run" /\ hand[w] \in Task
  /\ ran' = [ran EXCEPT ![hand[w]] = @ + 1]
  /\ hand' = [hand EXCEPT ![w] = NoTask]
  /\ Goto(w, "loop")
  /\ UNCHANGED <<clockVars, poolVars, going, deadline, notified, lock, due,
                 cancelled, after, odd>>

\* Running the empty entry that pop(id) left is undefined: the process ends.
WorkerFaults(w) ==
  /\ pc[w] = "run" /\ hand[w] = NoTask
  /\ pc' = [v \in Worker |-> "dead"]
  /\ UNCHANGED <<clockVars, poolVars, going, hand, deadline, notified, lock,
                 historyVars>>

WorkerFindsNone(w) ==
  /\ pc[w] = "pop" /\ ~Ready
  /\ Goto(w, "lock")
  /\ UNCHANGED <<clockVars, poolVars, going, hand, deadline, notified, lock,
                 historyVars>>

\* The lock is taken: ready() and _continue are looked at again.
WorkerLocks(w) ==
  /\ pc[w] = "lock" /\ ~lock
  /\ Goto(w, IF Ready THEN "loop" ELSE IF ~going THEN AfterStop ELSE "next")
  /\ lock' = (~Ready /\ going)
  /\ UNCHANGED <<clockVars, poolVars, going, hand, deadline, notified, historyVars>>

\* next(), then the wait that gives the lock back.
WorkerWaits(w) ==
  /\ pc[w] = "next"
  /\ deadline' = [deadline EXCEPT ![w] = IF timers = <<>> THEN -1 ELSE Last(timers).at]
  /\ notified' = [notified EXCEPT ![w] = FALSE]
  /\ lock' = FALSE
  /\ Goto(w, "wait")
  /\ UNCHANGED <<clockVars, poolVars, going, hand, historyVars>>

WorkerWakes(w) ==
  /\ pc[w] = "wait" /\ ~lock
  /\ notified[w] \/ deadline[w] \in 0..now
  /\ deadline' = [deadline EXCEPT ![w] = -1]
  /\ notified' = [notified EXCEPT ![w] = FALSE]
  /\ Goto(w, "loop")
  /\ UNCHANGED <<clockVars, poolVars, going, hand, lock, historyVars>>

WorkerExits(w) ==
  /\ pc[w] = "drain" /\ ~Ready
  /\ Goto(w, "exited")
  /\ UNCHANGED <<clockVars, poolVars, going, hand, deadline, notified, lock,
                 historyVars>>

Work(w) ==
  \/ WorkerLoop(w) \/ WorkerTakes(w) \/ WorkerRuns(w) \/ WorkerFaults(w) \/ WorkerFindsNone(w)
  \/ WorkerLocks(w) \/ WorkerWaits(w) \/ WorkerWakes(w) \/ WorkerExits(w)

----------------------------------------------------------------------------
Next ==
  \/ Start \/ Stop \/ Tick
  \/ \E w \in Worker : Work(w)
  \/ \E t \in Task : \/ Push(t) \/ Cancel(t) \/ PopTask(t)
                     \/ \E d \in Delays : PushDelayed(t, d) \/ PushPair(t, d)
                                           \/ Delay(t, d)

Spec == Init /\ [][Next]_vars

\* A worker that can move does, time passes, the pool is started.
FairSpec == Spec /\ WF_vars(Start) /\ WF_vars(Tick) /\ \A w \in Worker : WF_vars(Work(w))

----------------------------------------------------------------------------
(* Properties.                                                             *)

\* The variables keep their types, and only a running worker holds a task.
TypeOK ==
  /\ now \in 0..MaxTime
  /\ tasks \in Seq(Task)
  /\ timers \in Seq([at : 0..MaxTime, task : Task \cup {NoTask}])
  /\ going \in BOOLEAN /\ lock \in BOOLEAN
  /\ pc \in [Worker -> Label] /\ hand \in [Worker -> Task \cup {NoTask}]
  /\ \A w \in Worker : hand[w] # NoTask => pc[w] \in {"run", "dead"}
  /\ deadline \in [Worker -> -1..MaxTime] /\ notified \in [Worker -> BOOLEAN]
  /\ due \in [Task -> -1..MaxTime] /\ ran \in [Task -> Nat]
  /\ cancelled \subseteq Task /\ after \subseteq Task
  /\ odd \in BOOLEAN

\* A task that was pushed is in exactly one place: queued, a timer, in the hand of a
\* worker, run (once), or cancelled.  So cancel() returning true means that the task
\* never runs, and returning false that it has run or will.
OnePlace ==
  \A t \in Task :
    Cardinality({i \in 1..Len(tasks) : tasks[i] = t})
      + Cardinality({i \in 1..Len(timers) : timers[i].task = t})
      + Cardinality({w \in Worker : hand[w] = t})
      + ran[t] + (IF t \in cancelled THEN 1 ELSE 0)
    = IF due[t] = -1 THEN 0 ELSE 1

\* No worker takes a delayed task before its time.
NotEarly == \A w \in Worker : hand[w] \in Task => due[hand[w]] <= now

\* delay(): "smaller time goes to the back".
SmallerAtTheBack ==
  \A i, j \in 1..Len(timers) : i < j => timers[i].at >= timers[j].at

\* The calls this repository makes keep the timers in that order, which pop(), ready()
\* and next() rely on.
TimersSorted == ~odd => SmallerAtTheBack

\* When every worker waits and none was notified, there is nothing to run, the pool
\* was not stopped, and one of them wakes by itself in time for the next timer.
NoLostWakeup ==
  ~odd /\ (\A w \in Worker : Waiting(w)) =>
    /\ going /\ tasks = <<>>
    /\ timers # <<>> => \E w \in Worker : deadline[w] \in 0..Last(timers).at

\* _main: "Execute remaining tasks": when the workers have left, what is still queued
\* was pushed after the stop.
DrainComplete ==
  (\A w \in Worker : pc[w] = "exited") => ToSet(tasks) \subseteq after

\* Every task runs in the end, unless it is cancelled or the pool is stopped first.
EachRuns ==
  \A t \in Task :
    due[t] # -1 ~> ran[t] = 1 \/ t \in cancelled \/ Stopped \/ odd

\* After stop() the workers leave, so that join() returns.
StopEnds == Stopped ~> (\A w \in Worker : pc[w] \in {"exited", "dead"})
=============================================================================

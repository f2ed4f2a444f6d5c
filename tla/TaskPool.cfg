\* Two workers, two tasks, every call.
SPECIFICATION FairSpec
CONSTANTS
  Task = {t1, t2}
  NoTask = NoTask
  Worker = {w1, w2}
  Delays = {1, 2}
  MaxTime = 2
  Calls = {"delay", "pop", "pair"}
INVARIANTS TypeOK OnePlace NotEarly TimersSorted NoLostWakeup DrainComplete
PROPERTIES EachRuns StopEnds
\* A stopped pool, or an idle one at the bound of the clock, rests.
CHECK_DEADLOCK FALSE

\* Three launch sessions, fairness.
SPECIFICATION FairSpec
CONSTANTS
  Launch = {l1, l2, l3}
  NoLaunch = NoLaunch
INVARIANTS TypeOK PendingHasDeadline ClearLosesToTimer
PROPERTIES ImplementsSlot PendingLeaves
\* When all requests are made the host waits for more.
CHECK_DEADLOCK FALSE

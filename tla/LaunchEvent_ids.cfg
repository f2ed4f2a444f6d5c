\* What the code does against IdMatches.
SPECIFICATION Spec
CONSTANTS
  Launch = {l1, l2}
  NoLaunch = NoLaunch
INVARIANT IdMatches
\* When all requests are made the host waits for more.
CHECK_DEADLOCK FALSE

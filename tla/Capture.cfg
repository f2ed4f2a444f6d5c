\* Two encoding threads; the capture thread makes two displays.
SPECIFICATION CapSpec
CONSTANTS
  Encoder = {e1, e2}
  MaxDisplays = 2
INVARIANTS NobodyWaitsOnDeadCapture
PROPERTIES ReinitDrains EncoderLeaves
\* When all sessions have ended nothing is left to do.
CHECK_DEADLOCK FALSE

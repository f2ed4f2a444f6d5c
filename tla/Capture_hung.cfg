\* One encoding thread; the capture thread reinitialises once.
SPECIFICATION CapSpec
CONSTANTS
  Encoder = {e1}
  MaxDisplays = 2
PROPERTY StreamingContinues
CHECK_DEADLOCK FALSE

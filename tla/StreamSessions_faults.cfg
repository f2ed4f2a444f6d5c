\* One session with both media threads, under both faults.
SPECIFICATION Spec
CONSTANTS
  Session = {s1}
  Peer = {p1}
  Kind = {"video", "audio"}
  NoSession = NoSession
  NoPeer = NoPeer
  NoOwner = NoOwner
  MaxRequests = 2
  Faults = {"signal", "broadcast"}
INVARIANTS NoUseAfterFree ContextHeld

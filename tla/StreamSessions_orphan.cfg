\* What the code does against PendingServed.
SPECIFICATION Spec
CONSTANTS
  Session = {s1}
  Peer = {p1}
  Kind = {"video"}
  NoSession = NoSession
  NoPeer = NoPeer
  NoOwner = NoOwner
  MaxRequests = 2
  Faults = {}
INVARIANT PendingServed

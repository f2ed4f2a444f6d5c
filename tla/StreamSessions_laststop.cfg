\* What the code does against WillStopWhenLast.
SPECIFICATION Spec
CONSTANTS
  Session = {s1,s2}
  Peer = {p1}
  Kind = {"video"}
  NoSession = NoSession
  NoPeer = NoPeer
  NoOwner = NoOwner
  MaxRequests = 2
  Faults = {}
PROPERTY WillStopWhenLast

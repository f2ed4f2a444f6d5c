\* Two sessions, one media thread each, two HTTPS requests.
SPECIFICATION Spec
CONSTANTS
  Session = {s1, s2}
  Peer = {p1}
  Kind = {"video"}
  NoSession = NoSession
  NoPeer = NoPeer
  NoOwner = NoOwner
  MaxRequests = 2
  Faults = {}
SYMMETRY Symmetry
INVARIANTS TypeOK NoUseAfterFree PeerMapSound CountMatchesSlots
PROPERTY StopIsFinal

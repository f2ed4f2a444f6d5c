\* One session, fairness.
SPECIFICATION FairSpec
CONSTANTS
  Session = {s1}
  Peer = {p1}
  Kind = {"video"}
  NoSession = NoSession
  NoPeer = NoPeer
  NoOwner = NoOwner
  MaxRequests = 2
  Faults = {}
PROPERTIES StopReleases AwaitingResolved RequestReturns

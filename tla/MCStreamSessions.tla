-------------------------- MODULE MCStreamSessions --------------------------
(* Instances of StreamSessions for TLC. *)
EXTENDS StreamSessions, TLC

Symmetry == Permutations(Session) \cup Permutations(Peer)
=============================================================================

-------------------------------- MODULE Gate --------------------------------
(***************************************************************************)
(* The door of the GameStream HTTPS server: the TLS handshake with the     *)
(* registry of client certificates (nvhttp.cpp, client_tls and the         *)
(* server's accept), the verification of the bearer token                  *)
(* (nvhttp_token.cpp) and check_token, which joins the two by the address  *)
(* of the client.  The server runs on one thread; clients connect, give    *)
(* up, and come back from an address they had before.                      *)
(***************************************************************************)
EXTENDS Naturals, Sequences, SequencesExt

CONSTANTS
  Connection,   \* the connections a run may have at a time
  PeerAddress,  \* the client endpoints
  RegistryCap   \* kCap, 256 in the code

ASSUME GateAssumption ==
  /\ RegistryCap \in Nat \ {0}
  /\ "none" \notin Connection /\ "none" \notin PeerAddress

\* What a client presents: no certificate, one of two that verify, or one that
\* does not (expired, or of another authority).
Leaf == {"none", "a", "b", "expired"}
Verified == {"a", "b"}

\* A token as verify() looks at it; the ones the run uses have one thing wrong
\* at most.  The clock stands at 100 seconds, of which 60 are allowed as skew.
ClockNow == 100
ClockSkew == 60
SoundToken == [parts |-> 3, header |-> "object", alg |-> "RS256", typ |-> "JWT",
               signature |-> TRUE, payload |-> "object", claims |-> TRUE,
               exp |-> ClockNow + 1, iat |-> ClockNow + ClockSkew,
               iss |-> TRUE, aud |-> TRUE]
Flaw == [parts : {2, 4}] \cup [header : {"text", "list"}] \cup [alg : {"none", "HS256"}]
   \cup [typ : {"JWS"}] \cup [signature : {FALSE}] \cup [payload : {"text", "list"}]
   \cup [claims : {FALSE}] \cup [exp : {ClockNow}]
   \cup [iat : {ClockNow + ClockSkew + 1}] \cup [iss : {FALSE}] \cup [aud : {FALSE}]
Flawed == {[n \in DOMAIN SoundToken |-> IF n \in DOMAIN w THEN w[n] ELSE SoundToken[n]] : w \in Flaw}
Presented == Flawed \cup {SoundToken, [SoundToken EXCEPT !.typ = "absent"]}
Cnf == {"absent", "malformed", "a", "b", "expired"}

VARIABLES
  gateMode,   \* "disarmed" (no client CA bundle), "advisory" or "enforcing"
  gateOpen,   \* the servers are listening
  conn,       \* of each connection: its phase, client endpoint and certificate
  registry,   \* client_tls::map, the oldest entry first
  admitted    \* the connection whose handler runs and the cnf of its token

gateVars == <<gateMode, gateOpen, conn, registry, admitted>>

NoConnection == [phase |-> "free", peer |-> "none", leaf |-> "none"]
Nobody == [conn |-> "none", cnf |-> "absent"]

GateInit ==
  /\ gateMode = "disarmed" /\ gateOpen = "no"
  /\ conn = [c \in Connection |-> NoConnection]
  /\ registry = <<>> /\ admitted = Nobody

----------------------------------------------------------------------------
(* nvhttp::start.  A bundle that cannot be used, or none where one is      *)
(* required, raises the shutdown instead of serving without it.            *)

GateStart ==
  /\ gateOpen = "no"
  /\ \E bundle \in {"empty", "missing", "broken", "good"},
        enforce \in BOOLEAN, issuer \in BOOLEAN :
       LET refused == \/ bundle \in {"missing", "broken"} \/ (bundle = "empty" /\ enforce)
       IN /\ gateOpen' = IF refused THEN "refused" ELSE IF issuer THEN "yes" ELSE "unable"
          /\ gateMode' = IF bundle # "good" THEN "disarmed"
                         ELSE IF enforce THEN "enforcing" ELSE "advisory"
  /\ UNCHANGED <<conn, registry, admitted>>

----------------------------------------------------------------------------
(* SunshineHTTPSServer::accept and client_tls                              *)

Accept(c) ==
  /\ gateOpen = "yes" /\ conn[c].phase = "free"
  /\ \E p \in PeerAddress, l \in Leaf :
       /\ \A d \in Connection : conn[d].peer # p
       /\ conn' = [conn EXCEPT ![c] = [phase |-> "shaking", peer |-> p, leaf |-> l]]
  /\ UNCHANGED <<gateMode, gateOpen, registry, admitted>>

\* The entry of an endpoint, of which there is at most one.
HasEntry(p) == \E i \in DOMAIN registry : registry[i].peer = p
EntryOf(p)  == CHOOSE i \in DOMAIN registry : registry[i].peer = p
Without(p)  == IF HasEntry(p) THEN RemoveAt(registry, EntryOf(p)) ELSE registry

\* Altered form: an entry of the same endpoint stays as it is.
NoteKeepsOld(p, l) ==
  IF HasEntry(p) THEN registry
  ELSE Append(IF Len(registry) >= RegistryCap THEN Tail(registry) ELSE registry,
              [peer |-> p, leaf |-> l])
\* Altered form: the oldest entry is not evicted.
NoteUnbounded(p, l) == Append(Without(p), [peer |-> p, leaf |-> l])

\* note_handshake: a new sequence number makes the entry the youngest; the
\* oldest gives way when the registry is full and the endpoint is not in it.
Note(p, l) ==
  LET evict == Len(registry) >= RegistryCap /\ ~HasEntry(p)
  IN Append(IF evict THEN Tail(registry) ELSE Without(p), [peer |-> p, leaf |-> l])

\* The handshake completes whatever the certificate, so that a refusal can be
\* answered with 401: enforcement is in the verify hook.
Handshake(c) ==
  /\ admitted = Nobody /\ conn[c].phase = "shaking"
  /\ registry' = IF gateMode = "disarmed" THEN registry ELSE Note(conn[c].peer, conn[c].leaf)
  /\ conn' = IF gateMode = "enforcing" /\ conn[c].leaf \notin Verified
             THEN [conn EXCEPT ![c] = NoConnection]
             ELSE [conn EXCEPT ![c].phase = "open"]
  /\ UNCHANGED <<gateMode, gateOpen, admitted>>

\* The client goes away: before the handshake, which then fails, or when its
\* request was read already, whose socket no longer has a remote endpoint.
HangUp(c) ==
  /\ \/ conn[c].phase = "shaking" /\ conn' = [conn EXCEPT ![c] = NoConnection]
     \/ /\ conn[c].phase = "open"
        /\ conn' = [conn EXCEPT ![c].phase = "gone", ![c].peer = "none"]
  /\ UNCHANGED <<gateMode, gateOpen, registry, admitted>>

----------------------------------------------------------------------------
(* token::verify and check_token                                           *)

\* Every rejection looks the same to the caller.
TokenVerifies(t) ==
  /\ t.parts = 3
  /\ t.header = "object" /\ t.alg = "RS256" /\ t.typ \in {"absent", "JWT"}
  /\ t.signature
  /\ t.payload = "object" /\ t.claims
  /\ t.exp > ClockNow /\ t.iat <= ClockNow + ClockSkew
  /\ t.iss /\ t.aud

\* The verdict over the registry's entry for the endpoint of the request.
CnfVerdict(p, cnf) ==
  IF p = "none" \/ ~HasEntry(p) THEN "NO-TLS-STATE"
  ELSE IF cnf = "absent" THEN "ABSENT"
  ELSE IF registry[EntryOf(p)].leaf = "none" THEN "NO-CLIENT-CERT"
  ELSE IF registry[EntryOf(p)].leaf # cnf THEN "MISMATCH"
  ELSE IF cnf \in Verified THEN "MATCH" ELSE "chain FAILED"

\* A request whose token verifies takes the entry, one with a bad token or
\* without one leaves it to whoever comes next from that endpoint.
GatedRequest(c) ==
  /\ admitted = Nobody /\ conn[c].phase \in {"open", "gone"}
  /\ \E t \in Presented, cnf \in Cnf :
       LET valid == TokenVerifies(t) /\ cnf # "malformed"
           pass == \/ gateMode # "enforcing"
                   \/ CnfVerdict(conn[c].peer, cnf) = "MATCH"
       IN /\ registry' = IF valid /\ gateMode # "disarmed" THEN Without(conn[c].peer) ELSE registry
          /\ IF valid /\ pass
             THEN /\ admitted' = [conn |-> c, cnf |-> cnf]
                  /\ conn' = [conn EXCEPT ![c].phase = "handling"]
             ELSE /\ admitted' = admitted
                  /\ conn' = [conn EXCEPT ![c] = NoConnection]
  /\ UNCHANGED <<gateMode, gateOpen>>

\* /serverinfo, an unknown path, and a gated path without a token.
UngatedRequest(c) ==
  /\ admitted = Nobody /\ conn[c].phase \in {"open", "gone"}
  /\ conn' = [conn EXCEPT ![c] = NoConnection]
  /\ UNCHANGED <<gateMode, gateOpen, registry, admitted>>

\* The handler has answered and the connection is closed.
Answered(c) ==
  /\ admitted.conn = c /\ admitted' = Nobody
  /\ conn' = [conn EXCEPT ![c] = NoConnection]
  /\ UNCHANGED <<gateMode, gateOpen, registry>>

GateNext ==
  \/ GateStart
  \/ \E c \in Connection :
       \/ Accept(c) \/ Handshake(c) \/ HangUp(c)
       \/ GatedRequest(c) \/ UngatedRequest(c) \/ Answered(c)

GateSpec == GateInit /\ [][GateNext]_gateVars

----------------------------------------------------------------------------
Phase == {"free", "shaking", "open", "gone", "handling"}

\* The variables keep their types, and the registry its bound.
GateTypeOK ==
  /\ gateMode \in {"disarmed", "advisory", "enforcing"}
  /\ gateOpen \in {"no", "yes", "refused", "unable"}
  /\ conn \in [Connection -> [phase : Phase, peer : PeerAddress \cup {"none"}, leaf : Leaf]]
  /\ registry \in Seq([peer : PeerAddress, leaf : Leaf]) /\ Len(registry) <= RegistryCap
  /\ admitted \in [conn : Connection \cup {"none"}, cnf : Cnf]

\* The registry is keyed by the client's endpoint and outlives the connection
\* that wrote an entry.  A handler that runs under cnf_enforce runs for the
\* certificate of its own connection's handshake, never for what an earlier
\* connection from the same endpoint left behind (check_token, take).
AdmittedByOwnHandshake ==
  gateMode = "enforcing" /\ admitted # Nobody =>
     /\ conn[admitted.conn].leaf = admitted.cnf
     /\ admitted.cnf \in Verified
=============================================================================

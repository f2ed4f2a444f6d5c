-------------------------------- MODULE Rtsp --------------------------------
(***************************************************************************)
(* One connection after the other to the RTSP server (rtsp.cpp): how a     *)
(* request is put together from what TCP delivers, and what each command   *)
(* answers.  A client that has the cipher of its launch session sends one  *)
(* encrypted message; another sends a header that ends in an empty line,   *)
(* and a payload of the length that the header declares.                   *)
(*                                                                         *)
(* Bytes are counted, not stored.  The session that ANNOUNCE makes is the  *)
(* subject of StreamSessions, the launch session that of LaunchEvent.      *)
(***************************************************************************)
EXTENDS Integers

CONSTANTS BufSize,     \* socket_t::msg_buf, 2048 in the code
          HeadSize,    \* sizes of plaintext headers, the empty line included
          BodySize     \* sizes of payloads

ASSUME RtspAssumption ==
  /\ BufSize \in Nat /\ HeadSize \subseteq Nat /\ BodySize \subseteq Nat
  /\ \A h \in HeadSize: h >= 4

VARIABLES
  rtspCipher,   \* the launch session has a cipher
  rtspRequest,  \* what the client of the connection sends
  rtspPhase,    \* what the socket waits for
  rtspBegin,    \* begin, as an offset into msg_buf
  rtspCrlf,     \* crlf: where the payload starts
  rtspStatus,   \* the status of the answer, 0 before it
  rtspArrived,  \* history: bytes that were read on this connection
  rtspSplit     \* history: the empty line came in two reads

rtspVars == <<rtspCipher, rtspRequest, rtspPhase, rtspBegin, rtspCrlf,
              rtspStatus, rtspArrived, rtspSplit>>

Needle     == 4     \* "\r\n\r\n"
HeaderSize == 24    \* encrypted_rtsp_header_t
Commands   == {"OPTIONS", "DESCRIBE", "SETUP", "ANNOUNCE", "PLAY", "GET"}

\* A plaintext request may carry more than it declares; one that is not sound
\* does not parse.  An encrypted one may lack the bit or fail its tag.
PlainRequest == [kind: {"plain"}, command: Commands, head: HeadSize,
                 declared: BodySize, extra: {0, 1}, sound: BOOLEAN]
EncryptedRequest == [kind: {"encrypted"}, command: Commands, length: BodySize,
                     bit: BOOLEAN, tag: BOOLEAN, sound: BOOLEAN]
SizeOf(r) == r.head + r.declared + r.extra

RtspInit ==
  /\ rtspCipher \in BOOLEAN /\ rtspPhase = "none"
  /\ rtspRequest \in {[kind |-> "none"]}
  /\ rtspBegin = 0 /\ rtspCrlf = 0 /\ rtspStatus = 0
  /\ rtspArrived = 0 /\ rtspSplit = FALSE

----------------------------------------------------------------------------
(* The answers.                                                            *)

\* cmd_describe: what is offered for the address, and what is asked for.
Offered(mode)   == {"control", "audio"} \cup (IF mode = "never" THEN {} ELSE {"video"})
AskedFor(mode)  == {"control"} \cup (IF mode = "mandatory" THEN {"video", "audio"} ELSE {})

\* The speaker mapping is rotated to the left from index 3, up to index 5.
Rotated(mapping) ==
  [i \in DOMAIN mapping |->
     CASE i \in 3..4 -> mapping[i + 1]
       [] i = 5      -> mapping[3]
       [] OTHER      -> mapping[i]]

\* cmd_announce: the bitrate of the encoder from the one the client configured.
BitrateFor(configured, fec, channels, quality) ==
  LET video == IF fec <= 80 THEN (configured * (100 - fec)) \div 100 ELSE configured
      sound == (IF quality THEN 256 ELSE 96) * channels
      less(rate, cut, share) == rate - (IF cut < rate \div share THEN cut ELSE rate \div share)
  IN  less(less(video, sound, 5), 500, 10)

\* A frame rate of the display counts only within 1% of the one asked for.
FramerateX100(given, asked) ==
  IF given * 100 < 9900 * asked \/ given * 100 > 10100 * asked THEN 0 ELSE given

\* What ANNOUNCE asks for; a missing argument refuses it as a whole.
AnnounceReply(complete, hevc, hevcOff, encrypted, mode, starts) ==
  CASE ~complete -> 400
    [] hevc /\ hevcOff -> 400
    [] mode = "mandatory" /\ ~({"video", "audio"} \subseteq encrypted) -> 403
    [] ~starts -> 500
    [] OTHER -> 200

SetupReply(stream) == IF stream \in {"audio", "video", "control"} THEN 200 ELSE 404

RepliesTo(command) ==
  CASE command \in {"OPTIONS", "DESCRIBE", "PLAY"} -> {200}
    [] command = "SETUP" -> {SetupReply(s): s \in {"audio", "video", "control", "other"}}
    [] command = "ANNOUNCE" ->
         {AnnounceReply(complete, hevc, off, encrypted, mode, starts):
            complete \in BOOLEAN, hevc \in BOOLEAN, off \in BOOLEAN,
            encrypted \in SUBSET {"control", "video", "audio"},
            mode \in {"never", "opportunistic", "mandatory"}, starts \in BOOLEAN}
    [] OTHER -> {404}

----------------------------------------------------------------------------
(* The connection.                                                         *)

\* handle_accept: nobody reads from a connection without a launch session.
Connect ==
  /\ rtspPhase \in {"none", "closed"}
  /\ rtspRequest' \in (IF rtspCipher THEN EncryptedRequest ELSE PlainRequest)
  /\ rtspPhase' = IF rtspCipher THEN "encryptedHeader" ELSE "header"
  /\ rtspBegin' = 0 /\ rtspCrlf' = 0 /\ rtspStatus' = 0
  /\ rtspArrived' = 0 /\ rtspSplit' = FALSE
  /\ UNCHANGED rtspCipher

RefuseRequest == rtspPhase' = "closed" /\ rtspStatus' = 400
Remain(phase) == rtspPhase' = phase /\ UNCHANGED rtspStatus

\* read_some: any part of what is under way and fits.
Bytes == {n \in 1..(BufSize - rtspBegin): rtspArrived + n <= SizeOf(rtspRequest)}

\* Altered form: the position does not move with a part of the payload.
AfterPayloadForgets(from, end) ==
  IF ~rtspRequest.sound THEN RefuseRequest /\ rtspBegin' = from
  ELSE IF end - rtspCrlf' >= rtspRequest.declared THEN Remain("handle") /\ rtspBegin' = end
  ELSE Remain("payload") /\ rtspBegin' = from

\* handle_plaintext_payload: the header is parsed again with every part; a
\* payload that fills the buffer is too large.
AfterPayload(from, end) ==
  /\ rtspBegin' = end
  /\ IF ~rtspRequest.sound THEN RefuseRequest
     ELSE IF end - rtspCrlf' >= rtspRequest.declared THEN Remain("handle")
     ELSE IF end = BufSize THEN RefuseRequest
     ELSE Remain("payload")

\* handle_read_plaintext looks for the empty line in the bytes of this read
\* only: max(begin - 4, begin) is begin.
ReadHeader ==
  /\ rtspPhase = "header"
  /\ \E n \in Bytes:
       LET end   == rtspBegin + n
           found == rtspBegin + Needle <= rtspRequest.head /\ end >= rtspRequest.head
       IN /\ rtspArrived' = rtspArrived + n
          /\ \/ /\ found
                /\ rtspCrlf' = rtspRequest.head
                /\ AfterPayload(rtspRequest.head, end)
                /\ UNCHANGED rtspSplit
             \/ /\ ~found
                /\ rtspBegin' = end
                /\ rtspSplit' = (rtspSplit \/ end >= rtspRequest.head)
                /\ IF end = BufSize THEN RefuseRequest ELSE Remain("header")
                /\ UNCHANGED rtspCrlf
  /\ UNCHANGED <<rtspCipher, rtspRequest>>

ReadPayload ==
  /\ rtspPhase = "payload"
  /\ \E n \in Bytes:
       /\ rtspArrived' = rtspArrived + n
       /\ UNCHANGED rtspCrlf
       /\ AfterPayload(rtspBegin, rtspBegin + n)
  /\ UNCHANGED <<rtspCipher, rtspRequest, rtspSplit>>

\* handle_read_encrypted_header: the whole header is read at once, and then the
\* whole message, if it fits.
ReadEncryptedHeader ==
  /\ rtspPhase = "encryptedHeader"
  /\ rtspArrived' = HeaderSize
  /\ IF ~rtspRequest.bit \/ HeaderSize + rtspRequest.length >= BufSize
       THEN RefuseRequest ELSE Remain("encryptedBody")
  /\ UNCHANGED <<rtspCipher, rtspRequest, rtspBegin, rtspCrlf, rtspSplit>>

ReadEncryptedBody ==
  /\ rtspPhase = "encryptedBody"
  /\ rtspArrived' = HeaderSize + rtspRequest.length
  /\ IF rtspRequest.tag /\ rtspRequest.sound THEN Remain("handle") ELSE RefuseRequest
  /\ UNCHANGED <<rtspCipher, rtspRequest, rtspBegin, rtspCrlf, rtspSplit>>

\* The client goes away.  Only an encrypted connection is still answered.
ClientLeaves ==
  /\ rtspPhase \in {"header", "payload", "encryptedHeader", "encryptedBody"}
  /\ rtspPhase' = "closed" /\ rtspRequest' = [kind |-> "none"]
  /\ rtspStatus' = IF rtspCipher THEN 400 ELSE 0
  /\ UNCHANGED <<rtspCipher, rtspBegin, rtspCrlf, rtspArrived, rtspSplit>>

\* handle_msg: one request, one answer, and the connection is shut down.
HandleRequest ==
  /\ rtspPhase = "handle" /\ rtspPhase' = "closed"
  /\ rtspStatus' \in RepliesTo(rtspRequest.command)
  /\ UNCHANGED <<rtspCipher, rtspRequest, rtspBegin, rtspCrlf, rtspArrived, rtspSplit>>

RtspNext ==
  \/ Connect \/ ReadHeader \/ ReadPayload \/ ReadEncryptedHeader
  \/ ReadEncryptedBody \/ ClientLeaves \/ HandleRequest

RtspSpec == RtspInit /\ [][RtspNext]_rtspVars

----------------------------------------------------------------------------
(* Properties.                                                             *)

\* The variables keep their types, and the buffer's positions their bounds.
RtspTypeOK ==
  /\ rtspCipher \in BOOLEAN
  /\ rtspRequest \in {[kind |-> "none"]} \cup PlainRequest \cup EncryptedRequest
  /\ rtspPhase \in {"none", "header", "payload", "encryptedHeader",
                    "encryptedBody", "handle", "closed"}
  /\ rtspBegin \in 0..BufSize /\ rtspCrlf \in 0..BufSize
  /\ rtspStatus \in {0, 200, 400, 403, 404, 500}
  /\ rtspArrived \in Nat /\ rtspSplit \in BOOLEAN

\* Whatever the reads are that TCP makes of a plaintext request, it is handled
\* when all of it is there and not before, and a sound one that fits is not
\* refused on the way.  The exception is the empty line that comes in two
\* reads: handle_read_plaintext means to look four bytes back and does not, and
\* the request waits until the client gives up.
RequestHandledWhole ==
  rtspRequest.kind = "plain" =>
    LET whole == rtspRequest.head + rtspRequest.declared IN
      /\ rtspPhase \in {"header", "payload"} => rtspArrived < whole \/ rtspSplit
      /\ rtspPhase = "handle" => rtspArrived >= whole /\ rtspCrlf = rtspRequest.head
      /\ rtspPhase = "closed" /\ rtspStatus = 400 /\ rtspArrived < BufSize =>
           ~rtspRequest.sound \/ rtspRequest.command = "ANNOUNCE"
=============================================================================

------------------------------ MODULE RefFrames ------------------------------
(***************************************************************************)
(* The encoder session of one encoding thread: create_encoder,             *)
(* encode_frame and invalidate_ref_frames of nvenc/nvenc_base.cpp, driven  *)
(* by the events that encode_run of video.cpp polls before every frame.    *)
(*                                                                         *)
(* A client that lost frames names a range of them.  The encoder gives up  *)
(* the references to them and to everything encoded since, or makes an IDR *)
(* frame.  What the driver does is external: it keeps the last frames as   *)
(* references, uses one that is valid, and codes a frame on its own when   *)
(* none is.                                                                *)
(***************************************************************************)
EXTENDS Integers, FiniteSets

CONSTANTS MaxFrame,   \* frame_nr of the last frame of a run (bound)
          DefaultDpb  \* set_ref_frames: references kept by default, 5 in the code

ASSUME RefFramesAssumption == MaxFrame \in Nat /\ DefaultDpb \in Nat \ {0}

VARIABLES
  frameNr,      \* frame_nr of capture_async: the next frame
  encoder,      \* encoder_params, or none: no session
  state,        \* encoder_state
  forceIdr,     \* force_idr of nvenc_encode_session_t
  lossEvent,    \* invalidate_ref_frames_events: one range, or none
  runPc,        \* label of encode_run
  needs,        \* the frames that decoding each frame of this session takes
  invalid,      \* the driver: frames that may not be referenced
  lostFrames    \* the frames of reports taken since the session was created

sessionVars == <<encoder, state, forceIdr>>
driverVars == <<needs, invalid>>
refVars == <<frameNr, sessionVars, lossEvent, runPc, driverVars, lostFrames>>

Frames    == 1..MaxFrame
NoRange   == <<0, 0>>
NoSession == [rfi |-> FALSE, dpb |-> 0]
NewState  == [range |-> <<0, 0>>, confirm |-> FALSE, last |-> 0, idr |-> 0]

RefInit ==
  /\ frameNr = 1 /\ encoder = NoSession /\ state = NewState /\ forceIdr = FALSE
  /\ lossEvent = NoRange
  /\ runPc = "create" /\ needs = [f \in Frames |-> {}] /\ invalid = {}
  /\ lostFrames = {}

----------------------------------------------------------------------------
(* create_encoder                                                          *)

\* What the client asks for and what the GPU can do.
ClientConfigs == [format: {"h264", "hevc", "other"}, large: BOOLEAN,
                  tenBit: BOOLEAN, yuv444: BOOLEAN, refFrames: {0, 1}]
Gpus == [hevc: BOOLEAN, wide: BOOLEAN, tenBit: BOOLEAN, yuv444: BOOLEAN,
         rfi: BOOLEAN, multipleRefs: BOOLEAN]

\* The checks before the encoder is configured; get_encoder_cap answers 0 when
\* the driver does not know.
Supported(client, gpu) ==
  /\ client.format # "other" /\ (client.format = "hevc" => gpu.hevc)
  /\ client.large => gpu.wide
  /\ client.tenBit => gpu.tenBit
  /\ client.yuv444 => gpu.yuv444

\* set_ref_frames: without multiple reference frames one is kept, and none can
\* be invalidated.
Params(client, gpu) ==
  LET wanted == IF client.refFrames > 0 THEN client.refFrames ELSE DefaultDpb
  IN  [rfi |-> gpu.rfi /\ gpu.multipleRefs,
       dpb |-> IF gpu.multipleRefs THEN wanted ELSE 1]

\* Any call of the driver may fail: destroy_encoder undoes what was made.
Initialised(params) == {params, NoSession}

CreateEncoder(client, gpu) ==
  IF Supported(client, gpu) THEN Initialised(Params(client, gpu)) ELSE {NoSession}

\* make_encode_session: without a session encode_run returns, and capture_async
\* tries again.
Create ==
  /\ runPc = "create"
  /\ encoder' \in UNION {CreateEncoder(c, g): c \in ClientConfigs, g \in Gpus}
  /\ state' = NewState /\ forceIdr' = FALSE /\ invalid' = {}
  /\ needs' = [f \in Frames |-> {}]
  /\ runPc' = IF encoder' = NoSession THEN "create" ELSE "losses"
  /\ lostFrames' = {}
  /\ UNCHANGED <<frameNr, lossEvent>>

----------------------------------------------------------------------------
(* The control stream: a report replaces one that was not taken yet.       *)

\* The range may end before it starts.
ReportLoss ==
  /\ \E first \in 1..(frameNr - 1): \E last \in (first - 1)..(frameNr - 1):
       lossEvent' = <<first, last>>
  /\ UNCHANGED <<frameNr, sessionVars, runPc, driverVars, lostFrames>>

----------------------------------------------------------------------------
(* invalidate_ref_frames                                                   *)

AlreadyDone(first, last) ==
  first >= state.range[1] /\ last <= state.range[2]

\* The subtraction is of unsigned numbers: a range that ends before it starts,
\* but by one, is too large.
TooLarge(first, last) ==
  last - first + 1 >= encoder.dpb \/ last - first + 1 < 0

\* Altered form: the range is not extended to the last frame encoded.
RangeAsReported(first, last) == <<first, last>>

\* Every frame since the first lost one may depend on it.
RangeToDo(first, last) == <<first, state.last>>

Refuse == forceIdr' = TRUE /\ UNCHANGED invalid

Invalidate(first, last) ==
  \/ /\ ~encoder.rfi
     /\ Refuse /\ UNCHANGED state
  \/ /\ encoder.rfi /\ AlreadyDone(first, last)
     /\ UNCHANGED <<state, forceIdr, invalid>>
  \/ /\ encoder.rfi /\ ~AlreadyDone(first, last) /\ last < first
     /\ state' = [state EXCEPT !.confirm = TRUE] /\ Refuse
  \/ LET range == RangeToDo(first, last)
     IN  /\ encoder.rfi /\ ~AlreadyDone(first, last) /\ first <= last
         /\ state' = [state EXCEPT !.confirm = TRUE, !.range = range]
         /\ \/ Refuse   \* too large, or the driver refuses a frame
            \/ /\ ~TooLarge(range[1], range[2])
               /\ invalid' = invalid \cup (range[1]..range[2])
               /\ UNCHANGED forceIdr

\* The head of the loop of encode_run takes the losses, then a request for an
\* IDR frame if there is one in idr_events.
TakeLosses ==
  /\ runPc = "losses"
  /\ IF lossEvent # NoRange
       THEN /\ Invalidate(lossEvent[1], lossEvent[2])
            /\ lostFrames' = lostFrames \cup (lossEvent[1]..lossEvent[2])
            /\ lossEvent' = NoRange /\ UNCHANGED runPc
       ELSE /\ \E requested \in BOOLEAN: forceIdr' = (forceIdr \/ requested)
            /\ runPc' = "encode"
            /\ UNCHANGED <<state, invalid, lostFrames, lossEvent>>
  /\ UNCHANGED <<frameNr, encoder, needs>>

----------------------------------------------------------------------------
(* encode_frame                                                            *)

\* The driver (external): the frames it still has since the last IDR frame.
References ==
  {f \in Frames: /\ f >= state.idr /\ state.idr # 0
                 /\ f > state.last - encoder.dpb /\ f <= state.last} \ invalid

\* The first frame of an encoder is an IDR frame, as one that is forced.
Encoded(idr) ==
  \/ /\ idr /\ needs' = [needs EXCEPT ![frameNr] = {}]
  \/ /\ ~idr /\ References = {} /\ needs' = [needs EXCEPT ![frameNr] = {}]
  \/ /\ ~idr
     /\ \E r \in References: needs' = [needs EXCEPT ![frameNr] = {r} \cup needs[r]]

MustBeIdr == forceIdr \/ state.idr = 0

\* The frame that is encoded confirms an invalidation.
Encode ==
  /\ runPc = "encode" /\ frameNr \in Frames
  /\ Encoded(MustBeIdr)
  /\ state' = [state EXCEPT !.confirm = FALSE, !.last = frameNr,
                            !.idr = IF MustBeIdr THEN frameNr ELSE @]
  /\ frameNr' = frameNr + 1 /\ forceIdr' = FALSE
  /\ runPc' = "losses"
  /\ UNCHANGED <<encoder, lossEvent, invalid, lostFrames>>

\* convert or encode failed, or the display is reinitialised: the session is
\* destroyed, and the frame number is not used again.
Leave ==
  /\ runPc = "encode" /\ frameNr \in Frames
  /\ encoder' = NoSession /\ runPc' = "create"
  /\ frameNr' \in {frameNr, frameNr + 1}
  /\ state' = NewState /\ forceIdr' = FALSE /\ invalid' = {} /\ lostFrames' = {}
  /\ needs' = [f \in Frames |-> {}]
  /\ UNCHANGED lossEvent

RefNext ==
  \/ Create \/ ReportLoss \/ TakeLosses
  \/ Encode \/ Leave

RefSpec == RefInit /\ [][RefNext]_refVars

----------------------------------------------------------------------------
(* Properties.                                                             *)

\* The variables keep their types.
RefTypeOK ==
  /\ frameNr \in 1..MaxFrame + 1
  /\ encoder \in [rfi: BOOLEAN, dpb: 0..DefaultDpb]
  /\ state \in [range: (0..MaxFrame) \X (0..MaxFrame), confirm: BOOLEAN,
                last: 0..MaxFrame, idr: 0..MaxFrame]
  /\ forceIdr \in BOOLEAN
  /\ lossEvent \in (0..MaxFrame) \X (0..MaxFrame)
  /\ runPc \in {"create", "losses", "encode"}
  /\ needs \in [Frames -> SUBSET Frames] /\ invalid \subseteq 0..MaxFrame
  /\ lostFrames \subseteq 0..MaxFrame

\* Once encode_run took a report, no frame it encodes takes a frame to decode
\* that the client reported: not directly, and not through frames that were
\* encoded between the loss and the report (last_rfi_range, the extension to
\* the last frame, and the fall back to an IDR frame).
NoLostReference ==
  [][Encode => needs'[frameNr] \cap lostFrames = {}]_refVars
=============================================================================

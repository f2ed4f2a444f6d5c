-------------------------------- MODULE Probe --------------------------------
(***************************************************************************)
(* The probe of the encoder (video.cpp: probe_encoders, validate_encoder,  *)
(* validate_config) and what the server offers from it: the codecs of      *)
(* /serverinfo and /applist.                                               *)
(*                                                                         *)
(* The probe runs at startup and on the thread of a launch handler, step   *)
(* by step; requests for the server's information are answered on other    *)
(* threads, from the globals that the probe writes.  Whether the driver    *)
(* makes a session for a configuration is its choice.                      *)
(***************************************************************************)
EXTENDS Integers

Codec == {"h264", "hevc"}
\* encoder_t::flag_e.
Flag  == {"PASSED", "REF_FRAMES_RESTRICT", "DYNAMIC_RANGE", "YUV444", "VUI_PARAMETERS"}

VARIABLES
  probeConfig,   \* config::video.hevc_mode
  probeReplace,  \* FORCE_VIDEO_HEADER_REPLACE
  probePhase,    \* where probe_encoders is
  probeCurrent,  \* needs_encoder_reenumeration: no change since the last probe
  encoderFlags,  \* the capabilities of nvenc, per codec
  chosenEncoder, \* chosen_encoder is not null
  activeHevc,    \* active_hevc_mode
  refsOffered,   \* last_encoder_probe_supported_ref_frames_invalidation
  yuvOffered,    \* last_encoder_probe_supported_yuv444_for_codec, as a set
  serverOffer    \* the answer of the last /serverinfo

probeGlobals == <<chosenEncoder, activeHevc, refsOffered, yuvOffered>>
probeVars == <<probeConfig, probeReplace, probePhase, probeCurrent, encoderFlags,
               probeGlobals, serverOffer>>

ProbeInit ==
  /\ probeConfig \in 0..3 /\ probeReplace \in BOOLEAN
  /\ probePhase = "idle" /\ probeCurrent = FALSE
  /\ encoderFlags = [c \in Codec |-> {}]
  /\ chosenEncoder = FALSE /\ activeHevc = 0 /\ refsOffered = FALSE /\ yuvOffered = {}
  /\ serverOffer = {}

ProbeGoto(phase) == probePhase' = phase
WithoutVui(flags, off) == IF off THEN flags \ {"VUI_PARAMETERS"} ELSE flags

\* allow_encoder_probing, of the activity of the display devices: none at all is
\* taken for a failure of the API.
Allowed(devices) == devices = {} \/ TRUE \in devices

\* probe_encoders: without an active display device nothing is touched; an
\* encoder that is known to work is kept while the adapters are the same.  The
\* factory that tells is made anew, if it can be, when that is asked.
BeginProbe ==
  /\ probePhase \in {"idle", "failed"}
  /\ \E devices \in SUBSET BOOLEAN:
     \/ /\ ~Allowed(devices) \/ (chosenEncoder /\ probeCurrent)
        /\ UNCHANGED <<probePhase, probeCurrent, encoderFlags, probeGlobals>>
     \/ /\ Allowed(devices) /\ (~chosenEncoder \/ ~probeCurrent)
        /\ probeCurrent' \in {probeCurrent, chosenEncoder \/ probeCurrent}
        /\ chosenEncoder' = FALSE /\ activeHevc' = probeConfig /\ refsOffered' = FALSE
        /\ encoderFlags' = [c \in Codec |-> Flag]
        /\ ProbeGoto("h264") /\ UNCHANGED yuvOffered
  /\ UNCHANGED <<probeConfig, probeReplace, serverOffer>>

Fail == ProbeGoto("failed") /\ UNCHANGED encoderFlags

\* make_encode_device: the platform makes a device for the pixel format or not.
EncodeDevice == BOOLEAN

\* validate_config: a device, a session on it, a blank image, and frames until
\* there is a packet, the first of which must be an IDR.  The flag of the headers
\* is set whenever that works, for the packets of NVENC are not parsed.
Validates == {device /\ session /\ image /\ idr:
                device \in EncodeDevice, session \in BOOLEAN, image \in BOOLEAN, idr \in BOOLEAN}

\* H.264 decides whether the encoder works at all: with one reference frame, or
\* else with the driver's choice.  -1 has all bits set, so that the flag of the
\* headers stays even when the first try failed.  All flags were set before.
ProbeH264 ==
  /\ probePhase = "h264"
  /\ \/ Fail
     \/ \E maxRef \in Validates:
          /\ encoderFlags' = IF maxRef THEN encoderFlags
               ELSE [encoderFlags EXCEPT !["h264"] = @ \ {"REF_FRAMES_RESTRICT"}]
          /\ ProbeGoto(IF activeHevc # 1 THEN "hevc" ELSE "noHevc")
  /\ UNCHANGED <<probeConfig, probeReplace, probeCurrent, probeGlobals, serverOffer>>

\* HEVC: the driver's choice is tried only if H.264 needed it too.  The flags
\* that are not about this test keep what they had, which is all of them.
ProbeHevc ==
  /\ probePhase \in {"hevc", "noHevc"}
  /\ \/ /\ probePhase = "noHevc"
        /\ encoderFlags' = [encoderFlags EXCEPT !["hevc"] = {}]
     \/ /\ probePhase = "hevc"
        /\ \E maxRef \in Validates, auto \in Validates:
             LET tried  == "REF_FRAMES_RESTRICT" \notin encoderFlags["h264"]
                 passed == maxRef \/ (tried /\ auto)
             IN  encoderFlags' = [encoderFlags EXCEPT !["hevc"] =
                   (@ \ {"PASSED", "REF_FRAMES_RESTRICT"})
                     \cup (IF passed THEN {"PASSED"} ELSE {})
                     \cup (IF maxRef THEN {"REF_FRAMES_RESTRICT"} ELSE {})]
  /\ ProbeGoto("hdr")
  /\ UNCHANGED <<probeConfig, probeReplace, probeCurrent, probeGlobals, serverOffer>>

\* 4:4:4 with H.264, which has no HDR; then HDR, with the display made anew:
\* 4:4:4 first, which implies 4:2:0.  HEVC is not tested if it did not pass.
ProbeHdr ==
  /\ probePhase = "hdr"
  /\ \/ Fail
     \/ \E yuv264 \in Validates, yuv \in Validates, hdr \in Validates:
          LET h264   == encoderFlags["h264"] \ ({"DYNAMIC_RANGE"}
                          \cup (IF yuv264 THEN {} ELSE {"YUV444"}))
              tested == (encoderFlags["hevc"] \ {"DYNAMIC_RANGE", "YUV444"})
                          \cup (IF yuv \/ hdr THEN {"DYNAMIC_RANGE"} ELSE {})
                          \cup (IF yuv THEN {"YUV444"} ELSE {})
              hevc   == IF "PASSED" \in encoderFlags["hevc"] THEN tested
                                                             ELSE encoderFlags["hevc"]
          IN  /\ encoderFlags' =
                   [c \in Codec |-> WithoutVui(IF c = "hevc" THEN hevc ELSE h264,
                                            probeReplace)]
              /\ ProbeGoto("choose")
  /\ UNCHANGED <<probeConfig, probeReplace, probeCurrent, probeGlobals, serverOffer>>

YuvPassed(c) == {"PASSED", "YUV444"} \subseteq encoderFlags[c]

\* A required mode that the encoder lacks is given up, and mode 0 is resolved.
ModeFor(required, hevc) ==
  LET given == CASE required = 3 /\ "DYNAMIC_RANGE" \notin hevc -> 0
                 [] required = 2 /\ "PASSED" \notin hevc -> 0
                 [] OTHER -> required
  IN  IF given # 0 THEN given
      ELSE IF "PASSED" \notin hevc THEN 1
      ELSE IF "DYNAMIC_RANGE" \in hevc THEN 3 ELSE 2

ChooseEncoder ==
  /\ probePhase = "choose"
  /\ activeHevc' = ModeFor(activeHevc, encoderFlags["hevc"])
  /\ chosenEncoder' = TRUE /\ refsOffered' = TRUE
  /\ yuvOffered' = {c \in Codec: YuvPassed(c)}
  /\ ProbeGoto("idle")
  /\ UNCHANGED <<probeConfig, probeReplace, probeCurrent, encoderFlags, serverOffer>>

\* Adapters or drivers change: the DXGI factory is not current any more.
AdaptersChange ==
  /\ probeCurrent' = FALSE
  /\ UNCHANGED <<probeConfig, probeReplace, probePhase, encoderFlags, probeGlobals,
                 serverOffer>>

----------------------------------------------------------------------------
(* What other threads make of it.                                          *)

\* serverinfo, and the HDR of applist.
Offers(mode, yuv) ==
  {"H264"} \cup (IF "h264" \in yuv THEN {"H264_HIGH8_444"} ELSE {})
           \cup (IF mode >= 2 THEN {"HEVC"} ELSE {})
           \cup (IF mode >= 2 /\ "hevc" \in yuv THEN {"HEVC_REXT8_444"} ELSE {})
           \cup (IF mode >= 3 THEN {"HEVC_MAIN10"} ELSE {})
           \cup (IF mode >= 3 /\ "hevc" \in yuv THEN {"HEVC_REXT10_444"} ELSE {})

ServerInfo ==
  /\ serverOffer' = Offers(activeHevc, yuvOffered)
  /\ UNCHANGED <<probeConfig, probeReplace, probePhase, probeCurrent, encoderFlags,
                 probeGlobals>>

ProbeNext ==
  \/ BeginProbe \/ ProbeH264 \/ ProbeHevc \/ ProbeHdr \/ ChooseEncoder
  \/ AdaptersChange \/ ServerInfo

ProbeSpec == ProbeInit /\ [][ProbeNext]_probeVars

----------------------------------------------------------------------------
(* Properties.                                                             *)

\* The variables keep their types.
ProbeTypeOK ==
  /\ probeConfig \in 0..3 /\ probeReplace \in BOOLEAN /\ probeCurrent \in BOOLEAN
  /\ probePhase \in {"idle", "failed", "h264", "hevc", "noHevc", "hdr", "choose"}
  /\ encoderFlags \in [Codec -> SUBSET Flag]
  /\ chosenEncoder \in BOOLEAN /\ activeHevc \in 0..3 /\ refsOffered \in BOOLEAN
  /\ yuvOffered \subseteq Codec
  /\ serverOffer \subseteq {"H264", "H264_HIGH8_444", "HEVC", "HEVC_REXT8_444",
                            "HEVC_MAIN10", "HEVC_REXT10_444"}

\* "If the user required HEVC but the encoder can't provide it, downgrade and
\* warn" (probe_encoders, video.cpp:1076): after a probe, HEVC is not the mode
\* of an encoder that did not pass its HEVC test.
RequiredModeDowngraded ==
  chosenEncoder => (activeHevc >= 2 => "PASSED" \in encoderFlags["hevc"])
=============================================================================

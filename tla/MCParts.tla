------------------------------ MODULE MCParts ------------------------------
(***************************************************************************)
(* The components that share no variable with each other, side by side: a  *)
(* behaviour chooses one of them at the start and is a behaviour of that   *)
(* one, while the variables of the others keep their initial values.       *)
(***************************************************************************)
EXTENDS AudioSink, DisplayDevice, Displays, Gate, Handlers, Input, Mail, NvPrefs,
        Probe, RefFrames, Rtsp, Snapshot, Wire

VARIABLE part   \* the component of this behaviour

Part == {"audio", "device", "displays", "gate", "handlers", "input", "mail",
         "nvprefs", "probe", "references", "rtsp", "snapshot", "wire"}
partsVars == <<part, sndVars, ddVars, dspVars, gateVars, handlerVars, inputVars,
               mailVars, nvVars, probeVars, refVars, rtspVars, snapVars, wireVars>>

\* A component that starts in one of several states does so when it is chosen.
PartsInit ==
  /\ part \in Part
  /\ SndInit
  /\ DdInit
  /\ DspInit /\ (part # "displays" => dspDesk = <<>>)
  /\ GateInit
  /\ HandlerInit /\ (part # "handlers" => ~revertOnDisconnect)
  /\ InputInit
  /\ MailInit
  /\ NvInit /\ (part # "nvprefs" => nvUser = CHOOSE user \in Settings: TRUE)
  /\ ProbeInit /\ (part # "probe" => probeConfig = 0 /\ ~probeReplace)
  /\ RefInit
  /\ RtspInit /\ (part # "rtsp" => ~rtspCipher)
  /\ SnapInit
  /\ WireInit

PartsNext ==
  \/ /\ part = "audio"
     /\ UNCHANGED <<part, ddVars, dspVars, gateVars, handlerVars, inputVars,
                    mailVars, nvVars, probeVars, refVars, rtspVars, snapVars, wireVars>>
     /\ SndNext
  \/ /\ part = "device"
     /\ UNCHANGED <<part, sndVars, dspVars, gateVars, handlerVars, inputVars,
                    mailVars, nvVars, probeVars, refVars, rtspVars, snapVars, wireVars>>
     /\ DdNext
  \/ /\ part = "displays"
     /\ UNCHANGED <<part, sndVars, ddVars, gateVars, handlerVars, inputVars,
                    mailVars, nvVars, probeVars, refVars, rtspVars, snapVars, wireVars>>
     /\ DspNext
  \/ /\ part = "gate"
     /\ UNCHANGED <<part, sndVars, ddVars, dspVars, handlerVars, inputVars,
                    mailVars, nvVars, probeVars, refVars, rtspVars, snapVars, wireVars>>
     /\ GateNext
  \/ /\ part = "handlers"
     /\ UNCHANGED <<part, sndVars, ddVars, dspVars, gateVars, inputVars,
                    mailVars, nvVars, probeVars, refVars, rtspVars, snapVars, wireVars>>
     /\ HandlerNext
  \/ /\ part = "input"
     /\ UNCHANGED <<part, sndVars, ddVars, dspVars, gateVars, handlerVars,
                    mailVars, nvVars, probeVars, refVars, rtspVars, snapVars, wireVars>>
     /\ InputNext
  \/ /\ part = "mail"
     /\ UNCHANGED <<part, sndVars, ddVars, dspVars, gateVars, handlerVars,
                    inputVars, nvVars, probeVars, refVars, rtspVars, snapVars, wireVars>>
     /\ MailNext
  \/ /\ part = "nvprefs"
     /\ UNCHANGED <<part, sndVars, ddVars, dspVars, gateVars, handlerVars,
                    inputVars, mailVars, probeVars, refVars, rtspVars, snapVars,
                    wireVars>>
     /\ NvNext
  \/ /\ part = "probe"
     /\ UNCHANGED <<part, sndVars, ddVars, dspVars, gateVars, handlerVars,
                    inputVars, mailVars, nvVars, refVars, rtspVars, snapVars, wireVars>>
     /\ ProbeNext
  \/ /\ part = "references"
     /\ UNCHANGED <<part, sndVars, ddVars, dspVars, gateVars, handlerVars,
                    inputVars, mailVars, nvVars, probeVars, rtspVars, snapVars, wireVars>>
     /\ RefNext
  \/ /\ part = "rtsp"
     /\ UNCHANGED <<part, sndVars, ddVars, dspVars, gateVars, handlerVars,
                    inputVars, mailVars, nvVars, probeVars, refVars, snapVars, wireVars>>
     /\ RtspNext
  \/ /\ part = "snapshot"
     /\ UNCHANGED <<part, sndVars, ddVars, dspVars, gateVars, handlerVars,
                    inputVars, mailVars, nvVars, probeVars, refVars, rtspVars, wireVars>>
     /\ SnapNext
  \/ /\ part = "wire"
     /\ UNCHANGED <<part, sndVars, ddVars, dspVars, gateVars, handlerVars,
                    inputVars, mailVars, nvVars, probeVars, refVars, rtspVars, snapVars>>
     /\ WireNext

\* What a state is told apart by: the other components' variables never change.
PartsView == <<part,
  CASE part = "audio" -> sndVars [] part = "device" -> ddVars
    [] part = "displays" -> dspVars [] part = "gate" -> gateVars
    [] part = "handlers" -> handlerVars [] part = "input" -> inputVars
    [] part = "mail" -> mailVars [] part = "nvprefs" -> nvVars
    [] part = "probe" -> probeVars [] part = "references" -> refVars
    [] part = "rtsp" -> rtspVars [] part = "snapshot" -> snapVars
    [] part = "wire" -> wireVars>>

PartsSpec == PartsInit /\ [][PartsNext]_partsVars

----------------------------------------------------------------------------
(* Properties of all parts, and of the operators they are built from.      *)

\* The type invariant of the component that runs.
PartsTypeOK ==
  /\ part = "audio" => SndTypeOK
  /\ part = "device" => DdTypeOK
  /\ part = "displays" => DspTypeOK
  /\ part = "gate" => GateTypeOK
  /\ part = "handlers" => HandlerTypeOK
  /\ part = "input" => InputTypeOK
  /\ part = "mail" => MailTypeOK
  /\ part = "nvprefs" => NvTypeOK
  /\ part = "probe" => ProbeTypeOK
  /\ part = "references" => RefTypeOK
  /\ part = "rtsp" => RtspTypeOK
  /\ part = "snapshot" => SnapTypeOK
  /\ part = "wire" => WireTypeOK

\* Over every configuration, list of remappings and client: the resolution changes
\* only for a client that wants its game settings optimised (parse_configuration).
ASSUME ResolutionByConsent ==
  \A in \in Inputs:
    LET parsed == ParseConfiguration(in)
    IN  parsed.kind = "config" /\ ~in.sops => parsed.mode.resolution = NotSet

\* A client that encrypts what DESCRIBE asks for, out of what it offers, is not
\* refused by ANNOUNCE for its encryption (cmd_describe, cmd_announce).
ASSUME DescribedIsAccepted ==
  \A mode \in {"never", "opportunistic", "mandatory"}:
    \A hevc, hevcOff, starts \in BOOLEAN:
      AnnounceReply(TRUE, hevc, hevcOff, AskedFor(mode) \cap Offered(mode), mode, starts)
        # 403

\* The bitrate of the encoder is positive and not above the one the client
\* configured, and the rotation of the speakers loses none (cmd_announce).
ASSUME AnnouncedRates ==
  /\ \A configured \in {1, 10, 500, 2000, 20000, 150000}, fec \in {0, 1, 20, 50, 80, 255},
        channels \in {2, 6, 8}, quality \in BOOLEAN:
       BitrateFor(configured, fec, channels, quality) \in 0..configured
  /\ \A n \in {2, 6, 8}:
       LET mapping == [i \in 0..n - 1 |-> i]
       IN  n >= 6 => {Rotated(mapping)[i]: i \in 0..n - 1} = 0..n - 1

\* A display just below the rate asked for, or a multiple or fraction of it, sets
\* the pace, and never a faster one than was asked for (adjust_client_frame_rate).
ASSUME PaceNotAboveAsked ==
  \A asked \in {24, 30, 48, 60, 90, 120, 144},
     rate \in {<<24000, 1001>>, <<30, 1>>, <<60000, 1001>>, <<60, 1>>, <<143981, 1000>>}:
    LET pace == AdjustedRate(asked, <<0, 0>>, rate[1], rate[2])
    IN  pace[1] <= asked * pace[2] /\ 100 * pace[1] > 99 * asked * pace[2]
=============================================================================

------------------------------ MODULE AudioSink ------------------------------
(***************************************************************************)
(* Audio of the host: the audio context that the sessions share (audio.cpp), *)
(* the default playback device it changes (platform/windows/audio.cpp), the *)
(* audio capture thread of each session, and the display device part that  *)
(* keeps the context while displays are off (display_device.cpp).          *)
(*                                                                         *)
(* The default device is kept per role, as the policy interface of Windows *)
(* does.  "virtual" is the sink name of the Steam device with a channel    *)
(* layout in it; every other sink is named by its device.  The program may *)
(* crash and start again; devices come and go, and the user or the system  *)
(* changes the default device.                                             *)
(***************************************************************************)
EXTENDS Integers, FiniteSets

CONSTANTS SndSession,   \* audio capture threads
          ConfigSink    \* config::audio.sink, or NoSink

VARIABLES
  present,    \* devices in the system
  default,    \* the default device of each role
  before,     \* history: the defaults the context is to leave behind
  ours,       \* history: roles that are on the Steam device by our doing
  moved,      \* history: someone else changed a default since before was noted
  lost,       \* history: the host device could not be restored
  up,         \* the program runs
  refs,       \* holders of the audio context: sessions, "display"
  ctx,        \* audio_ctx_t
  assigned,   \* assigned_sink of the audio control
  sndPc,      \* label of each audio capture thread
  sndSink,    \* the sink a session chose
  changed,    \* default_render_device_changed_flag of its microphone
  released,   \* the display context waits for its sink
  retries     \* its retry_counter

deviceVars  == <<present, default, before, ours, moved, lost>>
contextVars == <<refs, ctx, assigned>>
threadVars  == <<sndPc, sndSink, changed>>
displayVars == <<released, retries>>
sndVars == <<deviceVars, up, contextVars, threadVars, displayVars>>

Roles   == {"console", "media"}
Devices == {"speakers", "headset", "steam"}
NoSink  == "none"
Retries == 1    \* retry_counter, 15 in the code
NoCtx   == [control |-> FALSE, host |-> NoSink, virtual |-> FALSE,
            restore |-> FALSE, flag |-> FALSE]
AllOn(d) == [r \in Roles |-> d]
DeviceOf(sink) == IF sink = "virtual" THEN "steam" ELSE sink

ASSUME SndAssumption == ConfigSink \in Devices \cup {NoSink} /\ "display" \notin SndSession

SndInit ==
  /\ present = Devices /\ default = AllOn("speakers") /\ before = default
  /\ ours = {} /\ moved = FALSE /\ lost = FALSE /\ up = TRUE
  /\ refs = {} /\ ctx = NoCtx /\ assigned = NoSink
  /\ sndPc = [s \in SndSession |-> "new"]
  /\ sndSink = [s \in SndSession |-> NoSink]
  /\ changed = [s \in SndSession |-> FALSE]
  /\ released = FALSE /\ retries = 0

Sampling == {s \in SndSession: sndPc[s] \in {"sample", "reopen"}}
Step(s, label) == sndPc' = [sndPc EXCEPT ![s] = label]

----------------------------------------------------------------------------
(* The devices.                                                            *)

\* OnDefaultDeviceChanged: every microphone is told.
Notify == changed' = [s \in SndSession |-> changed[s] \/
                        (s \in Sampling /\ default' # default)]

\* set_sink: a device that is not there, or whose format cannot be set, is left
\* alone; the roles are set one by one and each may fail.  The sink is
\* remembered when none did.
SetSink(sink, roles) ==
  LET done == IF DeviceOf(sink) \in present THEN roles ELSE {}
  IN  /\ default' = [r \in Roles |-> IF r \in done THEN DeviceOf(sink)
                                                 ELSE default[r]]
      /\ ours' = IF sink = "virtual" THEN ours \cup done ELSE ours \ done
      /\ assigned' = IF done = Roles THEN sink ELSE assigned
      /\ Notify

\* The user or the system changes the default device.
Move(d) ==
  /\ d \in present /\ default # AllOn(d) /\ ~moved
  /\ default' = AllOn(d) /\ ours' = {} /\ moved' = TRUE
  /\ Notify
  /\ UNCHANGED <<present, before, lost, up, contextVars, sndPc, sndSink,
                 displayVars>>

\* A device goes, as the audio of a monitor does that is turned off: the system
\* puts its roles on another one.  Or it comes back.
Unplug ==
  /\ "speakers" \in present
  /\ present' = present \ {"speakers"}
  /\ default' = [r \in Roles |-> IF default[r] = "speakers" THEN "headset"
                                                         ELSE default[r]]
  /\ moved' = (moved \/ default' # default)
  /\ Notify
  /\ UNCHANGED <<before, ours, lost, up, contextVars, sndPc, sndSink, displayVars>>

Plug ==
  /\ present # Devices
  /\ present' = Devices
  /\ UNCHANGED <<default, before, ours, moved, lost, up, contextVars, threadVars,
                 displayVars>>

----------------------------------------------------------------------------
(* The audio context: start_audio_control, stop_audio_control.             *)

\* sink_info: the default device, and whether there is a virtual one.
SinkInfo == [NoCtx EXCEPT !.control = TRUE, !.host = default["console"],
                          !.virtual = "steam" \in present]

\* Without a control the context is there all the same, and there is no audio.
StartControl(control) ==
  /\ ctx' = IF control THEN SinkInfo ELSE NoCtx
  /\ assigned' = NoSink
  /\ before' = default /\ moved' = FALSE

RestoreSink == IF ctx.host = NoSink THEN ConfigSink ELSE ctx.host

\* The last reference is gone: "Best effort, it's allowed to fail".  The result of
\* set_sink is not looked at.
StopControl ==
  /\ IF ctx.restore /\ RestoreSink # NoSink
       THEN \E roles \in SUBSET Roles:
              /\ SetSink(RestoreSink, roles)
              /\ LET failed == RestoreSink \notin present \/ roles # Roles
                 IN  lost' = (lost \/ failed) /\ moved' = (moved /\ failed)
       ELSE UNCHANGED <<default, ours, moved, lost, changed, assigned>>
  /\ ctx' = NoCtx

TakeCtx(holder) ==
  /\ refs' = refs \cup {holder}
  /\ IF refs = {} THEN \E control \in BOOLEAN: StartControl(control)
                  ELSE UNCHANGED <<ctx, assigned, before, moved>>

DropCtx(holder) ==
  /\ refs' = refs \ {holder}
  /\ IF refs = {holder}
       THEN StopControl
       ELSE UNCHANGED <<default, ours, moved, lost, changed, ctx, assigned>>

----------------------------------------------------------------------------
(* The audio capture thread of a session: audio::capture.                  *)

Begin(s) ==
  /\ up /\ sndPc[s] = "new"
  /\ TakeCtx(s) /\ Step(s, "choose")
  /\ UNCHANGED <<present, default, ours, lost, up, sndSink, changed, displayVars>>

\* The configured sink, or the one of the host, or the virtual one when the
\* host is to be silent or there is no other.
ChosenSink(hostAudio) ==
  LET sink == IF ConfigSink # NoSink THEN ConfigSink ELSE ctx.host
  IN  IF ctx.virtual /\ (~hostAudio \/ sink = NoSink) THEN "virtual" ELSE sink

Choose(s) ==
  /\ up /\ sndPc[s] = "choose"
  /\ \E hostAudio \in BOOLEAN:
       sndSink' = [sndSink EXCEPT ![s] = ChosenSink(hostAudio)]
  /\ Step(s, IF ctx.control THEN "claim" ELSE "wait")
  /\ UNCHANGED <<deviceVars, up, contextVars, changed, displayVars>>

\* Altered form: what is to be restored is noted when the sink was set.
ClaimLate(s, roles) ==
  /\ SetSink(sndSink[s], roles)
  /\ ctx' = [ctx EXCEPT !.flag = TRUE, !.restore = (assigned' = sndSink[s])]

\* The first session sets the sink, and notes before that it has to be restored.
Claim(s, roles) ==
  /\ ctx' = [ctx EXCEPT !.flag = TRUE, !.restore = (ctx.host # sndSink[s])]
  /\ IF ctx.host # sndSink[s] THEN SetSink(sndSink[s], roles)
                              ELSE UNCHANGED <<default, ours, assigned, changed>>

\* When a role could not be set the session goes on without audio.
ClaimSink(s) ==
  /\ up /\ sndPc[s] = "claim"
  /\ IF ctx.flag
       THEN /\ Step(s, "microphone")
            /\ UNCHANGED <<ctx, default, ours, assigned, changed>>
       ELSE \E roles \in SUBSET Roles:
              /\ Claim(s, roles)
              /\ Step(s, IF ctx.host = sndSink[s] \/ assigned' = sndSink[s]
                           THEN "microphone" ELSE "wait")
  /\ UNCHANGED <<present, before, moved, lost, up, refs, sndSink, displayVars>>

\* A microphone of the default device: it has a flag of its own.
OpenMicrophone(s) ==
  /\ up /\ sndPc[s] \in {"microphone", "reopen"}
  /\ changed' = [changed EXCEPT ![s] = FALSE]
  /\ \/ Step(s, "sample")
     \/ Step(s, IF sndPc[s] = "reopen" THEN "reopen" ELSE "wait")
  /\ UNCHANGED <<deviceVars, up, contextVars, sndSink, displayVars>>

\* _fill_buffer: the default device changed.  A virtual sink is set again before
\* the microphone is opened anew.
Resample(s) ==
  /\ up /\ sndPc[s] = "sample" /\ changed[s]
  /\ IF assigned = "virtual"
       THEN \E roles \in SUBSET Roles: SetSink(assigned, roles)
       ELSE changed' = [changed EXCEPT ![s] = FALSE]
            /\ UNCHANGED <<default, ours, assigned>>
  /\ Step(s, "reopen")
  /\ UNCHANGED <<present, before, moved, lost, up, refs, ctx, sndSink, displayVars>>

\* Capture failed, or the session ends: the thread waits for the end of the
\* session with the context held.
StopSampling(s) ==
  /\ up /\ sndPc[s] \in {"sample", "reopen"}
  /\ Step(s, "wait")
  /\ UNCHANGED <<deviceVars, up, contextVars, sndSink, changed, displayVars>>

Finish(s) ==
  /\ up /\ sndPc[s] = "wait"
  /\ DropCtx(s) /\ Step(s, "done")
  /\ UNCHANGED <<present, before, up, sndSink, displayVars>>

----------------------------------------------------------------------------
(* The display device part: sunshine_audio_context_t.                      *)

\* A display is to be turned off.  A context that was released and is still kept
\* is dropped first, so that it is cleaned up.
DropReleased ==
  /\ up /\ released /\ "display" \in refs
  /\ DropCtx("display")
  /\ UNCHANGED <<present, before, up, sndPc, sndSink, displayVars>>

CaptureContext ==
  /\ up /\ "display" \notin refs
  /\ TakeCtx("display")
  /\ released' = FALSE /\ retries' = Retries
  /\ UNCHANGED <<present, default, ours, lost, changed, up, sndPc, sndSink>>

\* is_audio_ctx_sink_available
SinkAvailable == ctx.control /\ RestoreSink # NoSink /\ RestoreSink \in present

\* The display is on again: the context is kept until its sink is back, for a
\* number of tries.
ReleaseContext ==
  /\ up /\ "display" \in refs
  /\ released' = TRUE
  /\ IF ~SinkAvailable /\ retries > 0
       THEN /\ retries' = retries - 1
            /\ UNCHANGED <<refs, default, ours, moved, lost, changed, ctx, assigned>>
       ELSE DropCtx("display") /\ UNCHANGED retries
  /\ UNCHANGED <<present, before, up, sndPc, sndSink>>

----------------------------------------------------------------------------
(* Crash and start.                                                        *)

Crash ==
  /\ up /\ up' = FALSE
  /\ refs' = {} /\ ctx' = NoCtx /\ assigned' = NoSink
  /\ sndPc' = [s \in SndSession |-> "done"]
  /\ sndSink' = [s \in SndSession |-> NoSink]
  /\ changed' = [s \in SndSession |-> FALSE]
  /\ released' = FALSE /\ retries' = 0
  /\ UNCHANGED deviceVars

\* reset_default_device: the Steam device is taken out for a moment, so that the
\* system picks another.
ResetDefault ==
  IF default["console"] = "steam" /\ present # {"steam"}
    THEN /\ \E d \in present \ {"steam"}: default' = AllOn(d)
         /\ ours' = {}
    ELSE UNCHANGED <<default, ours>>

Restart ==
  /\ ~up /\ up' = TRUE
  /\ ResetDefault
  /\ before' = default' /\ moved' = FALSE /\ lost' = FALSE
  /\ sndPc' = [s \in SndSession |-> "new"]
  /\ UNCHANGED <<present, contextVars, sndSink, changed, displayVars>>

SndNext ==
  \/ \E d \in Devices: Move(d)
  \/ Unplug \/ Plug
  \/ \E s \in SndSession:
       Begin(s) \/ Choose(s) \/ ClaimSink(s) \/ OpenMicrophone(s)
       \/ Resample(s) \/ StopSampling(s) \/ Finish(s)
  \/ DropReleased \/ CaptureContext \/ ReleaseContext \/ Crash \/ Restart

SndSpec == SndInit /\ [][SndNext]_sndVars

----------------------------------------------------------------------------
(* Properties.                                                             *)

\* The variables keep their types.
SndTypeOK ==
  /\ present \subseteq Devices /\ {default, before} \subseteq [Roles -> Devices]
  /\ ours \subseteq Roles /\ {moved, lost, up, released} \subseteq BOOLEAN
  /\ refs \subseteq SndSession \cup {"display"}
  /\ ctx \in [control: BOOLEAN, host: Devices \cup {NoSink}, virtual: BOOLEAN,
              restore: BOOLEAN, flag: BOOLEAN]
  /\ assigned \in Devices \cup {NoSink, "virtual"}
  /\ sndPc \in [SndSession -> {"new", "choose", "claim", "microphone", "sample",
                               "reopen", "wait", "done"}]
  /\ sndSink \in [SndSession -> Devices \cup {NoSink, "virtual"}]
  /\ changed \in [SndSession -> BOOLEAN] /\ retries \in 0..Retries

\* Once nobody holds the audio context, and also after a crash and a start, the
\* console role does not play into the Steam device by our doing, and unless
\* someone else moved it the default is what it was before the first session:
\* on every role, or that of the console role on all of them (restore_sink,
\* reset_default_device).  A restore that failed, of a host device that was gone or
\* that the system did not set for every role, excuses what follows until the next
\* start.
DefaultGivenBack ==
  up /\ refs = {} =>
    \/ lost
    \/ /\ default["console"] = "steam" => "console" \notin ours
       /\ ~moved => default \in {before, AllOn(before["console"])}
=============================================================================

----------------------------- MODULE Host_proofs ------------------------------
(*****************************************************************************)
(* Proofs about what the program borrows from its user and gives back: the   *)
(* setting of the driver (NvPrefs), the displays, for any monitors and       *)
(* requests (DisplayDevice), and the default audio device, for any number of *)
(* sessions (AudioSink).                                                     *)
(*****************************************************************************)
EXTENDS NvPrefs, DisplayDevice, AudioSink, TLAPS

----------------------------------------------------------------------------
(* The driver's setting.                                                   *)

\* The settings of the driver, of its profile and of the program's.
Preferences == [global: Settings, power: BOOLEAN]

\* A part of the preferences can be replaced without the other.
LEMMA PreferenceGlobal ==
  ASSUME NEW p \in Preferences, NEW value \in Settings
  PROVE  /\ p.global \in Settings
         /\ [p EXCEPT !.global = value] \in Preferences
         /\ [p EXCEPT !.global = value].global = value
BY DEF Preferences

LEMMA PreferencePower ==
  ASSUME NEW p \in Preferences, NEW power \in BOOLEAN
  PROVE  /\ [p EXCEPT !.power = power] \in Preferences
         /\ [p EXCEPT !.power = power].global = p.global
BY DEF Preferences

\* What the recovery makes of the session: the program's own value gives way.
LEMMA RestoredSession ==
  ASSUME session \in Preferences, NEW value \in Settings
  PROVE  /\ Restored(value) \in Preferences
         /\ Restored(value).global = IF session.global = On THEN value ELSE session.global
<1>1. CASE session.global = On
  BY <1>1, PreferenceGlobal DEF Restored
<1>2. CASE session.global # On
  BY <1>2 DEF Restored
<1>3. QED
  BY <1>1, <1>2

\* No marker is mistaken for a setting.
LEMMA SettingNames ==
  /\ On \in Settings /\ NoUndo \notin Settings /\ NoFile \notin Settings
  /\ Torn \notin Settings /\ NoFile # Torn
BY DEF On, Settings, NoUndo, NoFile, Torn

\* Where the program is says what the session, the undo data and the file hold.
NvInv ==
  /\ UserSettingRecoverable
  /\ nvUser = On => ~nvOurs /\ undoFile = NoFile /\ undoData = NoUndo
  /\ nvOurs => undoFile \in {NoFile, Torn, nvUser}
  /\ undoOpen = "none" => undoData = NoUndo
  /\ nvOurs => undoData \in {NoUndo, nvUser}
  /\ nvPc \in {"recover", "restore"} => session = driver
  /\ nvPc \in {"down", "recover"} => undoOpen = "none"
  /\ nvPc \in {"application", "global"} =>
       /\ session.global \in {driver.global, nvUser}
       /\ undoOpen # "none" => session.global = driver.global
  /\ nvPc \in {"file", "truncate", "write", "save"} => nvUser # On /\ session.global = On
  /\ nvPc = "file" => found = nvUser /\ (undoOpen # "none" => ~nvOurs)
  /\ nvPc \in {"truncate", "write", "save"} => undoData = nvUser /\ undoOpen # "none"
  /\ nvPc \in {"truncate", "write"} => (nvOurs => nvLost)
  /\ nvPc = "save" => undoFile = nvUser

\* The types are inductive together with NvInv.
LEMMA NvTypeInit == NvInit => NvTypeOK
<1> SUFFICES ASSUME NvInit PROVE NvTypeOK
  OBVIOUS
<1>1. driver \in [global: Settings, power: BOOLEAN] /\ nvUser \in Settings
  BY DEF NvInit
<1>2. QED
  BY <1>1 DEF NvInit, NvTypeOK

LEMMA NvTypeNext ==
  ASSUME NvTypeOK, NvInv, [NvNext]_nvVars
  PROVE  NvTypeOK'
<1> USE DEF NvTypeOK
<1>0. driver \in Preferences /\ session \in Preferences
  BY DEF Preferences
<1>1. CASE UserChanges
  <2>1. driver' \in Preferences
    BY <1>0, <1>1, PreferenceGlobal DEF UserChanges
  <2>2. QED
    BY <1>1, <2>1 DEF UserChanges, Preferences
<1>2. CASE NvStart \/ NvTool \/ NvStream \/ NvEnd \/ NvExit
  BY <1>2 DEF NvStart, NvTool, NvStream, NvEnd, NvExit, Load
<1>3. CASE NvIdle \/ NvCrash
  BY <1>3 DEF NvIdle, NvCrash
<1>4. CASE Unload
  BY <1>4 DEF Unload
<1>5. CASE Recover
  <2>1. session' \in Preferences /\ driver' \in {driver, session'}
    BY <1>0, <1>5, RestoredSession DEF Recover, Save
  <2>2. nvOurs' \in BOOLEAN /\ nvLost' \in BOOLEAN
    BY <1>5 DEF Recover, Save
  <2>3. QED
    BY <1>0, <1>5, <2>1, <2>2 DEF Recover, Preferences
<1>6. CASE Application
  <2>1. session' \in Preferences /\ driver' \in {driver, session'}
    BY <1>0, <1>6, PreferencePower DEF Application, Save
  <2>2. nvOurs' \in BOOLEAN /\ nvLost' \in BOOLEAN
    BY <1>6 DEF Application, Save
  <2>3. QED
    BY <1>0, <1>6, <2>1, <2>2 DEF Application, Preferences
<1>7. CASE Global
  <2>1. session' \in Preferences /\ session.global \in Settings
    BY <1>0, <1>7, PreferenceGlobal, SettingNames DEF Global
  <2>2. QED
    BY <1>7, <2>1 DEF Global, Preferences
<1>8. CASE MakeFile
  BY <1>8 DEF MakeFile, Revert
<1>9. CASE Truncate
  BY <1>9 DEF Truncate, Revert
<1>10. CASE WriteFile
  BY <1>10 DEF WriteFile, Revert, NvInv
<1>11. CASE SaveGlobal
  BY <1>11 DEF SaveGlobal, Save, Revert
<1>12. CASE RestoreGlobal
  <2>1. session' \in Preferences /\ driver' \in {driver, session'} /\ nvOurs' \in BOOLEAN
    BY <1>0, <1>12, RestoredSession DEF RestoreGlobal, RestoreAndDelete, Save
  <2>2. QED
    BY <1>0, <1>12, <2>1 DEF RestoreGlobal, RestoreAndDelete, Preferences
<1>13. CASE UNCHANGED nvVars
  BY <1>13 DEF nvVars
<1>14. QED
  BY <1>1, <1>2, <1>3, <1>4, <1>5, <1>6, <1>7, <1>8, <1>9, <1>10, <1>11, <1>12,
     <1>13 DEF NvNext

LEMMA NvInvInit == NvInit => NvInv
BY DEF NvInit, NvInv, UserSettingRecoverable

LEMMA NvInvNext ==
  ASSUME NvTypeOK, NvInv, [NvNext]_nvVars
  PROVE  NvInv'
<1> USE DEF NvInv, UserSettingRecoverable
<1>0. /\ driver \in Preferences /\ session \in Preferences
      /\ nvUser \in Settings /\ nvOurs \in BOOLEAN /\ nvLost \in BOOLEAN
      /\ driver.global \in Settings /\ session.global \in Settings
  BY DEF Preferences, NvTypeOK
<1>1. CASE UserChanges
  <2>1. driver'.global = nvUser'
    BY <1>0, <1>1, PreferenceGlobal DEF UserChanges
  <2>2. QED
    BY <1>0, <1>1, <2>1 DEF UserChanges
<1>2. CASE NvStart \/ NvTool \/ NvStream \/ NvEnd \/ NvExit
  <2>1. /\ session' = driver /\ UNCHANGED <<driver, undoFile, undoOpen, undoData, nvOurs,
                                              nvUser, nvLost>>
        /\ nvPc' \in {"recover", "application", "restore", "unload"}
        /\ nvPc' = "recover" => undoOpen = "none"
    BY <1>2 DEF NvStart, NvTool, NvStream, NvEnd, NvExit, Load
  <2>2. QED
    BY <1>2, <2>1
<1>3. CASE NvIdle \/ NvCrash
  BY <1>3 DEF NvIdle, NvCrash
<1>4. CASE Unload
  BY <1>4 DEF Unload
<1>5. CASE Recover
  <2>1. /\ session = driver /\ undoOpen = "none" /\ undoData = NoUndo
        /\ nvPc' \in {"unload", "application"} /\ UNCHANGED <<undoOpen, undoData, nvUser>>
    BY <1>5 DEF Recover
  <2>2. CASE UNCHANGED <<driver, session, undoFile, nvOurs, nvLost>>
    BY <2>1, <2>2
  <2>3. ASSUME undoFile # NoFile, undoFile # Torn, undoFile' \in {NoFile, undoFile},
               session' = Restored(undoFile),
               \/ Save /\ UNCHANGED nvLost
               \/ nvLost' = (nvOurs /\ (nvLost \/ undoFile' = NoFile))
                  /\ UNCHANGED <<driver, nvOurs>>
        PROVE  NvInv'
    <3>1. undoFile \in Settings /\ nvUser # On
      BY <2>3 DEF NvTypeOK
    <3>2. session'.global = nvUser
      BY <1>0, <2>1, <2>3, <3>1, RestoredSession
    <3>3. CASE Save /\ UNCHANGED nvLost
      <4>1. driver' = session' /\ driver'.global = nvUser /\ ~nvOurs'
        <5>1. CASE nvOurs
          <6>1. session'.global # driver.global /\ session'.global # On
            BY <3>1, <3>2, <5>1
          <6>2. QED
            BY <3>2, <3>3, <6>1, Zenon DEF Save
        <5>2. CASE ~nvOurs
          <6>1. session'.global = driver.global
            BY <3>2, <5>2
          <6>2. QED
            BY <3>2, <3>3, <5>2, <6>1, Zenon DEF Save
        <5>3. QED
          BY <5>1, <5>2
      <4>2. QED
        BY <2>1, <3>1, <4>1
    <3>4. CASE nvLost' = (nvOurs /\ (nvLost \/ undoFile' = NoFile))
                 /\ UNCHANGED <<driver, nvOurs>>
      <4>1. CASE nvOurs
        BY <2>1, <2>3, <3>1, <3>2, <3>4, <4>1
      <4>2. CASE ~nvOurs
        BY <2>1, <2>3, <3>1, <3>2, <3>4, <4>2
      <4>3. QED
        BY <4>1, <4>2
    <3>5. QED
      BY <2>3, <3>3, <3>4
  <2>4. CASE /\ undoFile # NoFile /\ undoFile' \in {NoFile, undoFile}
             /\ undoFile = Torn \/ nvOurs
             /\ nvLost' = (nvOurs /\ (nvLost \/ undoFile' = NoFile))
             /\ UNCHANGED <<driver, session, nvOurs>>
    BY <2>1, <2>4
  <2>5. QED
    BY <1>5, <2>2, <2>3, <2>4, Zenon DEF Recover
<1>6. CASE Application
  <2>1. session'.global = session.global
    BY <1>0, <1>6, PreferencePower DEF Application
  <2>2. /\ nvPc = "application" /\ nvPc' = "global"
        /\ nvLost' = (nvLost /\ nvOurs') /\ UNCHANGED <<undoFile, undoOpen, undoData, nvUser>>
        /\ Save \/ UNCHANGED <<driver, nvOurs>>
    BY <1>6 DEF Application
  <2>3. CASE Save
    BY <1>0, <2>1, <2>2, <2>3 DEF Save
  <2>4. CASE UNCHANGED <<driver, nvOurs>>
    BY <1>0, <2>1, <2>2, <2>4
  <2>5. QED
    BY <2>2, <2>3, <2>4
<1>7. CASE Global
  BY <1>0, <1>7, PreferenceGlobal, SettingNames DEF Global
<1>8. CASE MakeFile
  BY <1>8, <1>0, SettingNames DEF MakeFile, Revert
<1>9. CASE Truncate
  BY <1>9, <1>0, SettingNames DEF Truncate, Revert
<1>10. CASE WriteFile
  BY <1>10, <1>0, SettingNames DEF WriteFile, Revert
<1>11. CASE SaveGlobal
  BY <1>11, <1>0, SettingNames DEF SaveGlobal, Save, Revert
<1>12. CASE RestoreGlobal
  <2>1. CASE UNCHANGED <<session, driver, nvOurs, undoFile, undoOpen, undoData>>
    BY <1>12, <2>1 DEF RestoreGlobal
  <2>2. ASSUME undoData # NoUndo, session' = Restored(undoData), Save
        PROVE  NvInv'
    <3>1. /\ session = driver /\ undoData \in Settings /\ nvUser # On
          /\ nvPc' = "unload" /\ UNCHANGED <<nvUser, nvLost>>
          /\ \/ undoFile' = NoFile /\ undoOpen' = "none" /\ undoData' = NoUndo
             \/ UNCHANGED <<undoFile, undoOpen, undoData>>
      BY <1>12, <2>2 DEF RestoreGlobal, RestoreAndDelete, NvTypeOK
    <3>2. session'.global = nvUser
      BY <1>0, <2>2, <3>1, RestoredSession
    <3>3. driver'.global = nvUser /\ ~nvOurs'
      BY <1>0, <2>2, <3>1, <3>2 DEF Save
    <3>4. QED
      BY <3>1, <3>3
  <2>3. QED
    BY <1>12, <2>1, <2>2 DEF RestoreGlobal, RestoreAndDelete
<1>13. CASE UNCHANGED nvVars
  BY <1>13 DEF nvVars
<1>14. QED
  BY <1>1, <1>2, <1>3, <1>4, <1>5, <1>6, <1>7, <1>8, <1>9, <1>10, <1>11, <1>12,
     <1>13 DEF NvNext

LEMMA NvInvHolds == NvSpec => [](NvTypeOK /\ NvInv)
BY NvTypeInit, NvTypeNext, NvInvInit, NvInvNext, PTL DEF NvSpec

\* The types of the preferences, the undo data and the undo file.
THEOREM NvTypeCorrect == NvSpec => []NvTypeOK
BY NvInvHolds, PTL

\* In every state the user's setting is the driver's, or the file names it.
THEOREM SettingRecoverable == NvSpec => []UserSettingRecoverable
<1>1. NvInv => UserSettingRecoverable
  BY DEF NvInv
<1>2. QED
  BY <1>1, NvInvHolds, PTL

----------------------------------------------------------------------------
(* The displays.                                                           *)

\* The tasks that the scheduler can have: a revert is never one that tries once only.
DdTasks ==
  [kind: {"none", "apply", "revert"}, once: {FALSE}, tried: SUBSET Monitors,
   mode: {NoMode} \cup {request.mode: request \in Requests},
   hdr: {NotSet} \cup {request.hdr: request \in Requests},
   sops: {FALSE} \cup {request.sops: request \in Requests}]

\* The tasks that the operations put there are such tasks.
LEMMA DdIdleTask == DdIdle \in DdTasks /\ DdIdle.kind = "none"
BY DEF DdIdle, DdTasks

LEMMA DdRevertTask ==
  RevertTask(FALSE) \in DdTasks /\ RevertTask(FALSE).kind = "revert"
BY DEF DdIdle, DdTasks, RevertTask

LEMMA DdApplyTask ==
  ASSUME NEW request \in Requests
  PROVE  ApplyTask(request) \in DdTasks
BY DEF DdIdle, DdTasks, ApplyTask

\* A revert that waits for other devices is still a revert.
LEMMA DdTriedTask ==
  ASSUME NEW task \in DdTasks, NEW devices \in SUBSET Monitors
  PROVE  /\ task.kind \in {"none", "apply", "revert"}
         /\ task.once = FALSE /\ task.tried \subseteq Monitors
         /\ [task EXCEPT !.tried = devices] \in DdTasks
         /\ [task EXCEPT !.tried = devices].kind = task.kind
BY DEF DdTasks

\* The types of the state, and the promise itself: it is inductive with them.
DdInv ==
  /\ ddUp \in BOOLEAN /\ ddSaved \in BOOLEAN /\ ddTask \in DdTasks
  /\ ddAsked \in {"user", "stream", "nobody"} /\ ddShown \in {"user", "stream"}
  /\ ddDevices \in SUBSET Monitors
  /\ DisplayGivenBack

LEMMA DdInvInit == DdInit => DdInv
BY DdIdleTask DEF DdInit, DdInv, DisplayGivenBack

LEMMA DdInvNext ==
  ASSUME DdInv, [DdNext]_ddVars
  PROVE  DdInv'
<1> USE DEF DdInv, DisplayGivenBack
<1>1. CASE DeviceChanges
  BY <1>1 DEF DeviceChanges
<1>2. CASE RunTask
  <2>1. CASE RunApply
    BY <1>2, <2>1, DdIdleTask DEF RunTask, RunApply, ApplyOk, Unchanged
  <2>2. CASE RunRevert
    <3>1. ddTask.once = FALSE
      BY DdTriedTask
    <3>2. CASE RevertOk /\ ddTask' = DdIdle
      BY <1>2, <3>2, DdIdleTask DEF RunTask, RevertOk
    <3>3. CASE Unchanged /\ UNCHANGED ddTask
      BY <1>2, <3>3 DEF RunTask, Unchanged
    <3>4. CASE Unchanged /\ ddTask' = [ddTask EXCEPT !.tried = ddDevices]
      <4>1. ddTask' \in DdTasks /\ ddTask'.kind = ddTask.kind
        BY <3>4, DdTriedTask
      <4>2. QED
        BY <1>2, <3>4, <4>1 DEF RunTask, Unchanged
    <3>5. QED
      BY <2>2, <3>1, <3>2, <3>3, <3>4 DEF RunRevert
  <2>3. QED
    BY <1>2, <2>1, <2>2 DEF RunTask
<1>3. ASSUME NEW request \in Requests, Configure(request) PROVE DdInv'
  BY <1>3, DdApplyTask, DdRevertTask DEF Configure
<1>4. CASE RevertConfiguration
  BY <1>4, DdRevertTask DEF RevertConfiguration
<1>5. CASE ResetPersistence
  BY <1>5, DdIdleTask DEF ResetPersistence
<1>6. CASE DdStart
  BY <1>6, DdRevertTask DEF DdStart
<1>7. CASE DdEnd
  BY <1>7, DdIdleTask DEF DdEnd, RevertOk, Unchanged
<1>8. CASE DdCrash
  BY <1>8, DdIdleTask DEF DdCrash
<1>9. CASE UNCHANGED ddVars
  BY <1>9 DEF ddVars
<1>10. QED
  BY <1>1, <1>2, <1>3, <1>4, <1>5, <1>6, <1>7, <1>8, <1>9 DEF DdNext

LEMMA DdInvHolds == DdSpec => []DdInv
BY DdInvInit, DdInvNext, PTL DEF DdSpec

\* The types of the scheduler's task and of the displays.
THEOREM DdTypeCorrect == DdSpec => []DdTypeOK
<1>1. DdInv => DdTypeOK
  BY DdTriedTask DEF DdInv, DdTypeOK
<1>2. QED
  BY <1>1, DdInvHolds, PTL

\* Displays that are to be given back have a revert under way.
THEOREM DisplaysGivenBack == DdSpec => []DisplayGivenBack
<1>1. DdInv => DisplayGivenBack
  BY DEF DdInv
<1>2. QED
  BY <1>1, DdInvHolds, PTL

----------------------------------------------------------------------------
(* The default audio device.                                               *)

\* The audio contexts that there can be, and the sinks that one is assigned.
Contexts == [control: BOOLEAN, host: Devices \cup {NoSink}, virtual: BOOLEAN,
             restore: BOOLEAN, flag: BOOLEAN]
Sinks == Devices \cup {NoSink, "virtual"}

\* The devices of the model are apart from the markers.
LEMMA DeviceNames ==
  /\ NoSink \notin Devices /\ "virtual" \notin Devices /\ "console" \in Roles
  /\ "steam" \in Devices /\ "headset" \in Devices /\ "speakers" \in Devices
BY DEF NoSink, Devices, Roles

LEMMA AllOnType ==
  ASSUME NEW d \in Devices
  PROVE  AllOn(d) \in [Roles -> Devices] /\ AllOn(d)["console"] = d
BY DeviceNames DEF AllOn

\* A fresh context, and one whose sink a session claims.
LEMMA ContextNone ==
  /\ NoCtx \in Contexts /\ NoCtx.control = FALSE /\ NoCtx.restore = FALSE
  /\ NoCtx.flag = FALSE
BY DEF NoCtx, Contexts, NoSink

LEMMA ContextFresh ==
  ASSUME default \in [Roles -> Devices]
  PROVE  /\ SinkInfo \in Contexts /\ SinkInfo.restore = FALSE
         /\ SinkInfo.host = default["console"] /\ SinkInfo.flag = FALSE
<1>1. default["console"] \in Devices
  BY DeviceNames
<1>2. ("steam" \in present) \in BOOLEAN /\ TRUE \in BOOLEAN /\ FALSE \in BOOLEAN
  OBVIOUS
<1>3. ASSUME NEW h \in Devices, NEW b \in BOOLEAN
      PROVE  LET c == [NoCtx EXCEPT !.control = TRUE, !.host = h, !.virtual = b]
             IN  c \in Contexts /\ c.restore = FALSE /\ c.host = h /\ c.flag = FALSE
  BY DEF NoCtx, Contexts
<1>4. SinkInfo \in Contexts
  BY <1>1, <1>2, <1>3, Zenon DEF SinkInfo
<1>5. SinkInfo.restore = FALSE /\ SinkInfo.host = default["console"] /\ SinkInfo.flag = FALSE
  BY <1>1, <1>2, <1>3, Zenon DEF SinkInfo
<1>6. QED
  BY <1>4, <1>5

LEMMA ContextClaimed ==
  ASSUME NEW c \in Contexts, NEW b \in BOOLEAN
  PROVE  LET d == [c EXCEPT !.flag = TRUE, !.restore = b]
         IN  /\ d \in Contexts /\ d.control = c.control /\ d.host = c.host
             /\ d.restore = b /\ d.flag = TRUE
BY DEF Contexts

\* The types of the state.
SndTypes ==
  /\ present \subseteq Devices
  /\ default \in [Roles -> Devices] /\ before \in [Roles -> Devices]
  /\ ours \subseteq Roles
  /\ moved \in BOOLEAN /\ lost \in BOOLEAN /\ up \in BOOLEAN /\ released \in BOOLEAN
  /\ refs \subseteq SndSession \cup {"display"} /\ ctx \in Contexts /\ assigned \in Sinks
  /\ sndPc \in [SndSession -> {"new", "choose", "claim", "microphone", "sample",
                               "reopen", "wait", "done"}]
  /\ sndSink \in [SndSession -> Sinks]
  /\ changed \in [SndSession -> BOOLEAN] /\ retries \in 0..Retries

LEMMA SinkOf ==
  ASSUME NEW sink \in Sinks, DeviceOf(sink) \in present, present \subseteq Devices
  PROVE  DeviceOf(sink) \in Devices
BY DEF DeviceOf

LEMMA NotifyTypes ==
  ASSUME SndTypes, Notify
  PROVE  changed' \in [SndSession -> BOOLEAN]
BY DEF SndTypes, Notify

\* The operations on the sink keep the types.
LEMMA SetSinkTypes ==
  ASSUME SndTypes, NEW sink \in Sinks, NEW roles \in SUBSET Roles, SetSink(sink, roles)
  PROVE  /\ default' \in [Roles -> Devices] /\ ours' \subseteq Roles
         /\ assigned' \in {assigned, sink} /\ changed' \in [SndSession -> BOOLEAN]
<1>1. changed' \in [SndSession -> BOOLEAN]
  BY NotifyTypes DEF SetSink
<1>2. CASE DeviceOf(sink) \in present
  BY <1>1, <1>2, SinkOf DEF SetSink, SndTypes
<1>3. CASE DeviceOf(sink) \notin present
  BY <1>1, <1>3 DEF SetSink, SndTypes
<1>4. QED
  BY <1>2, <1>3

LEMMA RestoreSinkType == SndTypes => RestoreSink \in Devices \cup {NoSink}
BY SndAssumption DEF SndTypes, RestoreSink, Contexts

LEMMA TakeCtxTypes ==
  ASSUME SndTypes, NEW h \in SndSession \cup {"display"}, TakeCtx(h)
  PROVE  /\ refs' \subseteq SndSession \cup {"display"} /\ ctx' \in Contexts
         /\ assigned' \in Sinks /\ before' \in [Roles -> Devices] /\ moved' \in BOOLEAN
BY ContextNone, ContextFresh DEF TakeCtx, StartControl, SndTypes, Sinks

LEMMA DropCtxTypes ==
  ASSUME SndTypes, NEW h \in SndSession \cup {"display"}, DropCtx(h)
  PROVE  /\ refs' \subseteq SndSession \cup {"display"} /\ ctx' \in Contexts
         /\ assigned' \in Sinks /\ default' \in [Roles -> Devices] /\ ours' \subseteq Roles
         /\ changed' \in [SndSession -> BOOLEAN]
         /\ moved' \in BOOLEAN /\ lost' \in BOOLEAN
<1>1. CASE refs = {h} /\ ctx.restore /\ RestoreSink # NoSink
  <2>1. /\ \E roles \in SUBSET Roles: SetSink(RestoreSink, roles)
        /\ RestoreSink \in Sinks
    BY <1>1, RestoreSinkType DEF DropCtx, StopControl, Sinks
  <2>2. moved' \in BOOLEAN /\ lost' \in BOOLEAN
    BY <1>1 DEF DropCtx, StopControl, SndTypes
  <2>3. QED
    BY <1>1, <2>1, <2>2, SetSinkTypes, ContextNone DEF DropCtx, StopControl, SndTypes
<1>2. CASE ~(refs = {h} /\ ctx.restore /\ RestoreSink # NoSink)
  BY <1>2, ContextNone DEF DropCtx, StopControl, SndTypes
<1>3. QED
  BY <1>1, <1>2

LEMMA SndTypesInit == SndInit => SndTypes
<1> SUFFICES ASSUME SndInit PROVE SndTypes
  OBVIOUS
<1>1. retries \in 0..Retries
  BY DEF SndInit, Retries
<1>2. QED
  BY <1>1, AllOnType, ContextNone, DeviceNames DEF SndInit, SndTypes, Sinks

LEMMA SndTypesNext ==
  ASSUME SndTypes, [SndNext]_sndVars
  PROVE  SndTypes'
<1>0. /\ "display" \in SndSession \cup {"display"}
      /\ \A s \in SndSession: s \in SndSession \cup {"display"}
  OBVIOUS
<1> USE DEF SndTypes, contextVars, threadVars, displayVars, deviceVars
<1>1. ASSUME NEW d \in Devices, Move(d) PROVE SndTypes'
  BY <1>1, AllOnType, NotifyTypes DEF Move
<1>2. CASE Unplug
  BY <1>2, NotifyTypes, DeviceNames DEF Unplug
<1>3. CASE Plug
  BY <1>3 DEF Plug
<1>4. ASSUME NEW s \in SndSession, Begin(s) PROVE SndTypes'
  <2>1. sndPc' = [sndPc EXCEPT ![s] = "choose"]
    BY <1>4 DEF Begin, Step
  <2>2. QED
    BY <1>0, <1>4, <2>1, TakeCtxTypes DEF Begin
<1>5. ASSUME NEW s \in SndSession, Choose(s) PROVE SndTypes'
  <2>1. \A b \in BOOLEAN: ChosenSink(b) \in Sinks
    BY SndAssumption DEF ChosenSink, Sinks, Contexts
  <2>2. QED
    BY <1>5, <2>1 DEF Choose, Step
<1>6. ASSUME NEW s \in SndSession, ClaimSink(s) PROVE SndTypes'
  <2>1. /\ sndPc' \in [SndSession -> {"new", "choose", "claim", "microphone", "sample",
                                      "reopen", "wait", "done"}]
        /\ UNCHANGED <<present, before, moved, lost, up, refs, sndSink, displayVars>>
    BY <1>6 DEF ClaimSink, Step
  <2>2. CASE UNCHANGED <<ctx, default, ours, assigned, changed>>
    BY <2>1, <2>2
  <2>3. ASSUME NEW roles \in SUBSET Roles, Claim(s, roles)
        PROVE  SndTypes'
    <3>1. ctx' \in Contexts
      BY <2>3, ContextClaimed DEF Claim
    <3>2. sndSink[s] \in Sinks
      OBVIOUS
    <3>3. /\ default' \in [Roles -> Devices] /\ ours' \subseteq Roles
          /\ assigned' \in Sinks /\ changed' \in [SndSession -> BOOLEAN]
      BY <2>3, <3>2, SetSinkTypes DEF Claim
    <3>4. QED
      BY <2>1, <3>1, <3>3
  <2>4. QED
    BY <1>6, <2>2, <2>3 DEF ClaimSink
<1>7. ASSUME NEW s \in SndSession, OpenMicrophone(s) PROVE SndTypes'
  BY <1>7 DEF OpenMicrophone, Step
<1>8. ASSUME NEW s \in SndSession, Resample(s) PROVE SndTypes'
  <2>1. /\ sndPc' = [sndPc EXCEPT ![s] = "reopen"]
        /\ UNCHANGED <<present, before, moved, lost, up, refs, ctx, sndSink, displayVars>>
    BY <1>8 DEF Resample, Step
  <2>2. ASSUME NEW roles \in SUBSET Roles, SetSink(assigned, roles)
        PROVE  SndTypes'
    BY <2>1, <2>2, SetSinkTypes
  <2>3. CASE changed' = [changed EXCEPT ![s] = FALSE] /\ UNCHANGED <<default, ours, assigned>>
    BY <2>1, <2>3
  <2>4. QED
    BY <1>8, <2>2, <2>3 DEF Resample
<1>9. ASSUME NEW s \in SndSession, StopSampling(s) PROVE SndTypes'
  BY <1>9 DEF StopSampling, Step
<1>10. ASSUME NEW s \in SndSession, Finish(s) PROVE SndTypes'
  <2>1. sndPc' = [sndPc EXCEPT ![s] = "done"]
    BY <1>10 DEF Finish, Step
  <2>2. QED
    BY <1>0, <1>10, <2>1, DropCtxTypes DEF Finish
<1>11. CASE DropReleased
  BY <1>0, <1>11, DropCtxTypes DEF DropReleased
<1>12. CASE CaptureContext
  <2>1. retries' \in 0..Retries
    BY <1>12 DEF CaptureContext, Retries
  <2>2. QED
    BY <1>0, <1>12, <2>1, TakeCtxTypes DEF CaptureContext
<1>13. CASE ReleaseContext
  <2>1. retries' \in 0..Retries
    BY <1>13 DEF ReleaseContext, Retries
  <2>2. CASE DropCtx("display")
    BY <1>0, <1>13, <2>1, <2>2, DropCtxTypes DEF ReleaseContext
  <2>3. CASE UNCHANGED <<refs, default, ours, moved, lost, changed, ctx, assigned>>
    BY <1>13, <2>1, <2>3 DEF ReleaseContext
  <2>4. QED
    BY <1>13, <2>2, <2>3 DEF ReleaseContext
<1>14. CASE Crash
  <2>1. retries' \in 0..Retries
    BY <1>14 DEF Crash, Retries
  <2>2. QED
    BY <1>14, <2>1, ContextNone DEF Crash, Sinks
<1>15. CASE Restart
  BY <1>15, AllOnType DEF Restart, ResetDefault
<1>16. CASE UNCHANGED sndVars
  BY <1>16 DEF sndVars
<1>17. QED
  BY <1>1, <1>2, <1>3, <1>4, <1>5, <1>6, <1>7, <1>8, <1>9, <1>10, <1>11, <1>12, <1>13,
     <1>14, <1>15, <1>16 DEF SndNext

\* What DefaultGivenBack asks for when no host device was lost.
SinkGivenBack ==
  /\ default["console"] = "steam" => "console" \notin ours
  /\ ~moved => default \in {before, AllOn(before["console"])}

\* Who holds the audio context: every thread from its start to its end.  A context
\* that nobody holds is the empty one.
Held ==
  /\ "headset" \in present
  /\ ~up => refs = {}
  /\ refs = {} => ctx = NoCtx
  /\ \A s \in SndSession: sndPc[s] \notin {"new", "done"} => s \in refs
  /\ \A s \in SndSession: sndPc[s] = "claim" => ctx.control

\* The context has noted the device that it must give back, from before the first
\* session changed it to the end of the last; until then nothing was changed.
Noted ==
  /\ ctx.control => ctx.host = before["console"]
  /\ ctx.restore => ctx.control /\ ctx.flag
  /\ refs # {} /\ assigned = "virtual" => ctx.restore
  /\ up /\ ~ctx.restore => lost \/ SinkGivenBack

\* Who takes the context finds the device noted, or notes it.
LEMMA TakeCtxNoted ==
  ASSUME SndTypes, Held, Noted, up, NEW h \in SndSession \cup {"display"}, TakeCtx(h),
         UNCHANGED <<present, default, ours, lost, up>>
  PROVE  Noted' /\ refs' # {} /\ h \in refs' /\ refs \subseteq refs' /\ (refs # {} => ctx' = ctx)
<1>1. h \in refs' /\ refs \subseteq refs' /\ refs' # {}
  BY DEF TakeCtx
<1>2. CASE refs # {}
  BY <1>1, <1>2 DEF TakeCtx, Noted, SinkGivenBack
<1>3. CASE refs = {}
  <2>1. ctx = NoCtx /\ ~ctx.restore
    BY <1>3, ContextNone DEF Held
  <2>2. lost \/ (default["console"] = "steam" => "console" \notin ours)
    BY <2>1 DEF Noted, SinkGivenBack
  <2>3. /\ ctx' = SinkInfo \/ ctx' = NoCtx
        /\ assigned' = NoSink /\ before' = default /\ moved' = FALSE
    BY <1>3 DEF TakeCtx, StartControl
  <2>4. ctx'.restore = FALSE /\ (ctx'.control => ctx'.host = before'["console"])
    BY <2>3, ContextNone, ContextFresh DEF SndTypes
  <2>5. lost' \/ SinkGivenBack'
    BY <2>2, <2>3 DEF SinkGivenBack
  <2>6. assigned' # "virtual"
    BY <2>3 DEF NoSink
  <2>7. QED
    BY <1>1, <1>3, <2>4, <2>5, <2>6 DEF Noted
<1>4. QED
  BY <1>2, <1>3

\* Who drops the last reference to the context gives the device back.
LEMMA DropCtxNoted ==
  ASSUME SndTypes, Held, Noted, up, NEW h \in SndSession \cup {"display"}, DropCtx(h),
         UNCHANGED <<present, before, up>>
  PROVE  Noted' /\ refs' = refs \ {h} /\ (refs' = {} => ctx' = NoCtx) /\ (refs' # {} => ctx' = ctx)
<1>1. refs' = refs \ {h}
  BY DEF DropCtx
<1>2. CASE refs # {h}
  <2>1. UNCHANGED <<default, ours, moved, lost, ctx, assigned>>
    BY <1>2 DEF DropCtx
  <2>2. refs' = {} => refs = {}
    BY <1>1, <1>2
  <2>3. Noted'
    BY <1>1, <2>1 DEF Noted, SinkGivenBack
  <2>4. QED
    BY <1>1, <2>1, <2>2, <2>3 DEF Held
<1>3. CASE refs = {h}
  <2>1. ctx' = NoCtx /\ refs' = {} /\ StopControl
    BY <1>1, <1>3 DEF DropCtx, StopControl
  <2>2. (lost' \/ SinkGivenBack') => Noted'
    <3>1. ~ctx'.control /\ ~ctx'.restore
      BY <2>1, ContextNone
    <3>2. QED
      BY <2>1, <3>1 DEF Noted
  <2>3. ASSUME ~ctx.restore PROVE Noted'
    <3>1. UNCHANGED <<default, ours, moved, lost>>
      BY <2>1, <2>3 DEF StopControl
    <3>2. lost' \/ SinkGivenBack'
      BY <2>3, <3>1 DEF Noted, SinkGivenBack
    <3>3. QED
      BY <2>2, <3>2
  <2>4. ASSUME ctx.restore PROVE Noted'
    <3>1. ctx.host = before["console"] /\ ctx.host \in Devices
      BY <2>4, DeviceNames DEF Noted, SndTypes
    <3>2. /\ RestoreSink = before["console"] /\ RestoreSink # NoSink /\ RestoreSink # "virtual"
      BY <3>1, DeviceNames DEF RestoreSink
    <3>3. PICK roles \in SUBSET Roles:
            /\ SetSink(RestoreSink, roles)
            /\ lost' = (lost \/ (RestoreSink \notin present \/ roles # Roles))
      BY <2>1, <2>4, <3>2 DEF StopControl
    <3>4. CASE RestoreSink \notin present \/ roles # Roles
      <4>1. lost'
        BY <3>3, <3>4
      <4>2. QED
        BY <2>2, <4>1
    <3>5. CASE RestoreSink \in present /\ roles = Roles
      <4>1. default' = AllOn(before'["console"]) /\ ours' = {}
        BY <3>2, <3>3, <3>5 DEF SetSink, DeviceOf, AllOn, SndTypes
      <4>2. QED
        BY <2>2, <4>1 DEF SinkGivenBack
    <3>6. QED
      BY <3>4, <3>5
  <2>5. Noted'
    BY <2>3, <2>4
  <2>6. QED
    BY <1>1, <2>1, <2>5
<1>4. QED
  BY <1>2, <1>3

\* The invariant of the audio context holds at the start, and every step keeps it.
LEMMA SndInvInit == SndInit => Held /\ Noted
<1> SUFFICES ASSUME SndInit PROVE Held /\ Noted
  OBVIOUS
<1>1. /\ present = Devices /\ refs = {} /\ ctx = NoCtx /\ up
      /\ \A s \in SndSession: sndPc[s] = "new"
  BY DEF SndInit
<1>2. Held
  BY <1>1, DeviceNames DEF Held
<1>3. SinkGivenBack
  BY DEF SndInit, SinkGivenBack
<1>4. QED
  BY <1>1, <1>2, <1>3, ContextNone DEF Noted

LEMMA SndInvNext ==
  ASSUME SndTypes, Held, Noted, [SndNext]_sndVars
  PROVE  Held' /\ Noted'
<1>0. "display" \in SndSession \cup {"display"} /\ SndSession \subseteq SndSession \cup {"display"}
  OBVIOUS
<1> USE DEF contextVars, threadVars, displayVars, deviceVars
<1>1. ASSUME NEW d \in Devices, Move(d) PROVE Held' /\ Noted'
  <2>1. Held'
    BY <1>1 DEF Move, Held
  <2>2. SinkGivenBack'
    BY <1>1 DEF Move, SinkGivenBack
  <2>3. QED
    BY <1>1, <2>1, <2>2 DEF Move, Noted
<1>2. CASE Unplug
  <2>1. Held'
    BY <1>2 DEF Unplug, Held
  <2>2. SinkGivenBack => SinkGivenBack'
    <3>1. default'["console"] = "steam" => default["console"] = "steam"
      BY <1>2, DeviceNames DEF Unplug
    <3>2. ~moved' => ~moved /\ default' = default
      BY <1>2 DEF Unplug
    <3>3. QED
      BY <1>2, <3>1, <3>2 DEF Unplug, SinkGivenBack
  <2>3. QED
    BY <1>2, <2>1, <2>2 DEF Unplug, Noted
<1>3. CASE Plug
  BY <1>3, DeviceNames DEF Plug, Held, Noted, SinkGivenBack
<1>4. ASSUME NEW s \in SndSession, Begin(s) PROVE Held' /\ Noted'
  <2>1. /\ Noted' /\ refs' # {} /\ s \in refs' /\ refs \subseteq refs' /\ (refs # {} => ctx' = ctx)
        /\ sndPc' = [sndPc EXCEPT ![s] = "choose"] /\ UNCHANGED <<present, up>> /\ up
    BY <1>0, <1>4, TakeCtxNoted DEF Begin, Step
  <2>2. Held'
    BY <2>1 DEF Held, SndTypes
  <2>3. QED
    BY <2>1, <2>2
<1>5. ASSUME NEW s \in SndSession, Choose(s) PROVE Held' /\ Noted'
  <2>1. Held'
    BY <1>5 DEF Choose, Step, Held, SndTypes
  <2>2. QED
    BY <1>5, <2>1 DEF Choose, Noted, SinkGivenBack
<1>6. ASSUME NEW s \in SndSession, ClaimSink(s) PROVE Held' /\ Noted'
  <2>1. /\ UNCHANGED <<present, before, moved, lost, up, refs>> /\ s \in refs /\ up
        /\ \A t \in SndSession: /\ sndPc'[t] \notin {"new", "done"} => sndPc[t] \notin {"new", "done"}
                                /\ sndPc'[t] = "claim" => sndPc[t] = "claim"
        /\ sndPc[s] = "claim"
    BY <1>6 DEF ClaimSink, Step, Held, SndTypes
  <2>2. CASE ctx.flag
    <3>1. UNCHANGED <<ctx, default, ours, assigned>>
      BY <1>6, <2>2 DEF ClaimSink
    <3>2. QED
      BY <2>1, <3>1 DEF Held, Noted, SinkGivenBack
  <2>3. ASSUME ~ctx.flag, NEW roles \in SUBSET Roles, Claim(s, roles)
        PROVE  Held' /\ Noted'
    <3>1. ctx.control /\ ~ctx.restore /\ ctx.host = before["console"] /\ assigned # "virtual"
      BY <2>1, <2>3 DEF Held, Noted
    <3>2. /\ ctx'.control = ctx.control /\ ctx'.host = ctx.host /\ ctx'.flag = TRUE
          /\ ctx'.restore = (ctx.host # sndSink[s])
      BY <2>3, ContextClaimed DEF Claim, SndTypes
    <3>3. Held'
      BY <2>1, <3>1, <3>2 DEF Held
    <3>4. CASE ctx.host = sndSink[s]
      <4>1. UNCHANGED <<default, ours, assigned>> /\ ~ctx'.restore
        BY <2>3, <3>2, <3>4 DEF Claim
      <4>2. lost' \/ SinkGivenBack'
        BY <2>1, <3>1, <4>1 DEF Noted, SinkGivenBack
      <4>3. QED
        BY <2>1, <3>1, <3>2, <3>3, <4>1, <4>2 DEF Noted
    <3>5. CASE ctx.host # sndSink[s]
      <4>1. ctx'.restore
        BY <3>2, <3>5
      <4>2. QED
        BY <2>1, <3>1, <3>2, <3>3, <4>1 DEF Noted
    <3>6. QED
      BY <3>4, <3>5
  <2>4. QED
    BY <1>6, <2>2, <2>3 DEF ClaimSink
<1>7. ASSUME NEW s \in SndSession, OpenMicrophone(s) PROVE Held' /\ Noted'
  <2>1. Held'
    BY <1>7 DEF OpenMicrophone, Step, Held, SndTypes
  <2>2. QED
    BY <1>7, <2>1 DEF OpenMicrophone, Noted, SinkGivenBack
<1>8. ASSUME NEW s \in SndSession, Resample(s) PROVE Held' /\ Noted'
  <2>1. /\ UNCHANGED <<present, before, moved, lost, up, refs, ctx>> /\ s \in refs /\ assigned' = assigned
    BY <1>8 DEF Resample, Held, SetSink
  <2>2. Held'
    BY <1>8, <2>1 DEF Resample, Step, Held, SndTypes
  <2>3. CASE assigned = "virtual"
    <3>1. ctx.restore
      BY <2>1, <2>3 DEF Noted
    <3>2. QED
      BY <2>1, <2>2, <3>1 DEF Noted
  <2>4. CASE assigned # "virtual"
    <3>1. UNCHANGED <<default, ours>>
      BY <1>8, <2>4 DEF Resample
    <3>2. QED
      BY <2>1, <2>2, <3>1 DEF Noted, SinkGivenBack
  <2>5. QED
    BY <2>3, <2>4
<1>9. ASSUME NEW s \in SndSession, StopSampling(s) PROVE Held' /\ Noted'
  <2>1. Held'
    BY <1>9 DEF StopSampling, Step, Held, SndTypes
  <2>2. QED
    BY <1>9, <2>1 DEF StopSampling, Noted, SinkGivenBack
<1>10. ASSUME NEW s \in SndSession, Finish(s) PROVE Held' /\ Noted'
  <2>1. /\ Noted' /\ refs' = refs \ {s} /\ (refs' = {} => ctx' = NoCtx) /\ (refs' # {} => ctx' = ctx)
        /\ sndPc' = [sndPc EXCEPT ![s] = "done"] /\ UNCHANGED <<present, up>> /\ up
    BY <1>0, <1>10, DropCtxNoted DEF Finish, Step
  <2>2. Held'
    BY <2>1 DEF Held, SndTypes
  <2>3. QED
    BY <2>1, <2>2
<1>11. ASSUME DropCtx("display"), UNCHANGED <<present, before, up, sndPc>>, up
       PROVE  Held' /\ Noted'
  <2>1. /\ Noted' /\ refs' = refs \ {"display"}
        /\ (refs' = {} => ctx' = NoCtx) /\ (refs' # {} => ctx' = ctx)
    BY <1>0, <1>11, DropCtxNoted
  <2>2. Held'
    BY <1>11, <2>1, SndAssumption DEF Held
  <2>3. QED
    BY <2>1, <2>2
<1>12. CASE DropReleased
  BY <1>11, <1>12 DEF DropReleased
<1>13. CASE CaptureContext
  <2>1. /\ Noted' /\ refs' # {} /\ refs \subseteq refs' /\ (refs # {} => ctx' = ctx)
        /\ UNCHANGED <<present, up, sndPc>> /\ up
    BY <1>0, <1>13, TakeCtxNoted DEF CaptureContext
  <2>2. Held'
    BY <2>1 DEF Held
  <2>3. QED
    BY <2>1, <2>2
<1>14. CASE ReleaseContext
  <2>1. CASE DropCtx("display")
    BY <1>11, <1>14, <2>1 DEF ReleaseContext
  <2>2. CASE UNCHANGED <<refs, default, ours, moved, lost, changed, ctx, assigned>>
    BY <1>14, <2>2 DEF ReleaseContext, Held, Noted, SinkGivenBack
  <2>3. QED
    BY <1>14, <2>1, <2>2 DEF ReleaseContext
<1>15. CASE Crash
  BY <1>15, ContextNone DEF Crash, Held, Noted
<1>16. CASE Restart
  <2>1. /\ ctx = NoCtx /\ ctx' = NoCtx /\ refs' = {} /\ before' = default' /\ "headset" \in present'
        /\ \A s \in SndSession: sndPc'[s] = "new"
    BY <1>16 DEF Restart, Held
  <2>2. default'["console"] # "steam"
    BY <1>16, AllOnType DEF Restart, ResetDefault, Held, SndTypes
  <2>3. SinkGivenBack'
    BY <2>1, <2>2 DEF SinkGivenBack
  <2>4. Held'
    BY <1>16, <2>1 DEF Held, Restart
  <2>5. QED
    BY <2>1, <2>3, <2>4, ContextNone DEF Noted
<1>17. CASE UNCHANGED sndVars
  BY <1>17 DEF sndVars, Held, Noted, SinkGivenBack
<1>18. QED
  BY <1>1, <1>2, <1>3, <1>4, <1>5, <1>6, <1>7, <1>8, <1>9, <1>10, <1>12, <1>13, <1>14,
     <1>15, <1>16, <1>17 DEF SndNext

LEMMA SndInvHolds == SndSpec => [](SndTypes /\ Held /\ Noted)
<1>1. SndInit => SndTypes /\ Held /\ Noted
  BY SndTypesInit, SndInvInit
<1>2. SndTypes /\ Held /\ Noted /\ [SndNext]_sndVars => (SndTypes /\ Held /\ Noted)'
  BY SndTypesNext, SndInvNext
<1>3. QED
  BY <1>1, <1>2, PTL DEF SndSpec

\* The types of the audio state.
THEOREM SndTypeCorrect == SndSpec => []SndTypeOK
<1>1. SndTypes => SndTypeOK
  BY DEF SndTypes, SndTypeOK, Contexts, Sinks
<1>2. QED
  BY <1>1, SndInvHolds, PTL

\* When nobody holds the context the default device has been given back, whichever
\* sessions, captures, device changes, crashes and starts came before, unless the host
\* device was lost or a restore of it failed since the start.
THEOREM DefaultRestored == SndSpec => []DefaultGivenBack
<1>1. SndTypes /\ Held /\ Noted => DefaultGivenBack
  BY ContextNone DEF Held, Noted, SinkGivenBack, DefaultGivenBack
<1>2. QED
  BY <1>1, SndInvHolds, PTL
===============================================================================

---------------------------- MODULE DisplayDevice ----------------------------
(***************************************************************************)
(* The display settings of a stream (display_device.cpp): what is asked of *)
(* the displays from the configuration and the launch session, the one     *)
(* task of the retry scheduler that applies or reverts it, and the file    *)
(* from which the settings of before are restored after a crash.           *)
(*                                                                         *)
(* The library that changes the settings is external: it keeps what was    *)
(* there before in a file until that is restored, restores it only when    *)
(* every device is there, and any call of it may fail or be too early.  A  *)
(* new task of the scheduler replaces the one before and runs at once,     *)
(* unless it is delayed; it is repeated until it stops itself.             *)
(***************************************************************************)
EXTENDS Integers, Sequences, FiniteSets, SequencesExt

VARIABLES
  ddUp,       \* DD_DATA.sm_instance
  ddTask,     \* the task of its scheduler
  ddAsked,    \* history: who the displays are to belong to
  ddSaved,    \* the persistence file: settings to restore
  ddShown,    \* whose settings the displays have
  ddDevices   \* display devices that are there

ddVars == <<ddUp, ddTask, ddAsked, ddSaved, ddShown, ddDevices>>

Monitors   == {"internal", "external"}
NotSet     == "notSet"
BadText    == "bad"
NoMode     == [resolution |-> NotSet, rate |-> NotSet]
DdIdle       == [kind |-> "none", once |-> FALSE, tried |-> {}, mode |-> NoMode,
               hdr |-> NotSet, sops |-> FALSE]
ApplyTask(request) ==
  [DdIdle EXCEPT !.kind = "apply", !.mode = request.mode, !.hdr = request.hdr,
               !.sops = request.sops]
RevertTask(once) == [DdIdle EXCEPT !.kind = "revert", !.once = once]

DdInit ==
  /\ ddUp = FALSE /\ ddTask = DdIdle /\ ddAsked = "user"
  /\ ddSaved = FALSE /\ ddShown = "user" /\ ddDevices = Monitors

----------------------------------------------------------------------------
(* parse_configuration                                                     *)

\* The configuration and the client: an option is automatic, manual or disabled,
\* a text is a mode, empty or bad, an entry of mode_remapping has four texts.
Entry(reqRes, reqFps, finRes, finRate) ==
  [reqRes |-> reqRes, reqFps |-> reqFps, finRes |-> finRes, finRate |-> finRate]
RemapLists == {
  <<>>, <<Entry("client", NotSet, "remapped", NotSet)>>,
  <<Entry("other", NotSet, "remapped", NotSet),
    Entry(NotSet, "client", NotSet, "remapped")>>,
  <<Entry(NotSet, NotSet, "remapped", "remapped"),
    Entry(BadText, NotSet, NotSet, NotSet)>>,
  <<Entry(NotSet, BadText, "remapped", NotSet)>>,
  <<Entry("client", "client", NotSet, NotSet)>>}
Inputs == [option: {"disabled", "verify_only"}, resolution: {"automatic",
           "manual", "disabled"}, rate: {"automatic", "manual", "disabled"},
           hdr: {"automatic", "disabled"}, manual: {"manual", NotSet, BadText},
           remap: RemapLists, sops: BOOLEAN, valid: BOOLEAN]

\* parse_resolution_option, parse_refresh_rate_option: a mode, NotSet, or BadText
\* when nothing is to be applied.
ResolutionOf(in) ==
  CASE in.resolution = "disabled" \/ ~in.sops -> NotSet
    [] in.resolution = "automatic" -> IF in.valid THEN "client" ELSE BadText
    [] OTHER -> IF in.manual = NotSet THEN BadText ELSE in.manual

RateOf(in) ==
  CASE in.rate = "disabled"  -> NotSet
    [] in.rate = "automatic" -> IF in.valid THEN "client" ELSE BadText
    [] OTHER -> IF in.manual = NotSet THEN BadText ELSE in.manual

\* determine_remapping_type, parse_remapping_entry: only the fields of a mode
\* that is automatic are read.
Parsed(entry, in) ==
  LET res  == in.resolution = "automatic"
      rate == in.rate = "automatic"
  IN  Entry(IF res THEN entry.reqRes ELSE NotSet,
            IF rate THEN entry.reqFps ELSE NotSet,
            IF res THEN entry.finRes ELSE NotSet,
            IF rate THEN entry.finRate ELSE NotSet)

Malformed(entry) ==
  \/ BadText \in {entry.reqRes, entry.reqFps, entry.finRes, entry.finRate}
  \/ entry.finRes = NotSet /\ entry.finRate = NotSet

Matches(entry, mode, sops) ==
  /\ ~sops => entry.reqRes = NotSet /\ entry.finRes = NotSet
  /\ entry.reqRes \in {NotSet, mode.resolution}
  /\ entry.reqFps \in {NotSet, mode.rate}

\* remap_display_mode_if_needed: the first entry that matches, if none before it
\* is malformed.  (Lists of a kind that is not automatic are not looked at.)
Remap(in, mode) ==
  LET entries == [i \in DOMAIN in.remap |-> Parsed(in.remap[i], in)]
      stops   == {i \in DOMAIN entries: Malformed(entries[i])
                                        \/ Matches(entries[i], mode, in.sops)}
      first   == CHOOSE i \in stops: \A j \in stops: i <= j
      entry   == entries[first]
  IN  IF (in.resolution # "automatic" /\ in.rate # "automatic") \/ stops = {}
        THEN mode
      ELSE IF Malformed(entry) THEN [mode EXCEPT !.resolution = BadText]
      ELSE [resolution |-> IF entry.finRes # NotSet THEN entry.finRes
                                                    ELSE mode.resolution,
            rate |-> IF entry.finRate # NotSet THEN entry.finRate ELSE mode.rate]

ParseConfiguration(in) ==
  LET mode == [resolution |-> ResolutionOf(in), rate |-> RateOf(in)]
      new  == IF BadText \in {mode.resolution, mode.rate} THEN mode
                                                          ELSE Remap(in, mode)
  IN  [kind |-> IF in.option = "disabled" THEN "disabled"
                ELSE IF BadText \in {new.resolution, new.rate} THEN "failed"
                ELSE "config",
       mode |-> new, sops |-> in.sops,
       hdr  |-> IF in.hdr = "automatic" THEN "client" ELSE NotSet]

Requests == {ParseConfiguration(in): in \in Inputs}

----------------------------------------------------------------------------
(* The library (external).                                                 *)

\* applySettings keeps what was there before it changes anything.
ApplyOk      == ddSaved' = TRUE /\ ddShown' = "stream"
Unchanged    == UNCHANGED <<ddSaved, ddShown>>
RevertOk     == /\ ~ddSaved \/ ddDevices = Monitors
                /\ ddSaved' = FALSE
                /\ ddShown' = IF ddSaved THEN "user" ELSE ddShown

DeviceChanges ==
  /\ \E d \in Monitors:
       ddDevices' = IF d \in ddDevices THEN ddDevices \ {d} ELSE ddDevices \cup {d}
  /\ ddDevices' # {}
  /\ UNCHANGED <<ddUp, ddTask, ddAsked, ddSaved, ddShown>>

----------------------------------------------------------------------------
(* The task.                                                               *)

\* configure_display tries again only what was too early.
RunApply ==
  /\ ddTask.kind = "apply"
  /\ \/ ApplyOk /\ ddTask' = DdIdle
     \/ Unchanged /\ ddTask' = DdIdle      \* it failed
     \/ Unchanged /\ UNCHANGED ddTask    \* ApiTemporarilyUnavailable

\* Altered form: a revert that failed is not tried again.
RunRevertGivesUp ==
  /\ ddTask.kind = "revert"
  /\ \/ RevertOk /\ ddTask' = DdIdle
     \/ Unchanged /\ UNCHANGED ddTask
     \/ Unchanged /\ ddTask' = DdIdle

\* revert_configuration_unlocked: after a failure it waits until the devices are
\* others.
RunRevert ==
  /\ ddTask.kind = "revert"
  /\ IF ddTask.once
       THEN (RevertOk \/ Unchanged) /\ ddTask' = DdIdle
       ELSE /\ ddDevices # ddTask.tried
            /\ \/ RevertOk /\ ddTask' = DdIdle
               \/ Unchanged /\ UNCHANGED ddTask
               \/ Unchanged /\ ddTask' = [ddTask EXCEPT !.tried = ddDevices]

RunTask ==
  /\ ddUp
  /\ RunApply \/ RunRevert
  /\ UNCHANGED <<ddUp, ddAsked, ddDevices>>

----------------------------------------------------------------------------
(* The calls.                                                              *)

\* configure_display of a launch: a configuration that cannot be parsed leaves
\* what was asked before; a disabled one reverts.
Configure(request) ==
  /\ ddUp /\ request.kind # "failed"
  /\ IF request.kind = "config"
       THEN ddTask' = ApplyTask(request) /\ ddAsked' = "stream"
       ELSE ddTask' = RevertTask(FALSE) /\ ddAsked' = "user"
  /\ UNCHANGED <<ddUp, ddSaved, ddShown, ddDevices>>

\* revert_configuration, when the last session left, the app ended or a launch
\* failed.
RevertConfiguration ==
  /\ ddUp
  /\ ddTask' = RevertTask(FALSE) /\ ddAsked' = "user"
  /\ UNCHANGED <<ddUp, ddSaved, ddShown, ddDevices>>

\* reset_persistence, from the configuration page: the displays are left alone
\* from now on.
ResetPersistence ==
  /\ ddUp /\ ddTask' = DdIdle
  /\ \E ok \in BOOLEAN:
       /\ ddSaved' = (ddSaved /\ ~ok)
       /\ ddAsked' = "nobody"
  /\ UNCHANGED <<ddUp, ddShown, ddDevices>>

\* init: what an earlier run did not restore is restored now.
DdStart ==
  /\ ~ddUp /\ ddUp' = TRUE
  /\ ddTask' = RevertTask(FALSE) /\ ddAsked' = "user"
  /\ UNCHANGED <<ddSaved, ddShown, ddDevices>>

\* ~deinit_t: one try, and the scheduler is gone.
DdEnd ==
  /\ ddUp /\ ddUp' = FALSE /\ ddTask' = DdIdle
  /\ RevertOk \/ Unchanged
  /\ UNCHANGED <<ddAsked, ddDevices>>

DdCrash ==
  /\ ddUp /\ ddUp' = FALSE /\ ddTask' = DdIdle
  /\ UNCHANGED <<ddAsked, ddSaved, ddShown, ddDevices>>

DdNext ==
  \/ DeviceChanges \/ RunTask
  \/ \E request \in Requests: Configure(request)
  \/ RevertConfiguration \/ ResetPersistence \/ DdStart \/ DdEnd \/ DdCrash

DdSpec == DdInit /\ [][DdNext]_ddVars

----------------------------------------------------------------------------
(* Properties.                                                             *)

\* The variables keep their types.
DdTypeOK ==
  /\ ddUp \in BOOLEAN /\ ddSaved \in BOOLEAN
  /\ ddTask.kind \in {"none", "apply", "revert"}
  /\ ddTask.tried \subseteq Monitors
  /\ ddAsked \in {"user", "stream", "nobody"} /\ ddShown \in {"user", "stream"}
  /\ ddDevices \subseteq Monitors

\* Displays that are to be given back and are not yet have a revert under way,
\* whatever failed, which devices went and came, and whichever launch, revert or
\* crash came between; and a stream's settings are not applied any more.
DisplayGivenBack ==
  ddUp /\ ddAsked = "user" =>
    /\ ddTask.kind # "apply"
    /\ ddSaved => ddTask.kind = "revert"
=============================================================================

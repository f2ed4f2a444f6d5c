------------------------------ MODULE Displays ------------------------------
(***************************************************************************)
(* Which display is captured.  The capture thread of video.cpp lists the   *)
(* displays by name, keeps an index into the list, and opens the display   *)
(* of that name; when capture is interrupted it lists them again, looks    *)
(* for the name it had, and opens that one (refresh_displays,              *)
(* reset_display).  Below it is Desktop Duplication: one frame at a time   *)
(* is acquired from the display and released, and frames are taken in      *)
(* groups that keep the rate of the client (display_base.cpp).             *)
(*                                                                         *)
(* Displays are plugged, switched off and reordered at any time.  The      *)
(* threads around the capture thread are the subject of Capture.           *)
(***************************************************************************)
EXTENDS Integers, Sequences, FiniteSets, SequencesExt

CONSTANTS Display,     \* names of displays
          NoName,      \* the empty name: whichever comes first
          OutputName,  \* map_output_name of the configured output
          MaxGroup     \* frames of a pacing group that are told apart

ASSUME DisplaysAssumption ==
  /\ NoName \notin Display /\ OutputName \in Display \cup {NoName}
  /\ MaxGroup \in Nat \ {0} /\ IsFiniteSet(Display)

VARIABLES
  dspDesk,     \* the displays that can be captured, in DXGI's order
  dspNames,    \* display_names
  dspIndex,    \* display_p, from 1; 0 while it is not known
  dspSwitch,   \* switch_display_event, 0 for nothing
  dspPhase,    \* where the capture thread is
  dspOpened,   \* the display that disp duplicates, NoName without disp
  dspCurrent,  \* factory->IsCurrent(), TRUE without disp
  dspFrame,    \* has_frame
  dspGroup,    \* frame_pacing_group_frames, 0 without a group
  dspLast,     \* history: the display that was captured last
  dspExcused   \* history: displays that may be left since it was opened

dspListVars == <<dspNames, dspIndex>>
dspDisp == <<dspOpened, dspCurrent, dspFrame, dspGroup>>
dspVars == <<dspDesk, dspListVars, dspSwitch, dspPhase, dspDisp, dspLast, dspExcused>>

Orders == UNION {SetToSeqs(shown): shown \in SUBSET Display}

DspInit ==
  /\ dspDesk \in Orders
  /\ dspNames = <<>> /\ dspIndex = 0 /\ dspSwitch = 0 /\ dspPhase = "start"
  /\ dspOpened = NoName /\ dspCurrent = TRUE /\ dspFrame = FALSE /\ dspGroup = 0
  /\ dspLast = NoName /\ dspExcused = {}

----------------------------------------------------------------------------
(* The list.                                                               *)

NameAt(names, index) == IF index \in DOMAIN names THEN names[index] ELSE NoName

\* The first place of name in the list, or the first of all.
PlaceOf(name, names) ==
  LET places == {i \in DOMAIN names: names[i] = name}
  IN  IF places = {} THEN 1 ELSE CHOOSE i \in places: \A j \in places: i <= j

\* Altered form: the index stays where it is as long as it is in the list.
RefreshedKeepsIndex(found, names, index) ==
  IF found = <<>> /\ names # <<>> THEN [names |-> names, index |-> index]
  ELSE LET list == IF found = <<>> THEN <<OutputName>> ELSE found
       IN  [names |-> list,
            index |-> IF index \in DOMAIN list THEN index ELSE PlaceOf(OutputName, list)]

\* refresh_displays: an empty enumeration leaves everything as it was.
Refreshed(found, names, index) ==
  IF found = <<>> /\ names # <<>> THEN [names |-> names, index |-> index]
  ELSE LET list == IF found = <<>> THEN <<OutputName>> ELSE found
           name == NameAt(names, index)
       IN  [names |-> list,
            index |-> PlaceOf(IF name = NoName THEN OutputName ELSE name, list)]

\* display_base_t::init takes the first output of that name that can be
\* duplicated, any output for the empty name.
Openable(name) ==
  IF dspDesk = <<>> THEN {}
  ELSE IF name = NoName THEN {Head(dspDesk)} ELSE {name} \cap ToSet(dspDesk)

Clamped(n, length) == IF n > length THEN length ELSE n

\* duplication_t::init, at once or with its second try, starts without a frame.
Open(d) ==
  /\ dspOpened' = d /\ dspCurrent' = TRUE /\ dspFrame' = FALSE /\ dspGroup' = 0
  /\ dspPhase' = "capture" /\ dspLast' = d
  /\ dspExcused' = IF dspNames[dspIndex] = NoName THEN Display ELSE {}

\* disp is let go, with its factory and the locals of capture().
Close == /\ dspOpened' = NoName /\ dspCurrent' = TRUE /\ dspFrame' = FALSE /\ dspGroup' = 0
End   == dspPhase' = "ended" /\ Close

----------------------------------------------------------------------------
(* The world.                                                              *)

\* A display goes or comes, at any place; larger changes are several of these.
Rearrange ==
  /\ \/ \E i \in DOMAIN dspDesk: dspDesk' = RemoveAt(dspDesk, i)
     \/ \E i \in 1..Len(dspDesk) + 1, d \in Display \ ToSet(dspDesk):
          dspDesk' = InsertAt(dspDesk, i, d)
  /\ dspCurrent' = (dspOpened = NoName)
  /\ UNCHANGED <<dspListVars, dspSwitch, dspPhase, dspOpened, dspFrame, dspGroup,
                 dspLast, dspExcused>>

\* The shortcut of input.cpp, while the capture thread has the event.
SwitchKey ==
  /\ dspPhase \notin {"start", "first", "ended"}
  /\ dspSwitch' \in 1..Cardinality(Display) + 1
  /\ UNCHANGED <<dspDesk, dspListVars, dspPhase, dspOpened, dspCurrent, dspFrame,
                 dspGroup, dspLast, dspExcused>>

----------------------------------------------------------------------------
(* The capture thread.                                                     *)

\* The displays are listed: when the first session comes, and in every turn of
\* the loop after an interruption.  A pending switch is applied to the new list;
\* the display of before is closed by then.
ListDisplays ==
  /\ dspPhase \in {"start", "reenum"}
  /\ LET r    == Refreshed(dspDesk, dspNames, dspIndex)
         gone == IF dspDesk = <<>> THEN {} ELSE Display \ ToSet(dspDesk)
     IN  /\ dspNames' = r.names /\ dspSwitch' = 0
         /\ dspIndex' = IF dspSwitch = 0 THEN r.index
                                         ELSE Clamped(dspSwitch, Len(r.names))
         /\ dspExcused' = dspExcused \cup (IF dspSwitch = 0 THEN gone ELSE Display)
  /\ dspPhase' = IF dspPhase = "start" THEN "first" ELSE "open"
  /\ UNCHANGED <<dspDesk, dspOpened, dspCurrent, dspFrame, dspGroup, dspLast>>

\* A display is opened by name; some time has passed since it was listed.
OpenDisplay ==
  /\ dspPhase \in {"first", "open"}
  /\ \E d \in Openable(dspNames[dspIndex]): Open(d)
  /\ UNCHANGED <<dspDesk, dspListVars, dspSwitch>>

\* That failed: the first time the thread ends, later the loop goes round until
\* the queue is stopped.
OpenFails ==
  /\ \/ dspPhase = "first" /\ End
     \/ dspPhase = "open" /\ dspPhase' = "reenum" /\ UNCHANGED dspDisp
     \/ dspPhase = "open" /\ End
  /\ UNCHANGED <<dspDesk, dspListVars, dspSwitch, dspLast, dspExcused>>

\* capture() returns with reinit: the loop of captureThread goes round.
Interrupted == dspPhase' = "reenum" /\ Close

\* The factory is asked once per frame.
NoticeChange ==
  /\ dspPhase = "capture" /\ ~dspCurrent
  /\ Interrupted
  /\ UNCHANGED <<dspDesk, dspListVars, dspSwitch, dspLast, dspExcused>>

\* adjust_client_frame_rate: the interval of a group follows a display whose rate
\* is just below the one asked for, or a multiple or fraction of it.  Rates are
\* pairs of numerator and denominator; <<0, 0>> is no strict rate.
AdjustedRate(asked, strict, num, den) ==
  LET rounded   == (2 * num + den) \div (2 * den)
      candidate == CASE asked % rounded = 0 -> <<num * (asked \div rounded), den>>
                     [] asked % rounded # 0 /\ rounded % asked = 0 ->
                          <<num, den * (rounded \div asked)>>
                     [] OTHER -> <<num, den>>
      near == asked * candidate[2] > candidate[1]
                /\ 100 * candidate[1] > 99 * asked * candidate[2]
  IN  CASE strict[1] > 0 -> strict
        [] strict[1] = 0 /\ den > 1 /\ near -> candidate
        [] OTHER -> <<asked, 1>>

\* A frame in the pace of the group, or the first of a new group after a longer
\* wait; next_frame has released the one before.
Acquire ==
  /\ dspPhase = "capture" /\ dspCurrent
  /\ dspGroup' \in {1, IF dspGroup < MaxGroup THEN dspGroup + 1 ELSE dspGroup}
  /\ dspFrame' = TRUE /\ dspPhase' = "release"
  /\ UNCHANGED <<dspDesk, dspListVars, dspSwitch, dspOpened, dspCurrent, dspLast,
                 dspExcused>>

\* Neither try gave a frame, or one without an image: the group is over.
TimeOut ==
  /\ dspPhase = "capture" /\ dspCurrent
  /\ dspFrame' \in BOOLEAN /\ dspGroup' = 0 /\ dspPhase' = "release"
  /\ UNCHANGED <<dspDesk, dspListVars, dspSwitch, dspOpened, dspCurrent, dspLast,
                 dspExcused>>

\* AcquireNextFrame or ReleaseFrame: access to the display was lost, or an error.
AccessLost ==
  /\ dspPhase = "capture" \/ (dspPhase = "release" /\ dspFrame)
  /\ Interrupted \/ End
  /\ UNCHANGED <<dspDesk, dspListVars, dspSwitch, dspLast, dspExcused>>

\* push_captured_image_callback and release_snapshot.  A pending switch makes
\* capture() return; captureThread turns that into reinit.  Without sessions the
\* queue is stopped and the thread ends.
PushAndRelease ==
  /\ dspPhase = "release"
  /\ \/ /\ dspSwitch = 0 /\ dspPhase' = "capture" /\ dspFrame' = FALSE
        /\ UNCHANGED <<dspOpened, dspCurrent, dspGroup>>
     \/ dspSwitch # 0 /\ Interrupted
     \/ End
  /\ UNCHANGED <<dspDesk, dspListVars, dspSwitch, dspLast, dspExcused>>

DspNext ==
  \/ Rearrange \/ SwitchKey \/ ListDisplays \/ OpenDisplay \/ OpenFails
  \/ NoticeChange \/ Acquire \/ TimeOut \/ AccessLost \/ PushAndRelease

DspSpec == DspInit /\ [][DspNext]_dspVars

----------------------------------------------------------------------------
(* Properties.                                                             *)

\* The variables keep their types, and a display is open exactly while frames are
\* taken from it.
DspTypeOK ==
  /\ dspDesk \in Orders /\ dspNames \in Orders \cup {<<OutputName>>}
  /\ dspIndex \in 0..Len(dspNames) /\ dspSwitch \in 0..Cardinality(Display) + 1
  /\ dspPhase \in {"start", "first", "capture", "release", "reenum", "open", "ended"}
  /\ {dspOpened, dspLast} \subseteq Display \cup {NoName}
  /\ dspCurrent \in BOOLEAN /\ dspFrame \in BOOLEAN /\ dspGroup \in 0..MaxGroup
  /\ dspExcused \subseteq Display
  /\ dspPhase \in {"capture", "release"} <=> dspOpened # NoName

\* Capture comes back to the display it was on, over any number of listings and
\* failed attempts to open one, however the displays are renumbered meanwhile
\* and even if a listing finds none (refresh_displays, captureThread).  It may go
\* elsewhere only if a listing found others and not this one, if the user
\* switched, or if the display had been opened without a name.
IndexKeepsDisplay ==
  [][dspLast # NoName /\ dspLast' # dspLast => dspLast \in dspExcused]_dspVars
=============================================================================

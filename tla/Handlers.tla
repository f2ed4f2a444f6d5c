------------------------------ MODULE Handlers ------------------------------
(***************************************************************************)
(* What the handlers of /launch, /resume and /cancel leave behind          *)
(* (nvhttp.cpp) in the running app (process.cpp), the pending launch and   *)
(* the sessions (rtsp.cpp), and the display, while the sessions come and   *)
(* go by themselves and the pending launch expires.  The handlers run on   *)
(* the one thread of the HTTPS server, step by step; the RTSP and control  *)
(* threads take their steps in between.                                    *)
(***************************************************************************)
EXTENDS Naturals

CONSTANTS
  MaxStreams,      \* bound: sessions at a time
  KnownApp         \* the ids of proc_t::_apps, {1} in the code

\* appid 0 is the desktop without an app; the others have to be in the list.
AppId == {0, 1, 2}

ASSUME HandlersAssumption == MaxStreams \in Nat /\ KnownApp \subseteq AppId \ {0}

VARIABLES
  handler,      \* the handler in progress and its locals
  app,          \* proc_t::_app_id
  pendingLaunch,\* rtsp_server_t::launch_event holds a launch session
  streams,      \* the session slots
  display,      \* "own", or "stream" once configured for one
  unclaimed,    \* the launch that configured it had no app and expired
  revertOnDisconnect   \* config::video.dd.config_revert_on_disconnect

handlerVars == <<handler, app, pendingLaunch, streams, display, unclaimed,
                 revertOnDisconnect>>

NoHandler == [op |-> "none", at |-> "idle", appid |-> 0, revert |-> FALSE, plain |-> FALSE]

HandlerInit ==
  /\ handler = NoHandler /\ app = 0 /\ pendingLaunch = FALSE /\ streams = 0
  /\ display = "own" /\ unclaimed = FALSE
  /\ revertOnDisconnect \in BOOLEAN

\* display_device::revert_configuration and configure_display, whose own
\* retries are the subject of DisplayDevice.
GivenBack == display' = "own" /\ unclaimed' = FALSE
Configured == display' = "stream" /\ unclaimed' = FALSE
SameDisplay == UNCHANGED <<display, unclaimed>>

----------------------------------------------------------------------------
(* network.cpp: which mode of encryption an address asks for               *)

Encryption == {"never", "opportunistic", "mandatory"}
AddressNet == [loopback |-> "pc", private |-> "lan", linklocal |-> "lan",
               cgnat |-> "lan", public |-> "wan"]
EncryptionMode(net, lan, wan) == IF net \in {"pc", "lan"} THEN lan ELSE wan

\* A client that cannot encrypt RTSP (corever 0) is refused where it must.
RefusesPlain(addr, lan, wan) ==
  EncryptionMode(AddressNet[addr], lan, wan) = "mandatory"

----------------------------------------------------------------------------
(* /launch and /resume.  make_launch_session reads the arguments; the      *)
(* handler's return runs its fail guard.                                   *)

Goto(label) == handler' = [handler EXCEPT !.at = label]

\* Missing parameters, or an app that runs already: 400 with nothing done.
Launch ==
  /\ handler = NoHandler /\ app = 0
  /\ \E id \in AppId, plain \in BOOLEAN :
       handler' = [op |-> "launch", at |-> "count", appid |-> id,
                   revert |-> FALSE, plain |-> plain]
  /\ UNCHANGED <<app, pendingLaunch, streams, revertOnDisconnect>> /\ SameDisplay

\* 503 without a running app.
Resume ==
  /\ handler = NoHandler /\ app > 0
  /\ \E plain \in BOOLEAN :
       handler' = [op |-> "resume", at |-> "count", appid |-> app,
                   revert |-> FALSE, plain |-> plain]
  /\ UNCHANGED <<app, pendingLaunch, streams, revertOnDisconnect>> /\ SameDisplay

\* Altered form: the guard of the display is not armed.
CountSessionsUnguarded ==
  /\ handler.at = "count"
  /\ Goto(IF streams = 0 THEN "configure" ELSE "encryption")
  /\ UNCHANGED <<app, pendingLaunch, streams, revertOnDisconnect>> /\ SameDisplay

\* Only the first stream prepares the display; /launch undoes it when it fails.
CountSessions ==
  /\ handler.at = "count"
  /\ IF streams = 0
     THEN handler' = [handler EXCEPT !.at = "configure", !.revert = handler.op = "launch"]
     ELSE Goto("encryption")
  /\ UNCHANGED <<app, pendingLaunch, streams, revertOnDisconnect>> /\ SameDisplay

\* A session may have started since it was counted.
ConfigureDisplay ==
  /\ handler.at = "configure" /\ Goto("probe") /\ Configured
  /\ UNCHANGED <<app, pendingLaunch, streams, revertOnDisconnect>>

\* 503 when the probe fails.
ProbeEncoders ==
  /\ handler.at = "probe"
  /\ Goto("encryption") \/ Goto("return")
  /\ UNCHANGED <<app, pendingLaunch, streams, revertOnDisconnect>> /\ SameDisplay

\* 403 for a client without encryption where it is mandatory.
CheckEncryption ==
  /\ handler.at = "encryption"
  /\ \E addr \in DOMAIN AddressNet, lan, wan \in Encryption :
       Goto(IF handler.plain /\ RefusesPlain(addr, lan, wan) THEN "return"
            ELSE IF handler.op = "launch" THEN "execute" ELSE "raise")
  /\ UNCHANGED <<app, pendingLaunch, streams, revertOnDisconnect>> /\ SameDisplay

\* proc_t::execute: 404 for an app that is not in the list.
ExecuteApp ==
  /\ handler.at = "execute"
  /\ IF handler.appid = 0 THEN Goto("raise") /\ app' = app
     ELSE IF handler.appid \in KnownApp THEN Goto("raise") /\ app' = handler.appid
     ELSE Goto("return") /\ app' = app
  /\ UNCHANGED <<pendingLaunch, streams, revertOnDisconnect>> /\ SameDisplay

\* session_raise keeps a launch session that is pending; then the guard is off.
RaiseLaunch ==
  /\ handler.at = "raise"
  /\ pendingLaunch' = TRUE
  /\ handler' = [handler EXCEPT !.at = "return", !.revert = FALSE]
  /\ UNCHANGED <<app, streams, revertOnDisconnect>> /\ SameDisplay

\* The fail guard: the answer, then the display.
ReturnFromHandler ==
  /\ handler.at = "return" /\ handler' = NoHandler
  /\ IF handler.revert THEN GivenBack ELSE SameDisplay
  /\ UNCHANGED <<app, pendingLaunch, streams, revertOnDisconnect>>

----------------------------------------------------------------------------
(* /cancel and the end of a session                                        *)

Cancel ==
  /\ handler = NoHandler
  /\ handler' = [NoHandler EXCEPT !.op = "cancel", !.at = "terminate"]
  /\ UNCHANGED <<app, pendingLaunch, streams, revertOnDisconnect>> /\ SameDisplay

\* The last join gives the display back when nothing else will.
LastJoin(n) ==
  IF n = 0 /\ (revertOnDisconnect \/ app = 0) THEN GivenBack ELSE SameDisplay

TerminateSessions ==
  /\ handler.at = "terminate" /\ Goto("kill")
  /\ streams' = 0
  /\ IF streams > 0 THEN LastJoin(0) ELSE SameDisplay
  /\ UNCHANGED <<app, pendingLaunch, revertOnDisconnect>>

\* proc_t::terminate gives the display back when an app was running, and the
\* handler does so in any case.
TerminateApp ==
  /\ handler.at = "kill"
  /\ app' = 0 /\ GivenBack
  /\ handler' = NoHandler
  /\ UNCHANGED <<pendingLaunch, streams, revertOnDisconnect>>

----------------------------------------------------------------------------
(* The RTSP and control threads                                            *)

\* ANNOUNCE of the pending launch, which stays pending until the control
\* stream is up.
StreamStarts ==
  /\ pendingLaunch /\ streams < MaxStreams
  /\ streams' = streams + 1
  /\ UNCHANGED <<handler, app, pendingLaunch, revertOnDisconnect>> /\ SameDisplay

LaunchClaimed ==
  /\ pendingLaunch /\ streams > 0 /\ pendingLaunch' = FALSE
  /\ UNCHANGED <<handler, app, streams, revertOnDisconnect>> /\ SameDisplay

LaunchExpires ==
  /\ pendingLaunch /\ pendingLaunch' = FALSE
  /\ unclaimed' = (unclaimed \/ (display = "stream" /\ streams = 0 /\ app = 0))
  /\ UNCHANGED <<handler, app, streams, display, revertOnDisconnect>>

StreamEnds ==
  /\ streams > 0 /\ streams' = streams - 1
  /\ LastJoin(streams - 1)
  /\ UNCHANGED <<handler, app, pendingLaunch, revertOnDisconnect>>

HandlerNext ==
  \/ Launch \/ Resume \/ CountSessions \/ ConfigureDisplay
  \/ ProbeEncoders \/ CheckEncryption
  \/ ExecuteApp \/ RaiseLaunch \/ ReturnFromHandler
  \/ Cancel \/ TerminateSessions \/ TerminateApp
  \/ StreamStarts \/ LaunchClaimed \/ LaunchExpires \/ StreamEnds

HandlerSpec == HandlerInit /\ [][HandlerNext]_handlerVars

----------------------------------------------------------------------------
HandlerAt == {"idle", "count", "configure", "probe", "encryption", "execute", "raise",
              "return", "terminate", "kill"}

\* The variables keep their types.
HandlerTypeOK ==
  /\ handler \in [op : {"none", "launch", "resume", "cancel"}, at : HandlerAt,
                  appid : AppId, revert : BOOLEAN, plain : BOOLEAN]
  /\ app \in KnownApp \cup {0} /\ pendingLaunch \in BOOLEAN
  /\ streams \in 0 .. MaxStreams /\ display \in {"own", "stream"}
  /\ unclaimed \in BOOLEAN /\ revertOnDisconnect \in BOOLEAN

\* "we will revert the config when the app or session terminates" (launch): a
\* display that is configured for a stream has a session, a pending launch, a
\* running app or a handler at work whose end gives it back.  The one exception
\* the code has is a launch without an app that no client ever claims.
DisplayHasOwner ==
  display = "stream" =>
    app > 0 \/ streams > 0 \/ pendingLaunch \/ handler # NoHandler \/ unclaimed
=============================================================================

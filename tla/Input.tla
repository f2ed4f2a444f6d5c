-------------------------------- MODULE Input --------------------------------
(***************************************************************************)
(* Keyboard and mouse (input.cpp): the control thread queues messages, the *)
(* one worker of the task pool batches them and passes them to the system, *)
(* timers repeat keys and delay the release of the left button, and the    *)
(* thread that joins a session resets what is held.  A task's id is its    *)
(* address, which a later task may be given.                               *)
(***************************************************************************)
EXTENDS Integers, Sequences

CONSTANTS
  InputKind,     \* the kinds of message a run sends
  MaxMessages,   \* bound: messages per run
  MaxClients,    \* bound: sessions, one after the other
  TaskId,        \* addresses of timer tasks, reused after a task ends
  Half           \* deltas are signed integers of this half range, 2^15 in the code

ASSUME InputAssumption == MaxMessages \in Nat /\ MaxClients \in Nat /\ Half \in Nat \ {0}

\* One key stands for the three modifiers, one for the keys of shortcuts, and
\* one is bound to another by config::input.keybindings.
InputKey == {"shift", "n", "menu"}
MapKeycode(k) == IF k = "menu" THEN "win" ELSE k
Button == {"left", "right", "x2"}
Tracked == {"left", "right"}     \* indices of mouse_press

VARIABLES
  client,        \* "none", "live", or where join() is: "join", "left", "push"
  clients,       \* sessions so far
  messages,      \* messages so far
  position,      \* where the motions that the client sent lead the pointer
  inputQueue,    \* input_t::input_queue
  inputTasks,    \* the pool's tasks
  inputTimers,   \* the pool's timers: id and what they run
  worker,        \* the task being run and where it is
  keyPress, mousePress,      \* the keys and buttons known to be down
  repeatId,      \* key_press_repeat_id
  leftTimeout,   \* mouse_left_button_timeout: "enable" (null), "disable" or an id
  shortcut,      \* shortcutFlags
  osKeys, osButtons,         \* what the system has down
  forceKill,     \* force_kill of join(): the id of its watchdog
  touchPort,     \* a touch port is set, or waits in touch_port_event
  pointer,       \* where the system has the pointer
  astray         \* it has left the course of the client's motions: see PassMotion

pointerVars == <<touchPort, pointer, astray>>
inputVars == <<client, clients, messages, position, inputQueue, inputTasks,
  inputTimers, worker, keyPress, mousePress, repeatId, leftTimeout, shortcut,
  osKeys, osButtons, forceKill, pointerVars>>

Idle == [at |-> "idle"]
NoTask == "none"

InputInit ==
  /\ client = "none" /\ clients = 0 /\ messages = 0 /\ position = 0
  /\ inputQueue = <<>> /\ inputTasks = <<>> /\ inputTimers = {} /\ worker = Idle
  /\ keyPress = {} /\ mousePress = {} /\ repeatId = NoTask /\ leftTimeout = "enable"
  /\ shortcut = FALSE /\ osKeys = {} /\ osButtons = {}
  /\ forceKill = NoTask /\ touchPort = FALSE /\ pointer = 0 /\ astray = FALSE

heldVars == <<keyPress, mousePress, osKeys, osButtons>>
clientVars == <<client, clients, messages, position>>
joinVars == <<forceKill, pointerVars>>

----------------------------------------------------------------------------
(* The task pool's timers.  cancel() drops the timer with that address.    *)

FreeId == TaskId \ ({t.id : t \in inputTimers} \cup
                    (IF worker.at \in {"idle", "message"} THEN {} ELSE {worker.id}))
Timer(i, r, k) == [id |-> i, runs |-> r, key |-> k]
Uncancelled(i) == {t \in inputTimers : t.id # i}

----------------------------------------------------------------------------
(* The client: alloc, messages of the control thread, and join's reset.    *)

\* The watchdog of join() and the nudge of alloc share the pool with the rest.
\* The model lets a client in when the tasks of the one before have run.
Alloc ==
  /\ client = "none" /\ clients < MaxClients /\ inputTasks = <<>> /\ worker = Idle
  /\ client' = "live" /\ clients' = clients + 1
  /\ \E i \in FreeId : inputTimers' = inputTimers \cup {Timer(i, "nudge", NoTask)}
  /\ leftTimeout' = "enable" /\ shortcut' = FALSE /\ inputQueue' = <<>>
  /\ touchPort' = FALSE
  /\ UNCHANGED <<messages, position, inputTasks, worker, heldVars, repeatId, forceKill,
                 pointer, astray>>

\* The encoding thread raises the port of the display it encodes.
RaiseTouchPort ==
  /\ client \in {"live", "join"} /\ touchPort' = TRUE
  /\ UNCHANGED <<clientVars, inputQueue, inputTasks, inputTimers, worker, heldVars,
                 repeatId, leftTimeout, shortcut, forceKill, pointer, astray>>

Blank == [kind |-> "text", what |-> NoTask, release |-> FALSE, x |-> 0, y |-> 0, at |-> position]
\* A small delta, and one that it makes overflow.
Edge == {1, Half - 1}
\* An absolute motion has the width of the client's surface in y; without one it
\* says nothing.
Anchors(m) == m.kind = "abs" /\ m.y # 0
\* Where a message leads a pointer that is at p.
Leads(m, p) == IF Anchors(m) THEN m.x ELSE IF m.kind = "rel" THEN p + m.x ELSE p

MessagesOf(kind) ==
  CASE kind = "key" -> {[Blank EXCEPT !.kind = kind, !.what = k, !.release = r] :
                          k \in InputKey, r \in BOOLEAN}
    [] kind = "button" -> {[Blank EXCEPT !.kind = kind, !.what = b, !.release = r] :
                          b \in Button, r \in BOOLEAN}
    [] kind = "abs" -> {[Blank EXCEPT !.kind = kind, !.x = p, !.y = IF p = 0 THEN 0 ELSE 1] :
                          p \in 0 .. 2}
    [] kind \in {"rel", "scroll", "hscroll"} ->
         {[Blank EXCEPT !.kind = kind, !.x = d, !.y = d] : d \in Edge}
    [] OTHER -> {Blank}

\* passthrough(input, data): queued, and one task pushed for each message.
Receive ==
  /\ client \in {"live", "join"}
  /\ messages < MaxMessages /\ messages' = messages + 1
  /\ \E kind \in InputKind : \E m \in MessagesOf(kind) :
       /\ inputQueue' = Append(inputQueue, m)
       /\ position' = Leads(m, position)
  /\ inputTasks' = Append(inputTasks, "next")
  /\ UNCHANGED <<client, clients, inputTimers, worker, heldVars, repeatId, leftTimeout,
                 shortcut, joinVars>>

\* join() pushes its watchdog and waits for the session's threads; its control
\* stream may bring messages until that has ended.
JoinPush ==
  /\ client = "live" /\ client' = "join" /\ forceKill = NoTask
  /\ \E i \in FreeId :
       /\ inputTimers' = inputTimers \cup {Timer(i, "watchdog", NoTask)}
       /\ forceKill' = i
  /\ UNCHANGED <<clients, messages, position, inputQueue, inputTasks, worker, heldVars,
                 repeatId, leftTimeout, shortcut, pointerVars>>

\* reset() cancels the repeat: whatever has its address by now, the watchdog too.
ResetRepeat ==
  /\ client = "join" /\ client' = "left"
  /\ inputTimers' = Uncancelled(repeatId)
  /\ UNCHANGED <<clients, messages, position, inputQueue, inputTasks, worker, heldVars,
                 repeatId, leftTimeout, shortcut, joinVars>>

ResetLeft ==
  /\ client = "left" /\ client' = "push"
  /\ inputTimers' = Uncancelled(leftTimeout)
  /\ UNCHANGED <<clients, messages, position, inputQueue, inputTasks, worker, heldVars,
                 repeatId, leftTimeout, shortcut, joinVars>>

\* Altered form: what is held is released at once, on the joining thread.
ResetPushDirect ==
  /\ client = "push" /\ client' = "none"
  /\ osKeys' = osKeys \ keyPress /\ keyPress' = {}
  /\ osButtons' = osButtons \ mousePress /\ mousePress' = {}
  /\ UNCHANGED <<clients, messages, position, inputQueue, inputTasks, inputTimers, worker,
                 repeatId, leftTimeout, shortcut, joinVars>>

\* The release runs in the pool, behind the messages that are queued.
ResetPush ==
  /\ client = "push" /\ client' = "none"
  /\ inputTasks' = Append(inputTasks, "release")
  /\ UNCHANGED <<clients, messages, position, inputQueue, inputTimers, worker, heldVars,
                 repeatId, leftTimeout, shortcut, joinVars>>

\* The guard of join() cancels its watchdog, by the address.
JoinEnds ==
  /\ client = "none" /\ forceKill # NoTask
  /\ inputTimers' = Uncancelled(forceKill) /\ forceKill' = NoTask
  /\ UNCHANGED <<clientVars, inputQueue, inputTasks, worker, heldVars, repeatId,
                 leftTimeout, shortcut, pointerVars>>

----------------------------------------------------------------------------
(* Batching.  A sum of 16-bit deltas is taken only when                    *)
(* __builtin_add_overflow says that it overflowed.                         *)

Overflows(a, b) == a + b \notin -Half .. Half - 1
Wrapped(a, b) == ((a + b + Half) % (2 * Half)) - Half

Batchable(d, m) ==
  /\ d.kind = m.kind
  /\ CASE d.kind = "abs" -> d.y = m.y
       [] d.kind = "rel" -> Overflows(d.x, m.x) /\ Overflows(d.y, m.y)
       [] d.kind \in {"scroll", "hscroll"} -> Overflows(d.x, m.x)
       [] OTHER -> FALSE
Batched(d, m) ==
  IF d.kind = "abs" THEN m
  ELSE [d EXCEPT !.x = Wrapped(d.x, m.x), !.y = Wrapped(d.y, m.y)]

\* Altered form: an entry that does not batch is skipped, not the end.
BatchOfSkips(q) ==
  IF \E i \in 2 .. Len(q) : Batchable(q[1], q[i])
  THEN LET i == CHOOSE j \in 2 .. Len(q) : Batchable(q[1], q[j])
       IN <<Batched(q[1], q[i])>> \o SubSeq(q, 2, i - 1) \o SubSeq(q, i + 1, Len(q))
  ELSE q

\* The entries behind the first go into it, up to the first that does not.
BatchOf(q) ==
  LET into[i \in 1 .. Len(q)] == IF i = 1 THEN q[1] ELSE Batched(into[i - 1], q[i])
      n == CHOOSE k \in 1 .. Len(q) :
             /\ \A i \in 2 .. k : Batchable(into[i - 1], q[i])
             /\ k < Len(q) => ~Batchable(into[k], q[k + 1])
  IN <<into[n]>> \o SubSeq(q, n + 1, Len(q))

\* The batch that passthrough_next_message makes of the queue is a sum of deltas.
TakesSum(q) == Len(q) > 1 /\ q[1].kind = "rel" /\ Batchable(q[1], q[2])

----------------------------------------------------------------------------
(* The worker                                                              *)

Done == worker' = Idle

TakeTask ==
  /\ worker.at = "idle" /\ inputTasks # <<>> /\ inputTasks' = Tail(inputTasks)
  /\ IF Head(inputTasks) = "release"
     THEN worker' = [at |-> "release", id |-> NoTask] /\ inputQueue' = inputQueue
     ELSE IF inputQueue = <<>> THEN worker' = Idle /\ inputQueue' = inputQueue
     ELSE LET batch == BatchOf(inputQueue) IN
            /\ worker' = [at |-> "message", m |-> Head(batch)]
            /\ inputQueue' = Tail(batch)
  /\ astray' = (astray \/ (Head(inputTasks) = "next" /\ TakesSum(inputQueue)))
  /\ UNCHANGED <<clientVars, inputTimers, heldVars, repeatId, leftTimeout, shortcut,
                 forceKill, touchPort, pointer>>

TakeTimer ==
  /\ worker.at = "idle"
  /\ \E t \in inputTimers :
       /\ t.runs # "watchdog"     \* it ends the process, after ten seconds
       /\ inputTimers' = inputTimers \ {t}
       /\ worker' = [at |-> t.runs, id |-> t.id, key |-> t.key]
  /\ UNCHANGED <<clientVars, inputQueue, inputTasks, heldVars, repeatId, leftTimeout,
                 shortcut, joinVars>>

\* A move disables the delay of the left button, an absolute one enables it
\* unless a release is under way, and is then ignored when it has no dimensions
\* or nobody has set a touch port yet.  The pointer is astray from a sum that
\* overflowed, or from a motion that found no touch port, to the next absolute
\* motion.
PassMotion ==
  LET m == worker.m
      moves == m.kind = "rel" \/ (Anchors(m) /\ touchPort)
  IN /\ worker.at = "message" /\ m.kind \notin {"key", "button"}
     /\ leftTimeout' = IF m.kind = "rel" THEN "disable"
                       ELSE IF m.kind = "abs" /\ leftTimeout = "disable" THEN "enable"
                       ELSE leftTimeout
     /\ pointer' = IF moves THEN Leads(m, pointer) ELSE pointer
     /\ astray' = IF Anchors(m) THEN ~touchPort ELSE astray
     /\ Done
     /\ UNCHANGED <<clientVars, inputQueue, inputTasks, inputTimers, heldVars, repeatId,
                    shortcut, forceKill, touchPort>>

Known(b, release) == b \in Tracked /\ ((b \in mousePress) # release)

\* A button that is already as wanted is left alone; the left button is given
\* back 10 ms later when the last motion was absolute; a right button that goes
\* down while that is pending is pressed and released at once.
PassButton ==
  LET b == worker.m.what
      up == worker.m.release
      now == IF b \notin Tracked THEN mousePress
             ELSE IF up THEN mousePress \ {b} ELSE mousePress \cup {b}
  IN /\ worker.at = "message" /\ worker.m.kind = "button"
     /\ \/ /\ Known(b, up) /\ Done
           /\ UNCHANGED <<inputTimers, leftTimeout, mousePress, osButtons>>
        \/ /\ ~Known(b, up) /\ b = "left" /\ up /\ leftTimeout = "enable"
           /\ mousePress' = now
           /\ \E i \in FreeId :
                /\ inputTimers' = inputTimers \cup {Timer(i, "left", NoTask)}
                /\ worker' = [at |-> "assignLeft", id |-> i]
           /\ UNCHANGED <<leftTimeout, osButtons>>
        \/ /\ ~Known(b, up) /\ b = "right" /\ ~up /\ leftTimeout \in TaskId
           /\ mousePress' = mousePress /\ osButtons' = osButtons \ {"right"} /\ Done
           /\ UNCHANGED <<inputTimers, leftTimeout>>
        \/ /\ ~Known(b, up)
           /\ ~(b = "left" /\ up /\ leftTimeout = "enable")
           /\ ~(b = "right" /\ ~up /\ leftTimeout \in TaskId)
           /\ mousePress' = now /\ Done
           /\ osButtons' = IF up THEN osButtons \ {b} ELSE osButtons \cup {b}
           /\ UNCHANGED <<inputTimers, leftTimeout>>
     /\ UNCHANGED <<clientVars, inputQueue, inputTasks, keyPress, repeatId, shortcut,
                    osKeys, joinVars>>

AssignLeft ==
  /\ worker.at = "assignLeft" /\ leftTimeout' = worker.id /\ Done
  /\ UNCHANGED <<clientVars, inputQueue, inputTasks, inputTimers, heldVars, repeatId,
                 shortcut, joinVars>>

\* The delayed release: nothing, not even the id, is touched when the button
\* was pressed again.
RunLeft ==
  /\ worker.at = "left" /\ Done
  /\ IF "left" \in mousePress THEN UNCHANGED <<osButtons, leftTimeout>>
     ELSE osButtons' = osButtons \ {"left"} /\ leftTimeout' = "enable"
  /\ UNCHANGED <<clientVars, inputQueue, inputTasks, inputTimers, keyPress, mousePress,
                 repeatId, shortcut, osKeys, joinVars>>

Flags(k, up) == IF MapKeycode(k) = "shift" THEN ~up ELSE shortcut

\* A new key stops the repeat of the one before and starts its own, unless it
\* completes a shortcut; a key that is already as wanted is left alone.
PassKey ==
  LET k == worker.m.what
      up == worker.m.release
  IN /\ worker.at = "message" /\ worker.m.kind = "key"
     /\ \/ /\ (k \in keyPress) # up /\ Done
           /\ UNCHANGED <<inputTimers, keyPress, osKeys, shortcut>>
        \/ /\ k \notin keyPress /\ ~up /\ shortcut /\ k = "n" /\ Done
           /\ UNCHANGED <<inputTimers, keyPress, osKeys, shortcut>>
        \/ /\ k \notin keyPress /\ ~up /\ ~(shortcut /\ k = "n")
           /\ \E i \in FreeId :
                /\ inputTimers' = Uncancelled(repeatId) \cup {Timer(i, "repeat", k)}
                /\ worker' = [at |-> "assignKey", id |-> i, key |-> k]
           /\ UNCHANGED <<keyPress, osKeys, shortcut>>
        \/ /\ k \in keyPress /\ up /\ Done
           /\ keyPress' = keyPress \ {k} /\ osKeys' = osKeys \ {MapKeycode(k)}
           /\ shortcut' = Flags(k, up) /\ inputTimers' = inputTimers
     /\ UNCHANGED <<clientVars, inputQueue, inputTasks, mousePress, osButtons, repeatId,
                    leftTimeout, joinVars>>

AssignKey ==
  /\ worker.at = "assignKey" /\ repeatId' = worker.id /\ Done
  /\ keyPress' = keyPress \cup {worker.key}
  /\ osKeys' = osKeys \cup {MapKeycode(worker.key)}
  /\ shortcut' = Flags(worker.key, FALSE)
  /\ UNCHANGED <<clientVars, inputQueue, inputTasks, inputTimers, mousePress, osButtons,
                 leftTimeout, joinVars>>

\* repeat_key: pressed again and armed again, until the key is up.
RunRepeat ==
  /\ worker.at = "repeat"
  /\ IF worker.key \notin keyPress
     THEN repeatId' = NoTask /\ Done /\ UNCHANGED <<inputTimers, osKeys>>
     ELSE /\ osKeys' = osKeys \cup {MapKeycode(worker.key)} /\ repeatId' = repeatId
          /\ \E i \in FreeId :
               /\ inputTimers' = inputTimers \cup {Timer(i, "repeat", worker.key)}
               /\ worker' = [at |-> "assignRepeat", id |-> i]
  /\ UNCHANGED <<clientVars, inputQueue, inputTasks, keyPress, mousePress, osButtons,
                 leftTimeout, shortcut, joinVars>>

AssignRepeat ==
  /\ worker.at = "assignRepeat" /\ repeatId' = worker.id /\ Done
  /\ UNCHANGED <<clientVars, inputQueue, inputTasks, inputTimers, heldVars, leftTimeout,
                 shortcut, joinVars>>

\* The nudge of alloc moves the pointer there and back in one task.
RunNudge ==
  /\ worker.at = "nudge" /\ Done
  /\ UNCHANGED <<clientVars, inputQueue, inputTasks, inputTimers, heldVars, repeatId,
                 leftTimeout, shortcut, joinVars>>

\* reset's task: what is known to be down is released, by its own code and not
\* by the one it is bound to.
RunRelease ==
  /\ worker.at = "release" /\ Done
  /\ osKeys' = osKeys \ keyPress /\ keyPress' = {}
  /\ osButtons' = osButtons \ mousePress /\ mousePress' = {}
  /\ UNCHANGED <<clientVars, inputQueue, inputTasks, inputTimers, repeatId, leftTimeout,
                 shortcut, joinVars>>

InputNext ==
  \/ Alloc \/ RaiseTouchPort \/ Receive
  \/ JoinPush \/ ResetRepeat \/ ResetLeft \/ ResetPush \/ JoinEnds
  \/ TakeTask \/ TakeTimer \/ PassMotion \/ PassButton \/ AssignLeft \/ RunLeft
  \/ PassKey \/ AssignKey \/ RunRepeat \/ AssignRepeat \/ RunNudge \/ RunRelease

InputSpec == InputInit /\ [][InputNext]_inputVars

----------------------------------------------------------------------------
\* The variables keep their types, and every message has a task that passes it.
InputTypeOK ==
  /\ client \in {"none", "live", "join", "left", "push"} /\ clients \in 0 .. MaxClients
  /\ messages \in 0 .. MaxMessages /\ Len(inputQueue) <= Len(inputTasks)
  /\ \A t \in inputTimers : t.id \in TaskId
  /\ keyPress \subseteq InputKey /\ mousePress \subseteq Tracked
  /\ repeatId \in TaskId \cup {NoTask} /\ leftTimeout \in TaskId \cup {"enable", "disable"}
  /\ osKeys \subseteq InputKey \cup {"win"} /\ osButtons \subseteq Button
  /\ forceKill \in TaskId \cup {NoTask} /\ {touchPort, astray} \subseteq BOOLEAN
  /\ pointer \in Int

\* "Reset input on session stop to avoid stuck repeated keys" (join): when a
\* client is gone and the pool has nothing to run, no key is left down that is
\* sent by its own code, and no button but the left one, whose delayed release
\* reset() cancels, and the fifth, which is not tracked.
KeysUpAfterReset ==
  client = "none" /\ inputTasks = <<>> /\ worker = Idle =>
     osKeys \subseteq {"win"} /\ osButtons \subseteq {"left", "x2"}

\* A press or a release is passed where the client made it: the pointer is where
\* all the motions sent before it lead and none sent after it, whichever of them
\* were batched and whichever were ignored (passthrough_next_message).  Excepted is
\* what comes between a sum of deltas that overflowed, or an absolute motion that
\* came before the touch port, and the next absolute motion.
ClicksLandWhereSent ==
  worker.at = "message" =>
    (worker.m.kind = "button" /\ ~astray => worker.m.at = pointer)
=============================================================================

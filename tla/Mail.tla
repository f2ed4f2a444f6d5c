-------------------------------- MODULE Mail --------------------------------
(***************************************************************************)
(* The mail registry and the queues and events it hands out                *)
(* (thread_safe.h): threads ask for a post by its name and share it by     *)
(* reference count; the registry keeps weak pointers, and the last thread  *)
(* to let go destroys the post and tidies the registry in two steps.       *)
(***************************************************************************)
EXTENDS Integers, Sequences

CONSTANTS
  Thread,     \* the threads that use the registry
  PostName,   \* the names of queues (mail::video_packets and the like)
  PostObject, \* the objects a run may allocate, in this order
  MaxElements,\* queue_t::_max_elements, 32 in the code
  MaxRaised   \* bound: elements raised per run

ASSUME MailAssumption ==
  /\ PostObject \subseteq Nat \ {0} /\ "none" \notin PostName
  /\ MaxElements \in Nat \ {0} /\ MaxRaised \in Nat

VARIABLES
  holds,      \* the post a thread has a shared pointer to
  nameOf,     \* the name an object was made for, "" when not allocated
  registered, \* id_to_post: the object a name's weak pointer refers to
  ending,     \* objects whose destructor has yet to tidy the registry
  contents,   \* queue_t::_queue of each object
  raised,     \* elements raised so far; each is the next number
  got,        \* the element each thread popped last
  going,      \* queue_t::_continue of each object
  popping     \* the threads inside pop()

mailVars == <<holds, nameOf, registered, ending, contents, raised, got, going, popping>>

Nobody0 == 0       \* no object
Missing == -1      \* lock() of an expired weak pointer: no caller looks at it

Refs(o) == {t \in Thread : holds[t] = o}
Expired(o) == Refs(o) = {}

MailInit ==
  /\ holds = [t \in Thread |-> Nobody0]
  /\ nameOf = [o \in PostObject |-> "none"]
  /\ registered = [n \in PostName |-> Nobody0]
  /\ ending = {} /\ contents = [o \in PostObject |-> <<>>]
  /\ raised = 0 /\ got = [t \in Thread |-> 0]
  /\ going = [o \in PostObject |-> TRUE] /\ popping = {}

queueVars == <<contents, raised, got, going, popping>>

----------------------------------------------------------------------------
(* mail_raw_t::event and queue, post_t::~post_t and cleanup                *)

FreshPosts == {o \in PostObject : nameOf[o] = "none"}
Make(t, n, register) ==
  \E o \in FreshPosts :
    /\ \A p \in FreshPosts : o <= p
    /\ holds' = [holds EXCEPT ![t] = o] /\ nameOf' = [nameOf EXCEPT ![o] = n]
    /\ registered' = IF register THEN [registered EXCEPT ![n] = o] ELSE registered

\* Altered form: an expired entry is taken for none; emplace leaves it in place.
LookupMakes(t, n) ==
  /\ holds[t] = Nobody0
  /\ IF registered[n] # Nobody0 /\ ~Expired(registered[n])
     THEN holds' = [holds EXCEPT ![t] = registered[n]] /\ UNCHANGED <<nameOf, registered>>
     ELSE Make(t, n, registered[n] = Nobody0)
  /\ UNCHANGED <<ending, queueVars>>

\* A name whose object is being destroyed yields a null pointer.
Lookup(t, n) ==
  /\ holds[t] = Nobody0
  /\ IF registered[n] = Nobody0 THEN Make(t, n, TRUE)
     ELSE /\ holds' = [holds EXCEPT ![t] = IF Expired(registered[n]) THEN Missing
                                                                   ELSE registered[n]]
          /\ UNCHANGED <<nameOf, registered>>
  /\ UNCHANGED <<ending, queueVars>>

\* The caller of a null pointer uses it: the process faults.  The model lets
\* the thread go on without it.
UseNull(t) ==
  /\ holds[t] = Missing /\ holds' = [holds EXCEPT ![t] = Nobody0]
  /\ UNCHANGED <<nameOf, registered, ending, queueVars>>

LetGo(t) ==
  /\ holds[t] \in PostObject /\ t \notin popping
  /\ holds' = [holds EXCEPT ![t] = Nobody0]
  /\ ending' = IF Refs(holds[t]) = {t} THEN ending \cup {holds[t]} ELSE ending
  /\ UNCHANGED <<nameOf, registered, queueVars>>

\* cleanup() erases the first expired entry, whosever it is.
Cleanup(o) ==
  /\ o \in ending /\ ending' = ending \ {o}
  /\ LET dead == {n \in PostName : registered[n] # Nobody0 /\ Expired(registered[n])}
     IN registered' = IF dead = {} THEN registered
                      ELSE [registered EXCEPT ![CHOOSE n \in dead : TRUE] = Nobody0]
  /\ UNCHANGED <<holds, nameOf, queueVars>>

----------------------------------------------------------------------------
(* queue_t                                                                 *)

\* A full queue is emptied before the element goes in.
Kept(q) == IF Len(q) = MaxElements THEN <<>> ELSE q

Raise(t) ==
  /\ holds[t] \in PostObject /\ t \notin popping /\ raised < MaxRaised
  /\ raised' = raised + 1
  /\ contents' = IF going[holds[t]]
                 THEN [contents EXCEPT ![holds[t]] = Append(Kept(@), raised + 1)]
                 ELSE contents
  /\ UNCHANGED <<holds, nameOf, registered, ending, got, going, popping>>

EnterPop(t) ==
  /\ holds[t] \in PostObject /\ t \notin popping /\ going[holds[t]]
  /\ popping' = popping \cup {t}
  /\ UNCHANGED <<holds, nameOf, registered, ending, contents, raised, got, going>>

\* Who wakes first takes the front; a stopped queue gives its waiters nothing,
\* whatever it still holds.
LeavePop(t) ==
  /\ t \in popping /\ popping' = popping \ {t}
  /\ LET o == holds[t] IN
       \/ /\ going[o] /\ contents[o] # <<>>
          /\ got' = [got EXCEPT ![t] = Head(contents[o])]
          /\ contents' = [contents EXCEPT ![o] = Tail(@)]
       \/ /\ ~going[o] /\ UNCHANGED <<got, contents>>
  /\ UNCHANGED <<holds, nameOf, registered, ending, raised, going>>

StopQueue(t) ==
  /\ holds[t] \in PostObject /\ t \notin popping /\ going[holds[t]]
  /\ going' = [going EXCEPT ![holds[t]] = FALSE]
  /\ UNCHANGED <<holds, nameOf, registered, ending, contents, raised, got, popping>>

MailNext ==
  \/ \E t \in Thread : \/ \E n \in PostName : Lookup(t, n)
                       \/ UseNull(t) \/ LetGo(t) \/ Raise(t) \/ EnterPop(t)
                       \/ LeavePop(t) \/ StopQueue(t)
  \/ \E o \in PostObject : Cleanup(o)

MailSpec == MailInit /\ [][MailNext]_mailVars

----------------------------------------------------------------------------
\* The variables keep their types, and no queue is longer than its limit.
MailTypeOK ==
  /\ holds \in [Thread -> PostObject \cup {Nobody0, Missing}]
  /\ nameOf \in [PostObject -> PostName \cup {"none"}]
  /\ registered \in [PostName -> PostObject \cup {Nobody0}]
  /\ ending \subseteq PostObject /\ popping \subseteq Thread
  /\ \A o \in PostObject : Len(contents[o]) <= MaxElements
  /\ raised \in 0 .. MaxRaised /\ got \in [Thread -> 0 .. MaxRaised]
  /\ going \in [PostObject -> BOOLEAN]

\* Threads that share a post by name share one object: whoever raises under a
\* name is heard by whoever waits under it, although the registry's entry and
\* the object end at different moments (mail_raw_t::queue, cleanup).
OneObjectPerName ==
  \A t, u \in Thread :
    /\ {holds[t], holds[u]} \subseteq PostObject
    /\ nameOf[holds[t]] = nameOf[holds[u]]
    => holds[t] = holds[u] /\ registered[nameOf[holds[t]]] = holds[t]
=============================================================================

------------------------------- MODULE Thread -------------------------------
(***************************************************************************)
(* Thread (thread.cpp, thread.h): an object made around a pthread.  The    *)
(* constructor waits on a semaphore until run() has taken from the object  *)
(* what it needs; join() and the destructor share the pthread between      *)
(* them.  Objects are held through shared_ptrs.                            *)
(***************************************************************************)
EXTENDS Naturals, FiniteSets

CONSTANTS
  Caller,   \* threads of the program that use Thread objects
  Object    \* Thread objects; each is constructed once

VARIABLES
  life,     \* of an object
  refs,     \* who holds a shared_ptr to it
  handle,   \* m_thread is not 0
  hasId,    \* m_id has been set by run()
  hasCb,    \* m_cb is the callback
  sem,      \* m_semaphore
  body,     \* where run() is, in the thread of the object
  pthread,  \* what the system knows of that thread
  call,     \* where a caller is in a method, and of which object
  broken,   \* undefined behaviour: nothing is known of what follows
  stray     \* history: objects on which two join() were ever at a time

objects == <<life, refs, handle, hasId, hasCb, sem, body, pthread, stray>>
threadVars == <<objects, call, broken>>

Out == [at |-> "out"]

ThreadInit ==
  /\ life = [o \in Object |-> "unborn"] /\ refs = [o \in Object |-> {}]
  /\ handle = [o \in Object |-> FALSE] /\ hasId = [o \in Object |-> FALSE]
  /\ hasCb = [o \in Object |-> FALSE] /\ sem = [o \in Object |-> 0]
  /\ body = [o \in Object |-> "none"] /\ pthread = [o \in Object |-> "none"]
  /\ call = [c \in Caller |-> Out] /\ broken = FALSE /\ stray = {}

In(c, where, o) == ~broken /\ call[c] = [at |-> where, obj |-> o]
Goes(c, where, o) == call' = [call EXCEPT ![c] = [at |-> where, obj |-> o]]
Idle(c) == ~broken /\ call[c] = Out
Returns(c) == call' = [call EXCEPT ![c] = Out]

-----------------------------------------------------------------------------
(* The constructor. *)
Construct(c, o) ==
  /\ Idle(c) /\ life[o] = "unborn"
  /\ life' = [life EXCEPT ![o] = "constructing"]
  /\ hasCb' = [hasCb EXCEPT ![o] = TRUE]
  /\ Goes(c, "create", o)
  /\ UNCHANGED <<refs, handle, hasId, sem, body, pthread, broken, stray>>

Create(c, o) ==
  /\ In(c, "create", o) /\ Goes(c, "wait", o)
  /\ handle' = [handle EXCEPT ![o] = TRUE]
  /\ pthread' = [pthread EXCEPT ![o] = "joinable"]
  /\ body' = [body EXCEPT ![o] = "begin"]
  /\ UNCHANGED <<life, refs, hasId, hasCb, sem, broken, stray>>

(* pthread_create fails and the constructor throws. *)
CreateFails(c, o) ==
  /\ In(c, "create", o) /\ Returns(c)
  /\ life' = [life EXCEPT ![o] = "failed"]
  /\ UNCHANGED <<refs, handle, hasId, hasCb, sem, body, pthread, broken, stray>>

(* Fault: the constructor waits for nothing. *)
ConstructedAtOnce(c, o, holder) ==
  /\ In(c, "wait", o) /\ Returns(c)
  /\ life' = [life EXCEPT ![o] = "alive"] /\ refs' = [refs EXCEPT ![o] = {holder}]
  /\ UNCHANGED <<handle, hasId, hasCb, sem, body, pthread, broken, stray>>

Constructed(c, o, holder) ==
  /\ In(c, "wait", o) /\ sem[o] > 0 /\ Returns(c)
  /\ sem' = [sem EXCEPT ![o] = @ - 1]
  /\ life' = [life EXCEPT ![o] = "alive"] /\ refs' = [refs EXCEPT ![o] = {holder}]
  /\ UNCHANGED <<handle, hasId, hasCb, body, pthread, broken, stray>>

-----------------------------------------------------------------------------
(* run(), in the new thread.  From notify() on it leaves the object alone, *)
(* but for what the callback calls: setName and GetThis use t_thread.      *)
Body(o, from, to) == ~broken /\ body[o] = from /\ body' = [body EXCEPT ![o] = to]

SetId(o) ==
  /\ Body(o, "begin", "id")
  /\ hasId' = [hasId EXCEPT ![o] = TRUE]
  /\ UNCHANGED <<life, refs, handle, hasCb, sem, pthread, call, broken, stray>>

(* Fault: the constructor is let go as soon as the id is set. *)
SwapNotifying(o) ==
  /\ Body(o, "id", "moved")
  /\ sem' = [sem EXCEPT ![o] = @ + 1]
  /\ UNCHANGED <<life, refs, handle, hasId, hasCb, pthread, call, broken, stray>>

Swap(o) ==
  /\ Body(o, "id", "moved")
  /\ hasCb' = [hasCb EXCEPT ![o] = FALSE]
  /\ UNCHANGED <<life, refs, handle, hasId, sem, pthread, call, broken, stray>>

(* Fault: nobody is notified. *)
NotifyNobody(o) ==
  /\ Body(o, "moved", "run")
  /\ UNCHANGED <<life, refs, handle, hasId, hasCb, sem, pthread, call, broken, stray>>

Notify(o) ==
  /\ Body(o, "moved", "run")
  /\ sem' = [sem EXCEPT ![o] = @ + 1]
  /\ UNCHANGED <<life, refs, handle, hasId, hasCb, pthread, call, broken, stray>>

(* setName, from the callback: t_thread->m_name is written. *)
SetName(o) ==
  /\ ~broken /\ body[o] = "run"
  /\ broken' = (life[o] = "gone")
  /\ UNCHANGED <<objects, call>>

BodyOver(o) ==
  /\ Body(o, "run", "over")
  /\ UNCHANGED <<life, refs, handle, hasId, hasCb, sem, pthread, call, broken, stray>>

-----------------------------------------------------------------------------
(* join(): `if (m_thread) { pthread_join; m_thread = 0 }'.  pthread_join   *)
(* refuses a thread that somebody is joining already, and join() throws;   *)
(* of one that has been joined it knows nothing.                           *)
Joining(o) == {c \in Caller : call[c] \in [at : {"join", "joined"}, obj : {o}]}

CanJoin(c, o, holder) == Idle(c) /\ holder \in refs[o] /\ handle[o]

Join(c, o, holder) ==
  /\ CanJoin(c, o, holder) /\ Joining(o) = {}
  /\ Goes(c, "join", o)
  /\ UNCHANGED <<objects, broken>>

JoinAgain(c, o, holder) ==
  /\ CanJoin(c, o, holder) /\ Joining(o) # {}
  /\ broken' = (pthread[o] # "joinable")
  /\ stray' = stray \cup {o}
  /\ UNCHANGED <<life, refs, handle, hasId, hasCb, sem, body, pthread, call>>

Joined(c, o) ==
  /\ In(c, "join", o) /\ body[o] = "over" /\ Goes(c, "joined", o)
  /\ pthread' = [pthread EXCEPT ![o] = "joined"]
  /\ UNCHANGED <<life, refs, handle, hasId, hasCb, sem, body, broken, stray>>

(* Fault: m_thread stays. *)
JoinKeeps(c, o) ==
  /\ In(c, "joined", o) /\ Returns(c)
  /\ UNCHANGED <<objects, broken>>

JoinReturns(c, o) ==
  /\ In(c, "joined", o) /\ Returns(c)
  /\ handle' = [handle EXCEPT ![o] = FALSE]
  /\ UNCHANGED <<life, refs, hasId, hasCb, sem, body, pthread, broken, stray>>

-----------------------------------------------------------------------------
Share(c, d, o) ==
  /\ Idle(c) /\ c \in refs[o] /\ d \notin refs[o]
  /\ refs' = [refs EXCEPT ![o] = @ \cup {d}]
  /\ UNCHANGED <<life, handle, hasId, hasCb, sem, body, pthread, call, broken, stray>>

(* Who lets go of the last shared_ptr destroys the object, which detaches  *)
(* a thread that nobody has joined.                                        *)
Released(o, holder) ==
  /\ refs' = [refs EXCEPT ![o] = @ \ {holder}]
  /\ life' = [life EXCEPT ![o] = IF refs'[o] = {} THEN "gone" ELSE @]
  /\ pthread' = [pthread EXCEPT ![o] = IF refs'[o] = {} /\ handle[o] THEN "detached" ELSE @]
  /\ broken' = (refs'[o] = {} /\ handle[o] /\ pthread[o] # "joinable")

Drop(c, o) ==
  /\ Idle(c) /\ c \in refs[o]
  /\ Released(o, c)
  /\ UNCHANGED <<handle, hasId, hasCb, sem, body, call, stray>>

-----------------------------------------------------------------------------
Run(o) == SetId(o) \/ Swap(o) \/ Notify(o)

Calls == [at : {"create", "wait", "join", "joined"}, obj : Object] \cup {Out}
=============================================================================

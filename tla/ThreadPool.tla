----------------------------- MODULE ThreadPool -----------------------------
(***************************************************************************)
(* The threads of a Scheduler (scheduler.cpp): start() makes them, under   *)
(* m_mutex, and stop() joins them; and Thread objects that a program uses  *)
(* by itself.  What the workers do in Scheduler::run is here only that     *)
(* they take m_mutex and end when m_stopping is set.                       *)
(***************************************************************************)
EXTENDS Thread, Sequences

CONSTANTS
  Main,         \* the caller that has the scheduler
  Own,          \* objects a program makes itself; start() makes the others
  ThreadCount,  \* m_threadCount
  Pool,         \* the scheduler, as a holder of shared_ptrs
  Null          \* an empty slot

ASSUME ThreadPoolAssumption ==
  /\ Main \in Caller /\ Pool \notin Caller /\ Null \notin Object
  /\ Own \subseteq Object /\ IsFiniteSet(Object) /\ ThreadCount \in Nat \ {0}

VARIABLES
  stopping,  \* m_stopping
  threads,   \* m_threads
  locked,    \* m_mutex is held by start()
  stage,     \* where Main is in start() or stop()
  slot,      \* i of their loops
  thrs,      \* thrs of stop()
  failed     \* history: a constructor threw in start()

poolVars == <<stopping, threads, locked, stage, slot, thrs, failed>>
vars == <<threadVars, poolVars>>

Init ==
  /\ ThreadInit
  /\ stopping = TRUE /\ threads = <<>> /\ locked = FALSE
  /\ stage = "idle" /\ slot = 0 /\ thrs = <<>> /\ failed = FALSE

Unborn == {o \in Object \ Own : life[o] = "unborn"}

MainIn(where) == stage = where /\ Idle(Main)

-----------------------------------------------------------------------------
(* start(), all of it under m_mutex. *)

(* The assertion that m_threads is empty holds or the program ends. *)
Start ==
  /\ MainIn("idle") /\ stopping /\ Cardinality(Unborn) >= ThreadCount
  /\ broken' = (threads # <<>>)
  /\ stopping' = FALSE /\ locked' = TRUE
  /\ threads' = [k \in 1 .. ThreadCount |-> Null]
  /\ stage' = "start" /\ slot' = 1
  /\ UNCHANGED <<objects, call, thrs, failed>>

StartOne(o) ==
  /\ MainIn("start") /\ slot <= ThreadCount /\ o \in Unborn
  /\ Construct(Main, o)
  /\ UNCHANGED poolVars

StartedOne(o) ==
  /\ stage = "start" /\ Constructed(Main, o, Pool)
  /\ threads' = [threads EXCEPT ![slot] = o] /\ slot' = slot + 1
  /\ UNCHANGED <<stopping, locked, stage, thrs, failed>>

(* The exception leaves start(). *)
StartFails(o) ==
  /\ stage = "start" /\ CreateFails(Main, o)
  /\ failed' = TRUE /\ locked' = FALSE /\ stage' = "idle"
  /\ UNCHANGED <<stopping, threads, slot, thrs>>

StartReturns ==
  /\ MainIn("start") /\ slot > ThreadCount
  /\ locked' = FALSE /\ stage' = "idle"
  /\ UNCHANGED <<threadVars, stopping, threads, slot, thrs, failed>>

-----------------------------------------------------------------------------
(* stop(): from where it sets m_stopping for good. *)
Stop ==
  /\ MainIn("idle") /\ stopping' = TRUE /\ stage' = "stop"
  /\ UNCHANGED <<threadVars, threads, locked, slot, thrs, failed>>

(* Fault: the threads are copied, not swapped. *)
StopCopies ==
  /\ MainIn("stop") /\ ~locked
  /\ thrs' = threads
  /\ stage' = "join" /\ slot' = 1
  /\ UNCHANGED <<threadVars, stopping, threads, locked, failed>>

(* Fault: the first thread is passed over. *)
StopSwapsLate ==
  /\ MainIn("stop") /\ ~locked
  /\ thrs' = threads /\ threads' = <<>>
  /\ stage' = "join" /\ slot' = 2
  /\ UNCHANGED <<threadVars, stopping, locked, failed>>

StopSwaps ==
  /\ MainIn("stop") /\ ~locked
  /\ thrs' = threads /\ threads' = <<>>
  /\ stage' = "join" /\ slot' = 1
  /\ UNCHANGED <<threadVars, stopping, locked, failed>>

StopJoins(o) ==
  /\ MainIn("join") /\ slot <= Len(thrs) /\ thrs[slot] = o
  /\ Join(Main, o, Pool)
  /\ UNCHANGED poolVars

StopJoined(o) ==
  /\ stage = "join" /\ JoinReturns(Main, o) /\ slot' = slot + 1
  /\ UNCHANGED <<stopping, threads, locked, stage, thrs, failed>>

(* join() of a slot that start() has left empty. *)
StopJoinsNull ==
  /\ MainIn("join") /\ slot <= Len(thrs) /\ thrs[slot] = Null
  /\ broken' = TRUE
  /\ UNCHANGED <<objects, call, poolVars>>

StopJoinedAll ==
  /\ MainIn("join") /\ slot > Len(thrs) /\ stage' = "release" /\ slot' = 1
  /\ UNCHANGED <<threadVars, stopping, threads, locked, thrs, failed>>

(* thrs goes with the block, and its objects with it. *)
StopReleases(o) ==
  /\ MainIn("release") /\ slot <= Len(thrs) /\ thrs[slot] = o
  /\ Released(o, Pool) /\ slot' = slot + 1
  /\ UNCHANGED <<handle, hasId, hasCb, sem, body, call, stray>>
  /\ UNCHANGED <<stopping, threads, locked, stage, thrs, failed>>

StopReturns ==
  /\ MainIn("release") /\ slot > Len(thrs) /\ stage' = "idle" /\ thrs' = <<>>
  /\ UNCHANGED <<threadVars, stopping, threads, locked, slot, failed>>

-----------------------------------------------------------------------------
(* A worker ends when m_stopping is set, and takes m_mutex before.         *)
WorkerOver(o) ==
  /\ o \notin Own /\ stopping /\ ~locked /\ BodyOver(o)
  /\ UNCHANGED poolVars

(* What a program does with objects of its own. *)
OwnUse(c, o) ==
  /\ c = Main => stage = "idle"
  /\ \/ Construct(c, o) \/ CreateFails(c, o) \/ Constructed(c, o, c)
     \/ Join(c, o, c) \/ JoinAgain(c, o, c) \/ JoinReturns(c, o)
     \/ \E d \in Caller : Share(c, d, o)
     \/ Drop(c, o)
  /\ UNCHANGED poolVars

(* What goes on by itself. *)
PoolGoes ==
  \/ StartReturns \/ StopSwaps \/ StopJoinsNull \/ StopJoinedAll \/ StopReturns
  \/ \E o \in Object :
       \/ StartOne(o) \/ StartedOne(o) \/ StartFails(o)
       \/ StopJoins(o) \/ StopJoined(o) \/ StopReleases(o)

ThreadGoes(o) ==
  /\ Run(o) \/ (o \in Own /\ BodyOver(o)) \/ \E c \in Caller : Create(c, o) \/ Joined(c, o)
  /\ UNCHANGED poolVars

Next ==
  \/ Start \/ Stop \/ PoolGoes
  \/ \E o \in Object : ThreadGoes(o) \/ WorkerOver(o)
  \/ \E c \in Caller, o \in Own : OwnUse(c, o)
  \/ \E o \in Own : SetName(o) /\ UNCHANGED poolVars

Spec == Init /\ [][Next]_vars

(* Threads run, and callbacks end. *)
FairSpec ==
  /\ Spec /\ WF_vars(PoolGoes)
  /\ \A o \in Object : WF_vars(ThreadGoes(o)) /\ WF_vars(WorkerOver(o))

-----------------------------------------------------------------------------
(* Properties.                                                             *)

(* The objects, the calls and the pool keep their types. *)
TypeOK ==
  /\ life \in [Object -> {"unborn", "constructing", "failed", "alive", "gone"}]
  /\ refs \in [Object -> SUBSET (Caller \cup {Pool})]
  /\ handle \in [Object -> BOOLEAN] /\ hasId \in [Object -> BOOLEAN]
  /\ hasCb \in [Object -> BOOLEAN] /\ sem \in [Object -> {0, 1}]
  /\ body \in [Object -> {"none", "begin", "id", "moved", "run", "over"}]
  /\ pthread \in [Object -> {"none", "joinable", "joined", "detached"}]
  /\ call \in [Caller -> Calls] /\ broken \in BOOLEAN /\ stray \subseteq Object
  /\ stopping \in BOOLEAN /\ locked \in BOOLEAN /\ failed \in BOOLEAN
  /\ threads \in Seq(Object \cup {Null}) /\ thrs \in Seq(Object \cup {Null})
  /\ stage \in {"idle", "start", "stop", "join", "release"} /\ slot \in 0 .. ThreadCount + 1

(* run() uses the object while its constructor waits, and no longer: an    *)
(* object that is constructed knows its id (start() reads it at once,      *)
(* scheduler.cpp:64) and has given its callback away, so it may go while   *)
(* the thread runs on.                                                     *)
HandedOver ==
  \A o \in Object :
    /\ body[o] \in {"begin", "id", "moved"} => life[o] = "constructing"
    /\ life[o] \in {"alive", "gone"} => hasId[o] /\ ~hasCb[o] /\ body[o] \in {"run", "over"}

(* The system is told of each thread once what becomes of it: an object    *)
(* that is gone has been joined, or detached its thread, and never both,   *)
(* whoever shared it.                                                      *)
ToldOnce ==
  \A o \in Object : ~broken =>
    /\ life[o] = "gone" => pthread[o] \in {"joined", "detached"}
    /\ life[o] = "alive" =>
         IF handle[o] THEN pthread[o] = "joinable" \/ Joining(o) # {} ELSE pthread[o] = "joined"

(* Every thread that start() has made is joined, and none detached, when   *)
(* stop() has returned; and also when it meets a slot that a failing       *)
(* start() left empty, the threads before it are.                          *)
StopJoinsAll ==
  \A o \in Object \ Own :
    /\ pthread[o] # "detached"
    /\ pthread[o] = "joinable" =>
         \/ \E k \in DOMAIN threads : threads[k] = o
         \/ stage = "join" /\ \E k \in DOMAIN thrs : k >= slot /\ thrs[k] = o
         \/ call[Main] = [at |-> "wait", obj |-> o]

(* No thread is lost between the program, start() and stop().              *)
ReleasedOnce == ToldOnce /\ StopJoinsAll

(* What breaks the program is two join() at a time, a callback that names  *)
(* its thread after the object was let go unjoined (thread.cpp:28), or a   *)
(* stop() after a start() that failed (scheduler.cpp:62, 128).             *)
BrokenWhy ==
  broken =>
    \/ stray # {} \/ \E o \in Own : pthread[o] = "detached"
    \/ failed /\ stage = "join" /\ thrs[slot] = Null

(* start() and stop() return, or end the program: no worker that waits for *)
(* m_mutex keeps start() from it, or stop().                               *)
CallsReturn == stage # "idle" ~> stage = "idle" \/ broken
=============================================================================

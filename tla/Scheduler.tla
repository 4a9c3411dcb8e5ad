----------------------------- MODULE Scheduler -----------------------------
(***************************************************************************)
(* The fiber scheduler of scheduler.h / scheduler.cpp together with the    *)
(* part of fiber.cpp its threads execute.  Every worker thread, and with   *)
(* use_caller the thread that built the scheduler, runs Scheduler::run:    *)
(* take the first task it may run from the shared list, swap into its      *)
(* fiber, and deal with the state in which the fiber comes back.           *)
(*                                                                         *)
(* A step is what a thread does between two points at which another thread *)
(* can see or change something it uses: a critical section of m_mutex, one *)
(* update of an atomic counter, one stretch of a fiber's body.             *)
(* tickle() only logs in this class, so it is not a step here.             *)
(***************************************************************************)
EXTENDS Integers, Sequences, FiniteSets
LOCAL INSTANCE SequencesExt

CONSTANTS
  Worker,          \* the threads start() creates (m_threadCount of them)
  Caller,          \* the thread that calls the constructor, start() and stop()
  UseCaller,       \* use_caller: Caller too executes run(), from stop()
  UserFiber,       \* fibers the program makes itself and passes to schedule()
  Callback,        \* callbacks the program passes to schedule()
  Pool,            \* the fiber objects run() allocates for callbacks
  AnyThread,       \* thread id -1: the task may run on every thread
  None,            \* a null pointer
  MaxYield,        \* bound: how often one job gives up its thread
  MaxStart,        \* bound: how often the program calls start()
  MainFuncCallsCb, \* Fiber::MainFunc calls m_cb (FALSE: fiber.cpp:178 as it is written)
  PinAnywhere      \* tasks may be pinned to other threads than the poster's own

Thread == Worker \cup (IF UseCaller THEN {Caller} ELSE {})
Fiber  == UserFiber \cup Pool
Job    == UserFiber \cup Callback
Task   == Fiber \cup Callback

ASSUME ConstantsAssumption ==
  /\ Caller \notin Worker
  /\ Thread # {}  \* SYLAR_ASSERT(threads > 0)
  /\ {UseCaller, MainFuncCallsCb, PinAnywhere} \subseteq BOOLEAN
  /\ AnyThread \notin Worker \cup {Caller}
  /\ UserFiber \cap Callback = {} /\ UserFiber \cap Pool = {}
  /\ Callback \cap Pool = {}
  /\ None \notin Task
  /\ MaxYield \in Nat /\ MaxStart \in Nat

ASSUME FiniteThreads == IsFiniteSet(Worker)

VARIABLES
  fibers,       \* m_fibers: the tasks to run, each with the thread it is for
  active,       \* m_activeThreadCount
  idle,         \* m_idleThreadCount
  stopping,     \* m_stopping
  autoStop,     \* m_autoStop
  threads,      \* m_threads, the worker threads stop() has yet to take over
  root,         \* state of m_rootFiber, the fiber of run() on Caller
  pc,           \* pc[t]: where thread t is in run(), or in the body it runs
  ft,           \* ft[t]: the task thread t took and has not finished with
  cbFiber,      \* cbFiber[t]: the local variable cb_fiber of run()
  idleState,    \* idleState[t]: state of the local idle_fiber of run()
  state,        \* state[f]: m_state of fiber f ("UNBORN": not allocated)
  bound,        \* bound[f]: the job whose function is m_cb of fiber f
  waker,        \* waker[f]: an outside event that will schedule f again
  posted, done, \* history: jobs passed to schedule(), jobs whose function ended
  yields,       \* bound: how often a job has given up its thread
  control,      \* where the program that owns the scheduler is
  starts,       \* bound: calls of start()
  failed        \* the assertion that stopped the process, or "no"

queueVars   == <<fibers, active>>
controlVars == <<stopping, autoStop, threads, root, control, starts>>
fiberVars   == <<state, bound, waker>>
localVars   == <<pc, ft, cbFiber, idleState, idle>>
historyVars == <<posted, done, yields>>
vars == <<queueVars, controlVars, fiberVars, localVars, historyVars, failed>>

Dead    == {"TERM", "EXCEPT"}
InBody  == {"body", "armed", "switching"}
Working == {"taken", "out"} \cup InBody

Set(f, x, v) == [f EXCEPT ![x] = v]

(* A failed assertion ends the process: no thread goes on. *)
At(t, places) == failed = "no" /\ pc[t] \in places
On(stages)    == failed = "no" /\ control \in stages

(* Scheduler::stopping *)
Stopping == autoStop /\ stopping /\ fibers = <<>> /\ active = 0

Init ==
  /\ fibers = <<>> /\ active = 0 /\ idle = 0
  /\ stopping = TRUE /\ autoStop = FALSE /\ threads = {} /\ root = "INIT"
  /\ pc = [t \in Thread |-> "off"]
  /\ ft = [t \in Thread |-> None]
  /\ cbFiber = [t \in Thread |-> None]
  /\ idleState = [t \in Thread |-> "INIT"]
  /\ state = [f \in Fiber |-> IF f \in UserFiber THEN "INIT" ELSE "UNBORN"]
  /\ bound = [f \in Fiber |-> IF f \in UserFiber THEN f ELSE None]
  /\ waker = [f \in Fiber |-> "idle"]
  /\ posted = {} /\ done = {} /\ yields = [j \in Job |-> 0]
  /\ control = "created" /\ starts = 0 /\ failed = "no"

(* Scheduler::scheduleNoLock *)
Push(task, thread) ==
  fibers' = Append(fibers, [task |-> task, thread |-> thread])

-----------------------------------------------------------------------------
(* The scanning loop of run(), under m_mutex. *)

(* Fault: run() does not pass over fibers that still run. *)
EligibleWhileExec(t, e) == e.thread \in {AnyThread, t}

Eligible(t, e) ==
  /\ e.thread \in {AnyThread, t}
  /\ ~(e.task \in Fiber /\ state[e.task] = "EXEC")

Take(t) ==
  /\ At(t, {"scan"})
  /\ \E i \in DOMAIN fibers :
       /\ Eligible(t, fibers[i])
       /\ \A k \in 1 .. i - 1 : ~Eligible(t, fibers[k])
       /\ fibers' = RemoveAt(fibers, i)
       /\ ft' = Set(ft, t, fibers[i].task)
  /\ active' = active + 1
  /\ pc' = Set(pc, t, "taken")
  /\ UNCHANGED <<controlVars, fiberVars, cbFiber, idleState, idle, historyVars, failed>>

FindNothing(t) ==
  /\ At(t, {"scan"})
  /\ \A i \in DOMAIN fibers : ~Eligible(t, fibers[i])
  /\ pc' = Set(pc, t, IF idleState[t] = "TERM" THEN "exit" ELSE "nothing")
  /\ UNCHANGED <<queueVars, controlVars, fiberVars, ft, cbFiber, idleState, idle,
                 historyVars, failed>>

-----------------------------------------------------------------------------
(* What run() does with the task it took. *)

(* Fault: a fiber that ended before is entered once more. *)
RunnableThoughDead(f) == f \in Fiber

Runnable(f) == f \in Fiber /\ state[f] \notin Dead

(* Fiber::swapIn.  Fiber f is only entered by the thread that took it out  *)
(* of the list, so its check and the check before it in run() are one step *)
(* with the assignment.                                                    *)
ResumeFiber(t) ==
  LET f == ft[t] IN
  /\ At(t, {"taken"})
  /\ Runnable(f)
  /\ failed' = IF state[f] = "EXEC" THEN "swapIn" ELSE failed
  /\ state' = Set(state, f, "EXEC")
  /\ waker' = IF waker[f] = "fired" THEN Set(waker, f, "idle") ELSE waker
  /\ pc' = Set(pc, t, "body")
  /\ UNCHANGED <<queueVars, controlVars, bound, ft, cbFiber, idleState, idle, historyVars>>

(* A fiber that ended before its entry was reached is dropped. *)
Discard(t) ==
  LET f == ft[t] IN
  /\ At(t, {"taken"})
  /\ f \in Fiber /\ state[f] \in Dead
  /\ active' = active - 1
  /\ waker' = IF waker[f] = "fired" THEN Set(waker, f, "idle") ELSE waker
  /\ ft' = Set(ft, t, None)
  /\ pc' = Set(pc, t, "scan")
  /\ UNCHANGED <<fibers, controlVars, state, bound, cbFiber, idleState, idle,
                 historyVars, failed>>

(* What Fiber::reset asserts of a fiber that gets a new function; one that *)
(* is constructed instead is INIT.                                         *)
MayReset(f) == state[f] \in Dead \cup {"INIT", "UNBORN"}

(* A callback runs in the thread's cb_fiber, bound anew by Fiber::reset, or *)
(* in a new fiber when the thread has none.                                 *)
StartCallback(t) ==
  /\ At(t, {"taken"}) /\ ft[t] \in Callback
  /\ \E f \in IF cbFiber[t] # None THEN {cbFiber[t]}
              ELSE {p \in Pool : state[p] = "UNBORN"} :
       /\ failed' = IF MayReset(f) THEN failed ELSE "reset"
       /\ state' = Set(state, f, "EXEC")
       /\ bound' = Set(bound, f, ft[t])
       /\ cbFiber' = Set(cbFiber, t, f)
       /\ ft' = Set(ft, t, f)
  /\ pc' = Set(pc, t, "body")
  /\ UNCHANGED <<queueVars, controlVars, waker, idleState, idle, historyVars>>

-----------------------------------------------------------------------------
(* The body of the fiber a thread runs: Fiber::MainFunc and what the job's  *)
(* function may do to the scheduler.                                        *)

InJob(t, at) == MainFuncCallsCb /\ At(t, at)

Pins(t) == {AnyThread, t} \cup (IF PinAnywhere THEN Thread ELSE {})

BodySchedules(t) ==
  /\ InJob(t, {"body"})
  /\ \E j \in Job \ posted, p \in Pins(t) : Push(j, p) /\ posted' = posted \cup {j}
  /\ UNCHANGED <<active, controlVars, fiberVars, localVars, done, yields, failed>>

MayYield(t) == yields[bound[ft[t]]] < MaxYield
CountYield(t) == yields' = [yields EXCEPT ![bound[ft[t]]] = @ + 1]

(* The job leaves its fiber with an event or a timer that will schedule it. *)
Arm(t) ==
  /\ InJob(t, {"body"})
  /\ waker[ft[t]] = "idle"
  /\ MayYield(t) /\ CountYield(t)
  /\ waker' = Set(waker, ft[t], "armed")
  /\ pc' = Set(pc, t, "armed")
  /\ UNCHANGED <<queueVars, controlVars, state, bound, ft, cbFiber, idleState, idle,
                 posted, done, failed>>

(* Scheduler::switchTo, or a job that schedules its own fiber, then yields. *)
SwitchTo(t) ==
  /\ InJob(t, {"body"})
  /\ MayYield(t) /\ CountYield(t)
  /\ \E p \in Pins(t) : Push(ft[t], p)
  /\ pc' = Set(pc, t, "switching")
  /\ UNCHANGED <<active, controlVars, fiberVars, ft, cbFiber, idleState, idle,
                 posted, done, failed>>

(* Fiber::YieldToHold leaves the state EXEC: run() sets HOLD afterwards. *)
YieldToHold(t) ==
  /\ InJob(t, {"armed", "switching"})
  /\ pc' = Set(pc, t, "out")
  /\ UNCHANGED <<queueVars, controlVars, fiberVars, ft, cbFiber, idleState, idle,
                 historyVars, failed>>

(* A job that has armed an event or scheduled its fiber does not come here: *)
(* its fiber would be listed twice, which run() does not prevent.          *)
YieldToReady(t) ==
  /\ InJob(t, {"body"})
  /\ MayYield(t) /\ CountYield(t)
  /\ state' = Set(state, ft[t], "READY")
  /\ pc' = Set(pc, t, "out")
  /\ UNCHANGED <<queueVars, controlVars, bound, waker, ft, cbFiber, idleState, idle,
                 posted, done, failed>>

(* The function returns or throws.  The function of a fiber the program    *)
(* made itself may do so while an event is still to schedule that fiber.   *)
(* As fiber.cpp:178 is written m_cb is named, not called: it never ran.    *)
CbEnds(t) ==
  LET f == ft[t] IN
  /\ At(t, {"body"} \cup IF f \in UserFiber THEN {"armed"} ELSE {})
  /\ waker[f] = "idle" \/ f \in UserFiber
  /\ done' = IF MainFuncCallsCb THEN done \cup {bound[f]} ELSE done
  /\ \E s \in Dead : /\ s = "EXCEPT" => MainFuncCallsCb
                     /\ state' = Set(state, f, s)
                     /\ bound' = IF s = "TERM" THEN Set(bound, f, None) ELSE bound
  /\ pc' = Set(pc, t, "out")
  /\ UNCHANGED <<queueVars, controlVars, waker, ft, cbFiber, idleState, idle,
                 posted, yields, failed>>

-----------------------------------------------------------------------------
(* Back in run() after swapIn. *)

(* Fault: a fiber that ended is not counted down. *)
CountDownUnlessDead(t) ==
  /\ At(t, {"out"})
  /\ active' = IF state[ft[t]] \in Dead THEN active ELSE active - 1
  /\ pc' = Set(pc, t, "settle")
  /\ UNCHANGED <<fibers, controlVars, fiberVars, ft, cbFiber, idleState, idle,
                 historyVars, failed>>

CountDown(t) ==
  /\ At(t, {"out"})
  /\ active' = active - 1
  /\ pc' = Set(pc, t, "settle")
  /\ UNCHANGED <<fibers, controlVars, fiberVars, ft, cbFiber, idleState, idle,
                 historyVars, failed>>

(* Fault: cb_fiber.reset() comes before schedule(cb_fiber). *)
RequeueAfterReset(t, f) == Push(IF cbFiber[t] = f THEN None ELSE f, AnyThread)

(* Fault: a fiber that yielded READY is not scheduled again. *)
RequeueForgotten(t, f) == UNCHANGED fibers

Requeue(t, f) == Push(f, AnyThread)

(* Fault: the thread keeps a cb_fiber whose callback is suspended. *)
ReleasesNever(t, f) == FALSE

(* cb_fiber.reset(): the thread gives up the fiber of a suspended callback. *)
Releases(t, f) == cbFiber[t] = f /\ state[f] \notin Dead

(* The state in which the fiber came back decides: READY is scheduled      *)
(* again, for every thread; a callback's fiber that ended is reset and     *)
(* kept; a fiber that still says EXEC is put on HOLD.                      *)
Settle(t) ==
  LET f      == ft[t]
      viaCb  == cbFiber[t] = f
      ended  == state[f] \in Dead
      keep   == viaCb /\ ended
  IN
  /\ At(t, {"settle"})
  /\ IF state[f] = "READY" THEN Requeue(t, f) ELSE UNCHANGED fibers
  /\ state' = CASE state[f] = "READY" -> state
                [] keep               -> Set(state, f, "INIT")
                [] ended /\ ~viaCb    -> state
                [] OTHER              -> Set(state, f, "HOLD")
  /\ bound' = IF keep THEN Set(bound, f, None) ELSE bound
  /\ cbFiber' = IF Releases(t, f) THEN Set(cbFiber, t, None) ELSE cbFiber
  /\ ft' = Set(ft, t, None)
  /\ pc' = Set(pc, t, "scan")
  /\ UNCHANGED <<active, controlVars, waker, idleState, idle, historyVars, failed>>

-----------------------------------------------------------------------------
(* The idle fiber of run(): Scheduler::idle.                                *)

IdleEnter(t) ==
  /\ At(t, {"nothing"})
  /\ idle' = idle + 1
  /\ failed' = IF idleState[t] = "EXEC" THEN "swapIn" ELSE failed
  /\ idleState' = Set(idleState, t, "EXEC")
  /\ pc' = Set(pc, t, "idle")
  /\ UNCHANGED <<queueVars, controlVars, fiberVars, ft, cbFiber, historyVars>>

IdleCheck(t) ==
  /\ At(t, {"idle"})
  /\ idleState' = IF Stopping \/ ~MainFuncCallsCb THEN Set(idleState, t, "TERM")
                  ELSE idleState
  /\ pc' = Set(pc, t, "idleOut")
  /\ UNCHANGED <<queueVars, controlVars, fiberVars, ft, cbFiber, idle, historyVars, failed>>

IdleLeave(t) ==
  /\ At(t, {"idleOut"})
  /\ idle' = idle - 1
  /\ idleState' = IF idleState[t] = "TERM" THEN idleState ELSE Set(idleState, t, "HOLD")
  /\ pc' = Set(pc, t, "scan")
  /\ UNCHANGED <<queueVars, controlVars, fiberVars, ft, cbFiber, historyVars, failed>>

-----------------------------------------------------------------------------
(* An event or timer a fiber armed schedules it. *)
Wake(f) ==
  /\ failed = "no" /\ waker[f] = "armed"
  /\ waker' = Set(waker, f, "fired")
  /\ Push(f, AnyThread)
  /\ UNCHANGED <<active, controlVars, state, bound, localVars, historyVars, failed>>

-----------------------------------------------------------------------------
(* The program that owns the scheduler, on thread Caller. *)

Accepting == On({"created", "started"})

MainSchedules ==
  /\ Accepting
  /\ \E j \in Job \ posted, p \in Pins(AnyThread) :
       Push(j, p) /\ posted' = posted \cup {j}
  /\ UNCHANGED <<active, controlVars, fiberVars, localVars, done, yields, failed>>

(* The range form of schedule(): several tasks in one critical section. *)
MainSchedulesRange ==
  /\ Accepting
  /\ \E j, k \in Job \ posted :
       /\ j # k
       /\ fibers' = fibers \o <<[task |-> j, thread |-> AnyThread], [task |-> k, thread |-> AnyThread]>>
       /\ posted' = posted \cup {j, k}
  /\ UNCHANGED <<active, controlVars, fiberVars, localVars, done, yields, failed>>

(* Scheduler::start, whole, under m_mutex: new threads with new run() locals. *)
Start ==
  /\ On({"created", "stopped"}) /\ starts < MaxStart
  /\ stopping
  /\ stopping' = FALSE
  /\ failed' = IF threads = {} THEN failed ELSE "start"
  /\ threads' = Worker
  /\ pc' = [t \in Thread |-> IF t \in Worker THEN "scan" ELSE pc[t]]
  /\ cbFiber' = [t \in Thread |-> IF t \in Worker THEN None ELSE cbFiber[t]]
  /\ idleState' = [t \in Thread |-> IF t \in Worker THEN "INIT" ELSE idleState[t]]
  /\ control' = "started" /\ starts' = starts + 1
  /\ UNCHANGED <<queueVars, autoStop, root, fiberVars, ft, idle, historyVars>>

(* Fault: stop() leaves m_stopping as it is. *)
StopBeginSilent ==
  /\ On({"started"})
  /\ autoStop' = TRUE
  /\ control' = "stopping"
  /\ UNCHANGED <<queueVars, stopping, threads, root, starts, fiberVars, localVars,
                 historyVars, failed>>

StopBegin ==
  /\ On({"started"})
  /\ autoStop' = TRUE /\ stopping' = TRUE
  /\ control' = "stopping"
  /\ UNCHANGED <<queueVars, threads, root, starts, fiberVars, localVars, historyVars, failed>>

(* stop() decides whether this thread must help: Fiber::call on the root   *)
(* fiber, which resumes behind its last statement if it has ended before.  *)
StopCheck ==
  /\ On({"stopping"})
  /\ IF UseCaller /\ ~Stopping
     THEN /\ control' = "calling" /\ root' = "EXEC"
          /\ failed' = IF root = "TERM" THEN "neverReach" ELSE failed
          /\ pc' = Set(pc, Caller, "scan")
          /\ UNCHANGED threads
     ELSE /\ control' = "joining" /\ threads' = {}
          /\ UNCHANGED <<root, pc, failed>>
  /\ UNCHANGED <<queueVars, stopping, autoStop, starts, fiberVars, ft, cbFiber,
                 idleState, idle, historyVars>>

(* run() returned on the root fiber: CallerMainFunc ends, back() to stop(). *)
CallReturns ==
  /\ On({"calling"}) /\ pc[Caller] = "exit"
  /\ root' = "TERM"
  /\ pc' = Set(pc, Caller, "off")
  /\ control' = "joining" /\ threads' = {}
  /\ UNCHANGED <<queueVars, stopping, autoStop, starts, fiberVars, ft, cbFiber,
                 idleState, idle, historyVars, failed>>

StopJoins ==
  /\ On({"joining"})
  /\ \A w \in Worker : pc[w] = "exit"
  /\ control' = "stopped"
  /\ pc' = [t \in Thread |-> "off"]
  /\ UNCHANGED <<queueVars, stopping, autoStop, threads, root, starts, fiberVars, ft,
                 cbFiber, idleState, idle, historyVars, failed>>

-----------------------------------------------------------------------------
Run(t) ==
  \/ Take(t) \/ FindNothing(t)
  \/ ResumeFiber(t) \/ Discard(t) \/ StartCallback(t)
  \/ BodySchedules(t) \/ Arm(t) \/ SwitchTo(t) \/ YieldToHold(t) \/ YieldToReady(t)
  \/ CbEnds(t)
  \/ CountDown(t) \/ Settle(t)
  \/ IdleEnter(t) \/ IdleCheck(t) \/ IdleLeave(t)

Proceed == Start \/ StopBegin \/ StopCheck \/ CallReturns \/ StopJoins

Next ==
  \/ \E t \in Thread : Run(t)
  \/ \E f \in Fiber : Wake(f)
  \/ MainSchedules \/ MainSchedulesRange \/ Proceed

(* The program is over, or an assertion has ended it. *)
Over == (failed # "no" \/ control = "stopped") /\ UNCHANGED vars

Spec == Init /\ [][Next \/ Over]_vars

(* The operating system runs every thread, an armed event arrives, and the *)
(* program goes on to start() and stop().                                  *)
Fairness ==
  /\ \A t \in Thread : WF_vars(Run(t))
  /\ \A f \in Fiber : WF_vars(Wake(f))
  /\ WF_vars(Proceed)

FairSpec == Spec /\ Fairness

-----------------------------------------------------------------------------
(* Properties. *)

(* Every variable stays within the values the program gives it. *)
TypeOK ==
  /\ fibers \in Seq([task : Task, thread : Thread \cup {AnyThread}])
  /\ active \in Int /\ idle \in Int
  /\ stopping \in BOOLEAN /\ autoStop \in BOOLEAN /\ threads \subseteq Worker
  /\ root \in {"INIT", "EXEC", "TERM"}
  /\ pc \in [Thread -> {"off", "scan", "settle", "nothing", "idle", "idleOut", "exit"}
                       \cup Working]
  /\ ft \in [Thread -> Task \cup {None}]
  /\ cbFiber \in [Thread -> Fiber \cup {None}]
  /\ idleState \in [Thread -> {"INIT", "EXEC", "HOLD", "TERM"}]
  /\ state \in [Fiber -> {"UNBORN", "INIT", "HOLD", "EXEC", "READY"} \cup Dead]
  /\ bound \in [Fiber -> Job \cup {None}]
  /\ waker \in [Fiber -> {"idle", "armed", "fired"}]
  /\ posted \subseteq Job /\ done \subseteq Job
  /\ yields \in [Job -> 0 .. MaxYield]
  /\ control \in {"created", "started", "stopping", "calling", "joining", "stopped"}
  /\ starts \in 0 .. MaxStart
  /\ failed \in {"no", "swapIn", "reset", "start", "neverReach"}

(* The two counters stopping() and hasIdleThreads() rely on count threads: *)
(* m_activeThreadCount those between taking a task and coming back from    *)
(* it, m_idleThreadCount those in their idle fiber.                        *)
Counters ==
  /\ active = Cardinality({t \in Thread : pc[t] \in Working})
  /\ idle = Cardinality({t \in Thread : pc[t] \in {"idle", "idleOut"}})

(* A fiber has one owner: one entry of m_fibers or one thread.  It has both *)
(* only while its thread has still to swap out of it, or when it has ended *)
(* and a late event put it back (scheduler.cpp:165 and 221).               *)
SingleOwner ==
  /\ \A i, k \in DOMAIN fibers : fibers[i].task = fibers[k].task => i = k
  /\ \A t, u \in Thread :
       (t # u /\ ft[t] = ft[u] /\ ft[t] # None) => ft[t] \in Fiber /\ state[ft[t]] \in Dead
  /\ \A t \in Thread : \A i \in DOMAIN fibers :
       ft[t] = fibers[i].task => /\ pc[t] \in {"armed", "switching", "out", "settle"}
                                 /\ state[ft[t]] \in Dead \cup {"EXEC"}

(* A job's function is never entered on two threads, nor again after it    *)
(* has ended, although its fiber moves between threads, the list, and the  *)
(* cb_fiber that successive callbacks of a thread share.                   *)
RunsOnce ==
  \A t \in Thread : pc[t] \in InBody =>
    /\ bound[ft[t]] \in posted \ done
    /\ \A u \in Thread \ {t} : pc[u] \in InBody => bound[ft[u]] # bound[ft[t]]

(* A suspended fiber is within reach: an event, an entry of m_fibers or a  *)
(* thread holds it, so it is resumed and ~Fiber (fiber.cpp:72) never finds *)
(* it half way, although run() lets go of cb_fiber at scheduler.cpp:209    *)
(* and 217.                                                                *)
NoneDropped ==
  \A f \in Fiber : state[f] \in {"HOLD", "READY"} =>
    \/ waker[f] = "armed"
    \/ \E i \in DOMAIN fibers : fibers[i].task = f
    \/ \E t \in Thread : ft[t] = f

(* No SYLAR_ASSERT of Fiber::swapIn, Fiber::reset, start() or behind the   *)
(* end of CallerMainFunc fires.                                            *)
NoAssertFails == failed = "no"

(* When stop() has returned no posted job was left behind while it could   *)
(* run: it has ended, or sleeps until an outside event.                    *)
Asleep(f) == state[f] = "HOLD" /\ waker[f] # "idle"

StopDrained ==
  control = "stopped" =>
    \A j \in posted \ done : \E f \in Fiber : bound[f] = j /\ Asleep(f)

(* stop() returns, however its threads and the jobs interleave. *)
StopReturns == control = "stopping" ~> control = "stopped"

(* tests/test_fiber.cc:54-62 and tests/test_scheduler.cc:98-101 expect the *)
(* function of a scheduled task to run: a fiber that says it has ended has *)
(* run its function.                                                       *)
EndedMeansRan == \A f \in UserFiber : state[f] \in Dead => f \in done

(* Where a job stands for the program that posted it. *)
Runs(j)   == \E t \in Thread : pc[t] \in InBody /\ bound[ft[t]] = j
Sleeps(j) == \E f \in Fiber : bound[f] = j /\ waker[f] # "idle"

JobStatus(j) ==
  IF j \in done THEN "done"
  ELSE IF j \notin posted THEN "new"
  ELSE IF Runs(j) THEN "running"
  ELSE IF Sleeps(j) THEN "waiting"
  ELSE "ready"

Status == [j \in Job |-> JobStatus(j)]

(* The scheduler implements the task pool: no job is lost, started twice   *)
(* or run beyond the number of threads, every ready job comes to run, and  *)
(* stop() returns only over an empty pool.                                 *)
PoolOfTasks == INSTANCE TaskPool WITH
  Capacity <- Cardinality(Thread),
  status   <- Status,
  closed   <- control = "stopped"

ImplementsTaskPool == PoolOfTasks!Spec
=============================================================================

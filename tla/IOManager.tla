----------------------------- MODULE IOManager -----------------------------
(***************************************************************************)
(* The threads of an IOManager: Scheduler::run with the virtual functions  *)
(* tickle(), stopping() and idle() of iomanager.cpp in place of the        *)
(* scheduler's own.  A thread without a task waits in epoll_wait; tickle() *)
(* wakes one by a byte in a pipe.  A thread leaves when stopping() finds   *)
(* no timer, no pending event, no task and nobody at work, which it reads  *)
(* one after the other while the other threads go on.                      *)
(*                                                                         *)
(* Only amounts are kept: how many tasks wait in m_fibers and for which    *)
(* thread, how many events and timers are armed.  What a task is and who   *)
(* may run it is the subject of Scheduler, which event belongs to whom     *)
(* that of FdEvents.  Entries of m_fibers whose fiber still runs, which    *)
(* run() passes over, are not told apart.                                  *)
(***************************************************************************)
EXTENDS Integers, FiniteSets

CONSTANTS
  Crews,      \* the sets of threads an IOManager may be constructed with
  Caller,     \* the thread that constructs and destroys the IOManager; it is one of
              \* its threads, and executes run() from stop(), if use_caller is true
  AnyThread,  \* thread id -1
  Foreign,    \* the threads for which anybody may schedule a task; besides, a job may for
              \* the thread it is on, the program for those of the IOManager, all for -1
  MaxPost,    \* bound: calls of schedule() by the program and by jobs
  MaxYield,   \* bound: yields READY
  MaxEvent,   \* bound: calls of addEvent
  MaxTimer,   \* bound: calls of addTimer
  MaxUse      \* bound: all of these together

Thread == UNION Crews
Place  == Thread \cup {AnyThread}

ASSUME IOManagerAssumption ==
  /\ \A c \in Crews : IsFiniteSet(c) /\ c # {}
  /\ AnyThread \notin Thread \cup {Caller}
  /\ Foreign \subseteq Thread
  /\ {MaxPost, MaxYield, MaxEvent, MaxTimer, MaxUse} \subseteq Nat

VARIABLES
  crew,     \* the threads of this IOManager
  queue,    \* queue[p]: tasks in m_fibers for thread p
  active,   \* m_activeThreadCount
  idle,     \* m_idleThreadCount
  stopping, \* m_stopping and m_autoStop, which stop() sets
  pending,  \* m_pendingEventCount
  ready,    \* events the kernel has to report
  timers,   \* timers in m_timers
  due,      \* how many of them have expired
  signal,   \* the read end of the pipe has an edge to report
  pc,       \* pc[t]: where thread t is
  ended,    \* ended[t]: the idle fiber of t has left idle()
  got,      \* got[t]: reports of events t has yet to handle
  drain,    \* the threads whose report has the pipe, until they have read it empty
  cbs,      \* cbs[t]: callbacks of expired timers t has yet to schedule
  control,  \* where Caller is in the program and in stop()
  unheard,  \* history: since m_fibers was empty a tickle() has found nobody idle
  late,     \* history: a job has armed what a thread on its way out no longer sees
  stray,    \* history: the threads for which a task was scheduled when they had left
  used      \* used[b]: what has been used of bound b

workVars  == <<queue, active, pending, timers>>
waitVars  == <<ready, due, signal>>
threadVars == <<idle, ended, got, drain, cbs>>
noted    == <<unheard, late, stray>>
vars == <<crew, workVars, waitVars, threadVars, pc, stopping, control, noted, used>>

Bound == [post |-> MaxPost, yield |-> MaxYield, event |-> MaxEvent, timer |-> MaxTimer]
AllUsed == used["post"] + used["yield"] + used["event"] + used["timer"]

Use(b) ==
  /\ used[b] < Bound[b] /\ AllUsed < MaxUse
  /\ used' = [used EXCEPT ![b] = @ + 1]

Init ==
  /\ crew \in Crews
  /\ queue = [p \in Place |-> 0] /\ active = 0 /\ idle = 0 /\ stopping = FALSE
  /\ pending = 0 /\ ready = 0 /\ timers = 0 /\ due = 0 /\ signal = FALSE
  /\ pc = [t \in Thread |-> IF t \in crew \ {Caller} THEN "scan" ELSE "off"]
  /\ ended = [t \in Thread |-> FALSE]
  /\ got = [t \in Thread |-> 0] /\ drain = {} /\ cbs = [t \in Thread |-> 0]
  /\ control = "open" /\ unheard = FALSE /\ late = FALSE /\ stray = {}
  /\ used = [b \in DOMAIN Bound |-> 0]

Empty == \A p \in Place : queue[p] = 0

At(t, place) == pc[t] = place
Goto(t, place) == pc' = [pc EXCEPT ![t] = place]

(* IOManager::tickle *)
Tickle ==
  /\ signal' = (signal \/ idle > 0)
  /\ unheard' = (unheard \/ (idle = 0 /\ ~Empty))

(* Scheduler::scheduleNoLock for n tasks; schedule() goes on to tickle() if *)
(* the list was empty.                                                      *)
Push(p, n) == queue' = [queue EXCEPT ![p] = @ + n]

(* t does not look at m_fibers again: it is none of the threads of this    *)
(* IOManager, or breaks out of run() after a scan that has found nothing   *)
(* (scheduler.cpp:225-227), or is Caller and stop() does not call run().   *)
Left(t) ==
  \/ t \notin crew
  \/ pc[t] = "exit"
  \/ pc[t] = "passOnThenIdle" /\ ended[t]
  \/ t = Caller /\ control \in {"joining", "stopped"}

(* The thread ids a poster with threads `own` may give schedule(). *)
Pins(own) == own \cup {AnyThread} \cup Foreign

(* schedule(fc, p): any id is taken, that of a thread which has left too. *)
Post(p) ==
  /\ Push(p, 1)
  /\ stray' = IF p # AnyThread /\ Left(p) THEN stray \cup {p} ELSE stray

-----------------------------------------------------------------------------
(* Scheduler::run *)

(* Fault: a thread that leaves tasks behind tells nobody. *)
PassesOnNever(q) == FALSE

(* tickle_me: the scan leaves entries behind. *)
PassesOn(q) == \E p \in Place : q[p] > 0

Take(t) ==
  /\ At(t, "scan")
  /\ \E p \in {t, AnyThread} :
       /\ queue[p] > 0 /\ Push(p, -1)
       /\ active' = active + 1
       /\ Goto(t, IF PassesOn(queue') THEN "passOnThenRun" ELSE "job")
  /\ unheard' = (unheard /\ PassesOn(queue'))
  /\ UNCHANGED <<pending, timers, waitVars, threadVars, stopping, control, late, stray, used>>

(* No task for t: its idle fiber is next, or, if that has ended, run() is. *)
AfterNothing(t) == IF ended[t] THEN "exit" ELSE "idleIn"

(* Fault: a thread whose idle fiber has ended does not look again. *)
FindNothingAtEnd(t) ==
  /\ At(t, "scan")
  /\ ended[t] \/ (queue[t] = 0 /\ queue[AnyThread] = 0)
  /\ Goto(t, IF PassesOn(queue) THEN "passOnThenIdle" ELSE AfterNothing(t))
  /\ UNCHANGED <<workVars, waitVars, threadVars, stopping, control, noted, used>>

FindNothing(t) ==
  /\ At(t, "scan")
  /\ queue[t] = 0 /\ queue[AnyThread] = 0
  /\ Goto(t, IF PassesOn(queue) THEN "passOnThenIdle" ELSE AfterNothing(t))
  /\ UNCHANGED <<workVars, waitVars, threadVars, stopping, control, noted, used>>

(* The places from which tickle() is called, and what comes next. *)
Tickling(t) ==
  [passOnThenRun  |-> "job",
   passOnThenIdle |-> AfterNothing(t),
   jobTickles     |-> "job",
   yieldTickles   |-> "scan",
   timerTickles   |-> "handle",
   eventTickles   |-> "handled"]

CallTickle(t) ==
  /\ pc[t] \in DOMAIN Tickling(t)
  /\ Tickle
  /\ Goto(t, Tickling(t)[pc[t]])
  /\ UNCHANGED <<workVars, ready, due, threadVars, stopping, control, late, stray, used>>

-----------------------------------------------------------------------------
(* What a job does. *)

JobPosts(t) ==
  /\ At(t, "job") /\ Use("post")
  /\ \E p \in Pins({t}) : Post(p)
  /\ Goto(t, IF Empty THEN "jobTickles" ELSE "job")
  /\ UNCHANGED <<active, pending, timers, waitVars, threadVars, stopping, control, unheard, late>>

(* What stopping() has still to read after it found no timer, or no event. *)
After(part) ==
  IF part = "readTimers" THEN {"readEvents", "readTasks", "quiet"} ELSE {"readTasks", "quiet"}

(* Some thread will not look at this part any more before it leaves. *)
Missed(part) ==
  \/ control \in After(part)
  \/ \E t \in Thread : ended[t] \/ pc[t] \in After(part)

(* addEvent, after which the job's fiber yields to HOLD. *)
JobWaits(t) ==
  /\ At(t, "job") /\ Use("event")
  /\ pending' = pending + 1 /\ late' = (late \/ Missed("readEvents"))
  /\ Goto(t, "back")
  /\ UNCHANGED <<queue, active, timers, waitVars, threadVars, stopping, control, unheard, stray>>

(* addTimer; a timer that is the first to expire calls                     *)
(* onTimerInsertedAtFront.                                                 *)
JobAddsTimer(t) ==
  /\ At(t, "job") /\ Use("timer")
  /\ timers' = timers + 1 /\ late' = (late \/ Missed("readTimers"))
  /\ \E front \in BOOLEAN : Goto(t, IF front THEN "jobTickles" ELSE "job")
  /\ UNCHANGED <<queue, active, pending, waitVars, threadVars, stopping, control, unheard, stray>>

JobEnds(t) ==
  /\ At(t, "job")
  /\ Goto(t, "back")
  /\ UNCHANGED <<workVars, waitVars, threadVars, stopping, control, noted, used>>

JobYields(t) ==
  /\ At(t, "job") /\ Use("yield")
  /\ Goto(t, "backReady")
  /\ UNCHANGED <<workVars, waitVars, threadVars, stopping, control, noted>>

(* Back in run(): the count goes down before a READY fiber is on the list. *)
CountDown(t) ==
  /\ pc[t] \in {"back", "backReady"}
  /\ active' = active - 1
  /\ Goto(t, IF At(t, "back") THEN "scan" ELSE "requeue")
  /\ UNCHANGED <<queue, pending, timers, waitVars, threadVars, stopping, control, noted, used>>

Requeue(t) ==
  /\ At(t, "requeue")
  /\ Push(AnyThread, 1)
  /\ Goto(t, IF Empty THEN "yieldTickles" ELSE "scan")
  /\ UNCHANGED <<active, pending, timers, waitVars, threadVars, stopping, control, noted, used>>

-----------------------------------------------------------------------------
(* IOManager::idle *)

IdleIn(t) ==
  /\ At(t, "idleIn")
  /\ idle' = idle + 1
  /\ Goto(t, "readTimers")
  /\ UNCHANGED <<workVars, waitVars, ended, got, drain, cbs, stopping, control, noted, used>>

(* IOManager::stopping, in the order of its conjuncts. *)
Quiet(part) ==
  CASE part = "readTimers" -> timers = 0
    [] part = "readEvents" -> pending = 0
    [] part = "readTasks"  -> stopping /\ Empty /\ active = 0

NextPart(part) ==
  CASE part = "readTimers" -> "readEvents"
    [] part = "readEvents" -> "readTasks"
    [] part = "readTasks"  -> "quiet"

Part == {"readTimers", "readEvents", "readTasks"}

CheckStopping(t) ==
  /\ pc[t] \in Part
  /\ Goto(t, IF Quiet(pc[t]) THEN NextPart(pc[t]) ELSE "epoll")
  /\ UNCHANGED <<workVars, waitVars, threadVars, stopping, control, noted, used>>

(* Fault: epoll_wait has no timeout but that of the next timer. *)
TimesOutLate == due > 0

(* MAX_TIMEOUT: epoll_wait returns after 3 s in any case. *)
TimesOut == TRUE

(* Fault: events are reported until they have been handled (no EPOLLET). *)
EpollWaitLevel(t) ==
  /\ At(t, "epoll")
  /\ got' = [got EXCEPT ![t] = ready]
  /\ drain' = IF signal THEN drain \cup {t} ELSE drain
  /\ Goto(t, "expire")
  /\ UNCHANGED <<workVars, waitVars, idle, ended, cbs, stopping, control, noted, used>>

EpollWait(t) ==
  /\ At(t, "epoll")
  /\ signal \/ ready > 0 \/ TimesOut
  /\ got' = [got EXCEPT ![t] = ready]
  /\ ready' = 0 /\ signal' = FALSE
  /\ drain' = IF signal THEN drain \cup {t} ELSE drain
  /\ Goto(t, "expire")
  /\ UNCHANGED <<workVars, due, idle, ended, cbs, stopping, control, noted, used>>

(* Fault: expired timers are taken from m_timers and stay due. *)
ExpireAgain(t) ==
  /\ At(t, "expire")
  /\ timers' = timers - due
  /\ cbs' = [cbs EXCEPT ![t] = due]
  /\ Goto(t, IF due > 0 THEN "scheduleExpired" ELSE "handle")
  /\ UNCHANGED <<queue, active, pending, waitVars, idle, ended, got, drain, stopping,
                 control, noted, used>>

(* listExpiredCb takes the expired timers out of m_timers; their callbacks *)
(* are then in a vector of this thread alone, until schedule() has them.   *)
Expire(t) ==
  /\ At(t, "expire")
  /\ timers' = timers - due /\ due' = 0
  /\ cbs' = [cbs EXCEPT ![t] = due]
  /\ Goto(t, IF due > 0 THEN "scheduleExpired" ELSE "handle")
  /\ UNCHANGED <<queue, active, pending, ready, signal, idle, ended, got, drain, stopping,
                 control, noted, used>>

ScheduleExpired(t) ==
  /\ At(t, "scheduleExpired")
  /\ Push(AnyThread, cbs[t])
  /\ cbs' = [cbs EXCEPT ![t] = 0]
  /\ Goto(t, IF Empty THEN "timerTickles" ELSE "handle")
  /\ UNCHANGED <<active, pending, timers, waitVars, idle, ended, got, drain, stopping, control,
                 noted, used>>

(* The pipe is read until it is empty: an edge another thread was to have *)
(* goes with it.                                                           *)
Drain(t) ==
  /\ At(t, "handle") /\ t \in drain
  /\ drain' = drain \ {t} /\ signal' = FALSE
  /\ UNCHANGED <<workVars, ready, due, idle, ended, got, cbs, pc, stopping, control,
                 noted, used>>

(* triggerEvent, then --m_pendingEventCount, for each report. *)
Handle(t) ==
  /\ At(t, "handle") /\ got[t] > 0
  /\ Push(AnyThread, 1)
  /\ Goto(t, IF Empty THEN "eventTickles" ELSE "handled")
  /\ UNCHANGED <<active, pending, timers, waitVars, threadVars, stopping, control, noted, used>>

(* Fault: m_pendingEventCount is not taken back. *)
HandledKeeping(t) ==
  /\ At(t, "handled")
  /\ got' = [got EXCEPT ![t] = @ - 1]
  /\ Goto(t, "handle")
  /\ UNCHANGED <<workVars, waitVars, idle, ended, drain, cbs, stopping, control, noted, used>>

Handled(t) ==
  /\ At(t, "handled")
  /\ pending' = pending - 1
  /\ got' = [got EXCEPT ![t] = @ - 1]
  /\ Goto(t, "handle")
  /\ UNCHANGED <<queue, active, timers, waitVars, idle, ended, drain, cbs, stopping, control,
                 noted, used>>

(* The idle fiber swaps out after the reports, or ends with the loop. *)
IdleOut(t) ==
  /\ At(t, "quiet") \/ (At(t, "handle") /\ got[t] = 0 /\ t \notin drain)
  /\ idle' = idle - 1
  /\ ended' = [ended EXCEPT ![t] = At(t, "quiet")]
  /\ Goto(t, "scan")
  /\ UNCHANGED <<workVars, waitVars, got, drain, cbs, stopping, control, noted, used>>

-----------------------------------------------------------------------------
(* The outside: armed events become ready, timers expire. *)

(* Reports threads have taken and not handled. *)
Reports(n) == UNION {{t} \X (1 .. n[t]) : t \in Thread}

Reported == Cardinality(Reports(got))

EventReady ==
  /\ ready + Reported < pending
  /\ ready' = ready + 1
  /\ UNCHANGED <<crew, workVars, due, signal, threadVars, pc, stopping, control, noted, used>>

TimerExpires ==
  /\ due < timers
  /\ due' = due + 1
  /\ UNCHANGED <<crew, workVars, ready, signal, threadVars, pc, stopping, control, noted, used>>

-----------------------------------------------------------------------------
(* The thread that owns the IOManager: it schedules, then ~IOManager calls *)
(* stop().                                                                 *)

ProgramPosts ==
  /\ control = "open" /\ Use("post")
  /\ \E p \in Pins(crew) : Post(p)
  /\ control' = IF Empty THEN "tickling" ELSE "open"
  /\ UNCHANGED <<crew, active, pending, timers, waitVars, threadVars, pc, stopping, unheard, late>>

ProgramTickles ==
  /\ control = "tickling"
  /\ Tickle
  /\ control' = "open"
  /\ UNCHANGED <<crew, workVars, ready, due, threadVars, pc, stopping, late, stray, used>>

(* stop() sets its flags and calls tickle() once for each thread: bytes    *)
(* nobody has read make one edge.                                          *)
StopBegin ==
  /\ control = "open"
  /\ stopping' = TRUE
  /\ Tickle
  /\ control' = IF Caller \in crew THEN "readTimers" ELSE "joining"
  /\ UNCHANGED <<workVars, ready, due, threadVars, pc, late, stray, used>>

(* With use_caller stop() asks stopping() itself, and helps if it says no. *)
StopChecks ==
  /\ control \in Part
  /\ IF Quiet(control)
     THEN /\ control' = IF control = "readTasks" THEN "joining" ELSE NextPart(control)
          /\ UNCHANGED pc
     ELSE control' = "calling" /\ Goto(Caller, "scan")
  /\ UNCHANGED <<workVars, waitVars, threadVars, stopping, noted, used>>

CallReturns ==
  /\ control = "calling" /\ At(Caller, "exit")
  /\ control' = "joining"
  /\ UNCHANGED <<workVars, waitVars, threadVars, pc, stopping, noted, used>>

StopJoins ==
  /\ control = "joining"
  /\ \A w \in crew \ {Caller} : At(w, "exit")
  /\ control' = "stopped"
  /\ UNCHANGED <<workVars, waitVars, threadVars, pc, stopping, noted, used>>

-----------------------------------------------------------------------------
Job(t) == JobPosts(t) \/ JobWaits(t) \/ JobAddsTimer(t) \/ JobEnds(t) \/ JobYields(t)

Run(t) ==
  /\ \/ Take(t) \/ FindNothing(t) \/ CallTickle(t)
     \/ Job(t) \/ CountDown(t) \/ Requeue(t)
     \/ IdleIn(t) \/ CheckStopping(t) \/ EpollWait(t) \/ Expire(t) \/ ScheduleExpired(t)
     \/ Drain(t) \/ Handle(t) \/ Handled(t) \/ IdleOut(t)
  /\ UNCHANGED crew

Stop == (StopBegin \/ StopChecks \/ CallReturns \/ StopJoins) /\ UNCHANGED crew

Outside == EventReady \/ TimerExpires

Next ==
  \/ \E t \in Thread : Run(t)
  \/ Outside
  \/ ProgramPosts \/ ProgramTickles \/ Stop

Over == control = "stopped" /\ UNCHANGED vars

Spec == Init /\ [][Next \/ Over]_vars

(* Every thread is run, what was armed arrives, and the program goes on to *)
(* stop().                                                                 *)
FairSpec ==
  /\ Spec
  /\ \A t \in Thread : WF_vars(Run(t))
  /\ WF_vars(EventReady) /\ WF_vars(TimerExpires)
  /\ WF_vars(ProgramTickles \/ Stop)

-----------------------------------------------------------------------------
(* Properties. *)

(* Every variable stays within the values the program gives it: the two    *)
(* counts of threads and the two of armed things never fall below zero,    *)
(* for no timer is taken out twice and no thread handles a report of an    *)
(* event that another has handled.                                         *)
TypeOK ==
  /\ crew \in Crews
  /\ queue \in [Place -> Nat] /\ active \in Nat /\ idle \in Nat
  /\ stopping \in BOOLEAN /\ ready \in Nat /\ pending \in Nat
  /\ timers \in Nat /\ due \in 0 .. timers /\ signal \in BOOLEAN
  /\ pc \in [Thread -> {"off", "scan", "job", "back", "backReady", "requeue", "idleIn", "epoll",
                        "expire", "scheduleExpired", "handle", "handled", "quiet", "exit",
                        "passOnThenRun", "passOnThenIdle", "jobTickles", "yieldTickles",
                        "timerTickles", "eventTickles"} \cup Part]
  /\ ended \in [Thread -> BOOLEAN] /\ got \in [Thread -> Nat] /\ drain \subseteq Thread
  /\ cbs \in [Thread -> Nat]
  /\ control \in {"open", "tickling", "calling", "joining", "stopped"} \cup Part
  /\ ready + Reported <= pending
  /\ unheard \in BOOLEAN /\ late \in BOOLEAN /\ stray \subseteq Thread
  /\ used \in [DOMAIN Bound -> Nat]

(* stop() returns only when no task is queued, no job runs, no event and   *)
(* no timer is armed, although the threads that leave read the four at     *)
(* four moments, and an expired callback is for a while in none of them.   *)
(* What it may leave is a task for a thread that had left when it was      *)
(* scheduled (scheduler.h:38), and what a job arms after a thread that     *)
(* leaves has read that part of stopping() (iomanager.cpp:315-317,         *)
(* scheduler.cpp:225).                                                     *)
StopLeavesOnlyLate ==
  control = "stopped" =>
    /\ \A p \in Place : queue[p] > 0 => p \in stray
    /\ active = 0
    /\ late \/ (pending = 0 /\ timers = 0)

(* Tasks do not wait while every thread sleeps in epoll_wait, unless a     *)
(* tickle() came when nobody was counted idle: run() counts a thread idle  *)
(* only after it has looked for tasks (scheduler.cpp:176, 230).            *)
Asleep(t) == pc[t] \in {"epoll", "exit", "off"}

OnlyUnheardWait ==
  ~Empty /\ (\A t \in Thread : Asleep(t)) /\ (\E t \in Thread : At(t, "epoll"))
    => signal \/ unheard \/ control = "tickling"

(* stop() returns once all that was armed has come, whatever tickles were  *)
(* lost on the way, unless stopping() is kept false by a task scheduled    *)
(* for a thread that had left (scheduler.h:38).  By StopLeavesOnlyLate all *)
(* other tasks have then been taken.                                       *)
StopReturns == stopping ~> control = "stopped" \/ stray # {}
=============================================================================

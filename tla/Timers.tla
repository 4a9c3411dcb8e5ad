------------------------------- MODULE Timers -------------------------------
(***************************************************************************)
(* Timers of an IOManager (timer.cpp), threads that add, cancel, refresh   *)
(* and reset them, and the threads in IOManager::idle() that sleep until   *)
(* the first of them and then schedule the callbacks of those that have    *)
(* expired.                                                                *)
(*                                                                         *)
(* The private addTimer, getNextTimer and listExpiredCb are declared and   *)
(* have no body: they are modelled by what timer.cpp and idle() use them   *)
(* for.  m_timers is ordered by m_next: key[x] is the m_next with which x  *)
(* went in, by which the set finds it.  A call that finds the timer ended  *)
(* returns false and changes nothing: it is not a step.                    *)
(***************************************************************************)
EXTENDS Naturals, FiniteSets

CONSTANTS
  Timer,       \* Timer objects: their addresses
  User,        \* threads that call the timers
  Poller,      \* threads in idle()
  Period,      \* the values of ms
  MaxTimeout,  \* MAX_TIMEOUT of idle()
  MaxTime,     \* bound: the clock
  MaxCall      \* bound: calls of the users

ASSUME TimersAssumption ==
  /\ Timer \subseteq Nat /\ IsFiniteSet(Timer) /\ Poller # {} /\ Period \subseteq Nat
  /\ MaxTimeout \in Nat /\ MaxTime \in Nat /\ MaxCall \in Nat

VARIABLES
  now,        \* the clock
  timers,     \* m_timers
  key,        \* key[x]: m_next of x when it went into m_timers
  next,       \* m_next of each timer
  ms,         \* m_ms
  recurring,  \* the timers with m_recurring
  made,       \* the timers constructed
  known,      \* the timers addTimer has returned
  live,       \* the timers with m_cb
  call,       \* call[u]: the call user u is in, between two sections of it
  signal,     \* the read end of the pipe has an edge to report
  pc,         \* pc[p]: where thread p is in idle()
  until,      \* until[p]: when p leaves epoll_wait if nothing happens
  calls,      \* calls made so far
  ran,        \* history: the timers whose callback was scheduled,
  twice,      \* and those for which it was more than once
  cancelled   \* history: the timers of which cancel() returned true

timerVars == <<timers, key, next, ms, live>>
pollVars == <<pc, until, ran, twice>>
vars == <<now, timerVars, recurring, made, known, call, signal, pollVars, calls, cancelled>>

NoCall == [kind |-> "none"]

Init ==
  /\ now = 0 /\ timers = {} /\ signal = FALSE /\ calls = 0
  /\ key = [x \in Timer |-> 0] /\ next = [x \in Timer |-> 0] /\ ms = [x \in Timer |-> 0]
  /\ recurring = {} /\ made = {} /\ known = {} /\ live = {}
  /\ call = [u \in User |-> NoCall]
  /\ pc = [p \in Poller |-> "top"] /\ until = [p \in Poller |-> 0]
  /\ ran = {} /\ twice = {} /\ cancelled = {}

Asleep(p) == pc[p] = "asleep"

(* Fault: nobody is told of a timer that comes before the others. *)
InsertedSilently == UNCHANGED signal

(* tickle(), which writes a byte if a thread is idle. *)
OnTimerInsertedAtFront ==
  signal' \in IF \E p \in Poller : Asleep(p) THEN {TRUE} ELSE {signal, TRUE}

(* The order of m_timers: x, due at d, comes before y. *)
Before(x, d, y) == d < next[y] \/ (d = next[y] /\ x < y)

(* The private addTimer, under the lock: x, due at time d, joins others. *)
AddTimer(x, d, others) ==
  /\ timers' = others \cup {x}
  /\ key' = [key EXCEPT ![x] = d]
  /\ IF \A y \in others : Before(x, d, y)
     THEN OnTimerInsertedAtFront
     ELSE UNCHANGED signal

Found(x) == x \in timers /\ key[x] = next[x]

Begins(u) == call[u] = NoCall /\ calls < MaxCall /\ calls' = calls + 1
Returns(u) == call' = [call EXCEPT ![u] = NoCall]

-----------------------------------------------------------------------------
(* Timer and TimerManager *)

(* The constructor reads the clock before addTimer takes the lock. *)
Construct(u, x, m, again) ==
  /\ Begins(u) /\ x \notin made
  /\ made' = made \cup {x} /\ live' = live \cup {x}
  /\ ms' = [ms EXCEPT ![x] = m]
  /\ next' = [next EXCEPT ![x] = now + m]
  /\ recurring' = IF again THEN recurring \cup {x} ELSE recurring
  /\ call' = [call EXCEPT ![u] = [kind |-> "add", timer |-> x]]
  /\ UNCHANGED <<now, timers, key, known, signal, pollVars, cancelled>>

Insert(u) ==
  /\ call[u].kind = "add"
  /\ AddTimer(call[u].timer, next[call[u].timer], timers)
  /\ known' = known \cup {call[u].timer}
  /\ Returns(u)
  /\ UNCHANGED <<now, next, ms, live, recurring, made, pollVars, calls, cancelled>>

(* Fault: m_cb is not looked at. *)
CancelUnchecked(u, x) ==
  /\ Begins(u) /\ x \in known
  /\ live' = live \ {x} /\ timers' = timers \ {x}
  /\ cancelled' = cancelled \cup {x}
  /\ UNCHANGED <<now, key, next, ms, recurring, made, known, call, signal, pollVars>>

Cancel(u, x) ==
  /\ Begins(u) /\ x \in known \cap live
  /\ live' = live \ {x} /\ timers' = timers \ {x}
  /\ cancelled' = cancelled \cup {x}
  /\ UNCHANGED <<now, key, next, ms, recurring, made, known, call, signal, pollVars>>

(* Fault: the timer gets its new time while it is in the set. *)
RefreshInPlace(u, x) ==
  /\ Begins(u) /\ x \in known \cap live /\ Found(x)
  /\ next' = [next EXCEPT ![x] = now + ms[x]]
  /\ UNCHANGED <<now, timers, key, ms, live, recurring, made, known, call, signal, pollVars,
                 cancelled>>

(* Fault: the period is added to the time that was set. *)
RefreshAgain(u, x) ==
  /\ Begins(u) /\ x \in known \cap live /\ Found(x)
  /\ next' = [next EXCEPT ![x] = @ + ms[x]]
  /\ key' = [key EXCEPT ![x] = next[x] + ms[x]]
  /\ UNCHANGED <<now, timers, ms, live, recurring, made, known, call, signal, pollVars,
                 cancelled>>

(* Out of the set and into it again; nobody is told. *)
Refresh(u, x) ==
  /\ Begins(u) /\ x \in known \cap live /\ Found(x)
  /\ next' = [next EXCEPT ![x] = now + ms[x]]
  /\ key' = [key EXCEPT ![x] = now + ms[x]]
  /\ UNCHANGED <<now, timers, ms, live, recurring, made, known, call, signal, pollVars,
                 cancelled>>

(* reset(m, fromNow) begins, before the lock, with (ms = m_ms && !from_now): *)
(* true, it ends the call; false, it has put 0 into ms, whatever m was.     *)
ResetBegins(u, x, fromNow) ==
  /\ Begins(u) /\ x \in known /\ (fromNow \/ ms[x] = 0)
  /\ call' = [call EXCEPT ![u] = [kind |-> "reset", timer |-> x, fromNow |-> fromNow]]
  /\ UNCHANGED <<now, timerVars, recurring, made, known, signal, pollVars, cancelled>>

Reset(u) ==
  /\ call[u].kind = "reset"
  /\ Returns(u)
  /\ LET x == call[u].timer
         m == 0
         d == (IF call[u].fromNow THEN now ELSE next[x] - ms[x]) + m
     IN IF x \in live /\ Found(x)
        THEN /\ AddTimer(x, d, timers \ {x})
             /\ ms' = [ms EXCEPT ![x] = m] /\ next' = [next EXCEPT ![x] = d]
        ELSE UNCHANGED <<timers, key, ms, next, signal>>
  /\ UNCHANGED <<now, live, recurring, made, known, pollVars, calls, cancelled>>

-----------------------------------------------------------------------------
(* IOManager::idle() *)

(* getNextTimer and the timeout of epoll_wait, without the time that passes *)
(* between the two.                                                         *)
Sleep(p) ==
  /\ pc[p] = "top"
  /\ \E d \in {next[x] : x \in timers} \cup {now + MaxTimeout} :
       /\ d <= now + MaxTimeout /\ \A x \in timers : d <= next[x]
       /\ until' = [until EXCEPT ![p] = d]
  /\ pc' = [pc EXCEPT ![p] = "asleep"]
  /\ UNCHANGED <<now, timerVars, recurring, made, known, call, signal, calls, ran, twice, cancelled>>

Wake(p) ==
  /\ Asleep(p) /\ (signal \/ until[p] <= now)
  /\ signal' = FALSE
  /\ pc' = [pc EXCEPT ![p] = IF signal THEN "expireThenDrain" ELSE "expire"]
  /\ until' = [until EXCEPT ![p] = 0]
  /\ UNCHANGED <<now, timerVars, recurring, made, known, call, calls, ran, twice, cancelled>>

Expired == {x \in timers : next[x] <= now}

(* listExpiredCb: a recurring timer stays with a new time, another is over. *)
(* The callbacks are this thread's until schedule() has them.               *)
Expire(p) ==
  /\ pc[p] \in {"expire", "expireThenDrain"}
  /\ timers' = timers \ (Expired \ recurring)
  /\ live' = live \ (Expired \ recurring)
  /\ next' = [x \in Timer |-> IF x \in Expired \cap recurring THEN now + ms[x] ELSE next[x]]
  /\ key' = [x \in Timer |-> IF x \in Expired \cap recurring THEN now + ms[x] ELSE key[x]]
  /\ ran' = ran \cup Expired /\ twice' = twice \cup (ran \cap Expired)
  /\ pc' = [pc EXCEPT ![p] = IF @ = "expire" THEN "top" ELSE "drain"]
  /\ UNCHANGED <<now, ms, recurring, made, known, call, signal, until, calls, cancelled>>

(* The pipe is read until it is empty, and an edge nobody has seen goes too. *)
Drain(p) ==
  /\ pc[p] = "drain"
  /\ signal' = FALSE
  /\ pc' = [pc EXCEPT ![p] = "top"]
  /\ UNCHANGED <<now, timerVars, recurring, made, known, call, until, calls, ran, twice, cancelled>>

-----------------------------------------------------------------------------
Tick ==
  /\ now < MaxTime /\ now' = now + 1
  /\ UNCHANGED <<timerVars, recurring, made, known, call, signal, pollVars, calls, cancelled>>

Calls(u) ==
  \E x \in Timer :
    \/ \E m \in Period, b \in BOOLEAN : Construct(u, x, m, b)
    \/ \E b \in BOOLEAN : ResetBegins(u, x, b)
    \/ Cancel(u, x) \/ Refresh(u, x)

GoesOn(u) == Insert(u) \/ Reset(u)
Poll(p) == Sleep(p) \/ Wake(p) \/ Expire(p) \/ Drain(p)

Next ==
  \/ \E u \in User : Calls(u) \/ GoesOn(u)
  \/ \E p \in Poller : Poll(p)
  \/ Tick

Spec == Init /\ [][Next]_vars

(* Time passes, and the system runs a thread that can go on. *)
FairSpec ==
  /\ Spec /\ WF_vars(Tick)
  /\ \A u \in User : WF_vars(GoesOn(u))
  /\ \A p \in Poller : WF_vars(Poll(p))

-----------------------------------------------------------------------------
(* Properties. *)

Call ==
  {NoCall} \cup [kind : {"add"}, timer : Timer]
    \cup [kind : {"reset"}, timer : Timer, fromNow : BOOLEAN]

(* Every variable keeps its type.  No timer is ever set to more than its   *)
(* own period from now, so refresh() never brings one forward, and the     *)
(* start reset() computes (timer.cpp:97) does not go below zero.           *)
TypeOK ==
  /\ now \in 0 .. MaxTime /\ calls \in 0 .. MaxCall /\ signal \in BOOLEAN
  /\ ms \in [Timer -> Period \cup {0}] /\ key \in [Timer -> Nat] /\ next \in [Timer -> Nat]
  /\ \A x \in Timer : ms[x] <= next[x] /\ next[x] <= now + ms[x]
  /\ recurring \subseteq made /\ known \subseteq made /\ live \subseteq made
  /\ made \subseteq Timer /\ timers \subseteq Timer
  /\ call \in [User -> Call]
  /\ pc \in [Poller -> {"top", "asleep", "expire", "expireThenDrain", "drain"}]
  /\ until \in [Poller -> Nat]
  /\ ran \subseteq Timer /\ twice \subseteq Timer /\ cancelled \subseteq Timer

(* A timer that is still to run is in m_timers where the set looks for it, *)
(* and no other is: so cancel() erases what it found without a test        *)
(* (timer.cpp:49-50), and no call of refresh or reset loses a timer.       *)
InSet ==
  /\ timers = known \cap live
  /\ \A x \in timers : Found(x)

(* A timer that does not recur is run once or cancelled, never both,       *)
(* however cancel() races with its expiry (timer.cpp:46, iomanager.cpp:361). *)
OnceOrCancelled ==
  /\ twice \subseteq recurring
  /\ ran \cap cancelled \subseteq recurring

Watches(p) == ~Asleep(p) \/ \A x \in timers : until[p] <= next[x]

(* No timer is slept past: some thread of idle() is on its way to look at  *)
(* the timers, will be woken, or waits no longer than the first of them.   *)
(* refresh() tells nobody and need not, reset() does (timer.cpp:69, 101).  *)
Watched == timers # {} => signal \/ \E p \in Poller : Watches(p)

(* Every timer that is due while the clock runs expires, whatever was      *)
(* inserted before or after it while the threads slept (iomanager.cpp:361). *)
Expires ==
  \A x \in Timer :
    (x \in timers \ recurring /\ next[x] <= MaxTime) ~> (x \notin timers \/ next[x] > MaxTime)
=============================================================================

---------------------------- MODULE TimersProofs ----------------------------
(***************************************************************************)
(* For any timers, users, pollers and bounds: what Timers calls its        *)
(* invariants.  A timer of an addTimer call is that call's alone until it  *)
(* is in the set, and one that has run out or was cancelled has lost its   *)
(* callback for good: with these two the invariants are inductive.         *)
(***************************************************************************)
EXTENDS Timers, TLAPS

-----------------------------------------------------------------------------
(* The inductive invariant. *)

Adds(u) == call[u].kind = "add"

(* The timer an addTimer call is about to insert is known to no other. *)
Adding ==
  \A u \in User :
    Adds(u) => /\ call[u].timer \in live \ known
               /\ \A v \in User : Adds(v) /\ call[v].timer = call[u].timer => v = u

(* A timer that is over has no callback, and never gets one again. *)
Over == (ran \ recurring) \cup cancelled \subseteq made \ live

Inv == TypeOK /\ InSet /\ Adding /\ Over /\ OnceOrCancelled /\ Watched

-----------------------------------------------------------------------------
LEMMA Times ==
  ASSUME TypeOK
  PROVE  /\ now \in Nat
         /\ \A x \in Timer : /\ ms[x] \in Nat /\ next[x] \in Nat
                             /\ ms[x] <= next[x] /\ next[x] <= now + ms[x]
<1>1. Period \cup {0} \subseteq Nat
  BY TimersAssumption
<1>2. \A x \in Timer : ms[x] \in Period \cup {0}
  BY DEF TypeOK
<1>3. now \in Nat
  BY TimersAssumption DEF TypeOK
<1>4. QED
  BY <1>1, <1>2, <1>3 DEF TypeOK

LEMMA InvInit == Init => Inv
<1> SUFFICES ASSUME Init PROVE Inv
  OBVIOUS
<1> USE TimersAssumption DEF Init
<1>1. TypeOK
  <2>1. call \in [User -> Call]
    BY DEF Call
  <2>2. ms \in [Timer -> Period \cup {0}] /\ key \in [Timer -> Nat] /\ next \in [Timer -> Nat]
    OBVIOUS
  <2>3. \A x \in Timer : ms[x] <= next[x] /\ next[x] <= now + ms[x]
    OBVIOUS
  <2>4. signal \in BOOLEAN
    BY Zenon
  <2>5. QED
    BY <2>1, <2>2, <2>3, <2>4 DEF TypeOK
<1>2. InSet /\ Over /\ OnceOrCancelled /\ Watched
  BY DEF InSet, Over, OnceOrCancelled, Watched
<1>3. Adding
  BY DEF Adding, Adds, NoCall
<1>4. QED
  BY <1>1, <1>2, <1>3 DEF Inv

(* addTimer wakes a thread whenever what it inserts comes before what they *)
(* wait for.                                                               *)
LEMMA AddTimerWatched ==
  ASSUME TypeOK, Watched, NEW x \in Timer, NEW d \in Nat,
         NEW others \in SUBSET (timers \ {x}),
         AddTimer(x, d, others), next' = [next EXCEPT ![x] = d],
         UNCHANGED <<pc, until>>
  PROVE  Watched' /\ signal' \in BOOLEAN
<1> USE TimersAssumption
<1> DEFINE Front == \A y \in others : Before(x, d, y)
<1>1. /\ timers' = others \cup {x}
      /\ Front => OnTimerInsertedAtFront
      /\ ~Front => UNCHANGED signal
  BY DEF AddTimer
<1>2. signal' \in BOOLEAN
  BY <1>1 DEF TypeOK, OnTimerInsertedAtFront
<1>3. CASE Front
  <2>1. CASE \E p \in Poller : Asleep(p)
    <3>1. signal' \in {TRUE}
      BY <1>1, <1>3, <2>1, Zenon DEF OnTimerInsertedAtFront
    <3>2. QED
      BY <3>1, <1>2, Zenon DEF Watched
  <2>2. CASE \A p \in Poller : ~Asleep(p)
    <3>1. \E p \in Poller : Watches(p)'
      BY <2>2 DEF Watches, Asleep
    <3>2. QED
      BY <3>1, <1>2, Zenon DEF Watched
  <2>3. QED
    BY <2>1, <2>2
<1>4. CASE ~Front
  <2>1. PICK y \in others : next[y] <= d
    BY <1>4 DEF TypeOK, Before
  <2>2. CASE signal
    <3>1. signal'
      BY <1>1, <1>4, <2>2, Zenon
    <3>2. QED
      BY <3>1, <1>2, Zenon DEF Watched
  <2>3. CASE \E p \in Poller : Watches(p)
    <3>1. PICK p \in Poller : Watches(p)
      BY <2>3
    <3>2. ~Asleep(p) => Watches(p)'
      BY DEF Watches, Asleep
    <3>3. ASSUME \A z \in timers : until[p] <= next[z]
          PROVE  Watches(p)'
      <4>1. until[p] \in Nat /\ next[y] \in Nat /\ until[p] <= next[y]
        BY <2>1, <3>3 DEF TypeOK
      <4>2. until[p] <= d
        BY <2>1, <4>1
      <4>3. \A z \in timers' : until'[p] <= next'[z]
        BY <1>1, <3>3, <4>2 DEF TypeOK
      <4>4. QED
        BY <4>3 DEF Watches
    <3>4. Watches(p)'
      BY <3>1, <3>2, <3>3 DEF Watches
    <3>5. QED
      BY <3>4, <1>2, Zenon DEF Watched
  <2>4. signal \/ \E p \in Poller : Watches(p)
    BY <2>1, Zenon DEF Watched
  <2>5. QED
    BY <2>2, <2>3, <2>4, <1>2, Zenon
<1>5. QED
  BY <1>2, <1>3, <1>4, Zenon

(* What takes timers away or puts them off lets no thread sleep too long. *)
LEMMA WatchedKept ==
  ASSUME TypeOK, Watched, timers' \subseteq timers,
         \A x \in timers' : next'[x] \in Nat /\ next[x] <= next'[x],
         UNCHANGED <<signal, pc, until>>
  PROVE  Watched'
<1>1. CASE timers' = {}
  BY <1>1, Zenon DEF Watched
<1>2. CASE timers' # {} /\ signal
  BY <1>2, Zenon DEF Watched
<1>3. CASE timers' # {} /\ ~signal
  <2>1. PICK p \in Poller : Watches(p)
    BY <1>3, Zenon DEF Watched
  <2>2. Watches(p)'
    <3>1. ASSUME NEW x \in timers', \A y \in timers : until[p] <= next[y]
          PROVE  until'[p] <= next'[x]
      <4>1. until[p] \in Nat /\ next[x] \in Nat /\ until[p] <= next[x]
        BY <3>1 DEF TypeOK
      <4>2. QED
        BY <4>1
    <3>2. QED
      BY <2>1, <3>1 DEF Watches, Asleep
  <2>3. QED
    BY <2>2, Zenon DEF Watched
<1>4. QED
  BY <1>1, <1>2, <1>3, Zenon

LEMMA WatchedBy ==
  ASSUME NEW p \in Poller, Watches(p)'
  PROVE  Watched'
BY Zenon DEF Watched

-----------------------------------------------------------------------------
(* The calls. *)

LEMMA ConstructKeeps ==
  ASSUME Inv, NEW u \in User, NEW x \in Timer, NEW m \in Period, NEW b \in BOOLEAN,
         Construct(u, x, m, b)
  PROVE  Inv'
<1> USE TimersAssumption DEF Construct, Begins, timerVars, pollVars
<1>0. TypeOK /\ InSet /\ Adding /\ Over /\ OnceOrCancelled /\ Watched /\ m \in Nat /\ now \in Nat
  BY DEF Inv, TypeOK
<1>1. x \notin made \cup known \cup live \cup timers
  BY <1>0 DEF TypeOK, InSet
<1>2. TypeOK'
  <2>1. call' \in [User -> Call]
    BY <1>0 DEF TypeOK, Call
  <2>2. \A y \in Timer : ms'[y] <= next'[y] /\ next'[y] <= now' + ms'[y]
    BY <1>0 DEF TypeOK
  <2>3. /\ ms' \in [Timer -> Period \cup {0}] /\ key' \in [Timer -> Nat]
        /\ next' \in [Timer -> Nat]
    BY <1>0 DEF TypeOK
  <2>4. signal' \in BOOLEAN
    BY <1>0, Zenon DEF TypeOK
  <2>5. QED
    BY <1>0, <2>1, <2>2, <2>3, <2>4 DEF TypeOK
<1>3. InSet'
  BY <1>0, <1>1 DEF InSet, Found, TypeOK
<1>4. Adding'
  BY <1>0, <1>1 DEF Adding, Adds, NoCall, TypeOK
<1>5. Over'
  BY <1>0, <1>1 DEF Over, TypeOK
<1>6. OnceOrCancelled'
  BY <1>0 DEF OnceOrCancelled
<1>7. Watched'
  <2>1. \A y \in timers' : next'[y] \in Nat /\ next[y] <= next'[y]
    BY <1>0, <1>1 DEF TypeOK
  <2>2. QED
    BY <1>0, <2>1, WatchedKept
<1>8. QED
  BY <1>2, <1>3, <1>4, <1>5, <1>6, <1>7 DEF Inv

LEMMA InsertKeeps ==
  ASSUME Inv, NEW u \in User, Insert(u)
  PROVE  Inv'
<1> DEFINE x == call[u].timer
<1> USE TimersAssumption
<1>0. TypeOK /\ InSet /\ Adding /\ Over /\ OnceOrCancelled /\ Watched
  BY DEF Inv
<1>1. /\ Adds(u) /\ AddTimer(x, next[x], timers) /\ known' = known \cup {x}
      /\ call' = [call EXCEPT ![u] = NoCall]
      /\ UNCHANGED <<now, next, ms, live, recurring, made, pc, until, ran, twice, calls,
                     cancelled>>
  BY DEF Insert, Adds, Returns, pollVars
<1>2. x \in live \ known /\ x \in Timer /\ next[x] \in Nat
  BY <1>0, <1>1 DEF Adding, TypeOK
<1>3. timers' = timers \cup {x} /\ key' = [key EXCEPT ![x] = next[x]]
  BY <1>1 DEF AddTimer
<1>4. Watched' /\ signal' \in BOOLEAN
  <2>1. next' = [next EXCEPT ![x] = next[x]]
    BY <1>0, <1>1, <1>2 DEF TypeOK
  <2>2. timers \in SUBSET (timers \ {x})
    BY <1>0, <1>2 DEF InSet
  <2>3. QED
    BY <1>0, <1>1, <1>2, <2>1, <2>2, AddTimerWatched
<1>5. TypeOK'
  <2>1. call' \in [User -> Call] /\ key' \in [Timer -> Nat]
    BY <1>0, <1>1, <1>2, <1>3 DEF TypeOK, Call
  <2>2. QED
    BY <1>0, <1>1, <1>2, <1>3, <1>4, <2>1 DEF TypeOK
<1>6. InSet'
  BY <1>0, <1>1, <1>2, <1>3 DEF InSet, Found, TypeOK
<1>7. Adding'
  BY <1>0, <1>1, <1>2 DEF Adding, Adds, NoCall, TypeOK
<1>8. Over' /\ OnceOrCancelled'
  BY <1>0, <1>1 DEF Over, OnceOrCancelled
<1>9. QED
  BY <1>4, <1>5, <1>6, <1>7, <1>8 DEF Inv

LEMMA CancelKeeps ==
  ASSUME Inv, NEW u \in User, NEW x \in Timer, Cancel(u, x)
  PROVE  Inv'
<1> USE TimersAssumption DEF Cancel, Begins, pollVars
<1>0. TypeOK /\ InSet /\ Adding /\ Over /\ OnceOrCancelled /\ Watched
  BY DEF Inv
<1>1. TypeOK'
  BY <1>0 DEF TypeOK
<1>2. InSet'
  BY <1>0 DEF InSet, Found
<1>3. Adding'
  BY <1>0 DEF Adding, Adds
<1>4. Over'
  BY <1>0 DEF Over, TypeOK
<1>5. OnceOrCancelled'
  BY <1>0 DEF OnceOrCancelled, Over
<1>6. Watched'
  <2>1. \A y \in timers' : next'[y] \in Nat /\ next[y] <= next'[y]
    BY <1>0 DEF TypeOK
  <2>2. QED
    BY <1>0, <2>1, WatchedKept
<1>7. QED
  BY <1>1, <1>2, <1>3, <1>4, <1>5, <1>6 DEF Inv

(* No timer is due later than its period from now, so refresh() only puts *)
(* it off.                                                                *)
LEMMA RefreshKeeps ==
  ASSUME Inv, NEW u \in User, NEW x \in Timer, Refresh(u, x)
  PROVE  Inv'
<1> USE TimersAssumption DEF Refresh, Begins, pollVars
<1>0. TypeOK /\ InSet /\ Adding /\ Over /\ OnceOrCancelled /\ Watched
  BY DEF Inv
<1>1. now \in Nat /\ ms[x] \in Nat /\ next[x] \in Nat /\ next[x] <= now + ms[x]
  BY <1>0, Times
<1>2. TypeOK'
  <2>1. next' \in [Timer -> Nat] /\ key' \in [Timer -> Nat]
    BY <1>0, <1>1 DEF TypeOK
  <2>2. \A y \in Timer : ms'[y] <= next'[y] /\ next'[y] <= now' + ms'[y]
    BY <1>0, <1>1 DEF TypeOK
  <2>3. QED
    BY <1>0, <2>1, <2>2 DEF TypeOK
<1>3. InSet'
  BY <1>0 DEF InSet, Found, TypeOK
<1>4. Adding' /\ Over' /\ OnceOrCancelled'
  BY <1>0 DEF Adding, Adds, Over, OnceOrCancelled
<1>5. Watched'
  <2>1. \A y \in timers' : next'[y] \in Nat /\ next[y] <= next'[y]
    BY <1>0, <1>1 DEF TypeOK
  <2>2. QED
    BY <1>0, <2>1, WatchedKept
<1>6. QED
  BY <1>2, <1>3, <1>4, <1>5 DEF Inv

LEMMA ResetBeginsKeeps ==
  ASSUME Inv, NEW u \in User, NEW x \in Timer, NEW b \in BOOLEAN, ResetBegins(u, x, b)
  PROVE  Inv'
<1> USE TimersAssumption DEF ResetBegins, Begins, timerVars, pollVars
<1>0. TypeOK /\ InSet /\ Adding /\ Over /\ OnceOrCancelled /\ Watched
  BY DEF Inv
<1>1. TypeOK'
  <2>1. call' \in [User -> Call]
    BY <1>0 DEF TypeOK, Call
  <2>2. QED
    BY <1>0, <2>1 DEF TypeOK
<1>2. InSet' /\ Over' /\ OnceOrCancelled'
  BY <1>0 DEF InSet, Found, Over, OnceOrCancelled
<1>3. Adding'
  BY <1>0 DEF Adding, Adds, TypeOK
<1>4. Watched'
  <2>1. \A y \in timers' : next'[y] \in Nat /\ next[y] <= next'[y]
    BY <1>0 DEF TypeOK
  <2>2. QED
    BY <1>0, <2>1, WatchedKept
<1>5. QED
  BY <1>1, <1>2, <1>3, <1>4 DEF Inv

LEMMA ResetKeeps ==
  ASSUME Inv, NEW u \in User, Reset(u)
  PROVE  Inv'
<1> DEFINE x == call[u].timer
           d == (IF call[u].fromNow THEN now ELSE next[x] - ms[x]) + 0
<1> USE TimersAssumption
<1>0. TypeOK /\ InSet /\ Adding /\ Over /\ OnceOrCancelled /\ Watched
  BY DEF Inv
<1>1. /\ ~Adds(u) /\ call[u].kind = "reset" /\ call' = [call EXCEPT ![u] = NoCall]
      /\ UNCHANGED <<now, live, recurring, made, known, pc, until, ran, twice, calls, cancelled>>
  BY DEF Reset, Adds, Returns, pollVars
<1>2. x \in Timer
  BY <1>0, <1>1 DEF TypeOK, Call, NoCall
<1>3. now \in Nat /\ ms[x] \in Nat /\ next[x] \in Nat /\ ms[x] <= next[x] /\ next[x] <= now + ms[x]
  BY <1>0, <1>2, Times
<1>4. d \in Nat /\ d <= now
  BY <1>3
<1>5. call' \in [User -> Call] /\ Adding'
  BY <1>0, <1>1 DEF TypeOK, Call, Adding, Adds, NoCall
<1>6. Over' /\ OnceOrCancelled'
  BY <1>0, <1>1 DEF Over, OnceOrCancelled
<1>7. CASE x \in live /\ Found(x)
  <2>1. /\ AddTimer(x, d, timers \ {x})
        /\ ms' = [ms EXCEPT ![x] = 0] /\ next' = [next EXCEPT ![x] = d]
    BY <1>7 DEF Reset
  <2>2. timers' = timers /\ key' = [key EXCEPT ![x] = d]
    BY <1>7, <2>1 DEF AddTimer, Found
  <2>3. Watched' /\ signal' \in BOOLEAN
    BY <1>0, <1>1, <1>2, <1>4, <2>1, AddTimerWatched
  <2>4. TypeOK'
    <3>1. /\ ms' \in [Timer -> Period \cup {0}] /\ key' \in [Timer -> Nat]
          /\ next' \in [Timer -> Nat]
      BY <1>0, <1>4, <2>1, <2>2 DEF TypeOK
    <3>2. \A y \in Timer : ms'[y] <= next'[y] /\ next'[y] <= now' + ms'[y]
      BY <1>0, <1>1, <1>3, <1>4, <2>1 DEF TypeOK
    <3>3. QED
      BY <1>0, <1>1, <1>5, <2>2, <2>3, <3>1, <3>2 DEF TypeOK
  <2>5. InSet'
    BY <1>0, <1>1, <2>1, <2>2 DEF InSet, Found, TypeOK
  <2>6. QED
    BY <1>5, <1>6, <2>3, <2>4, <2>5 DEF Inv
<1>8. CASE ~(x \in live /\ Found(x))
  <2>1. UNCHANGED <<timers, key, ms, next, signal>>
    BY <1>8 DEF Reset
  <2>2. TypeOK'
    BY <1>0, <1>1, <1>5, <2>1 DEF TypeOK
  <2>3. InSet'
    BY <1>0, <1>1, <2>1 DEF InSet, Found
  <2>4. \A y \in timers' : next'[y] \in Nat /\ next[y] <= next'[y]
    BY <1>0, <2>1 DEF TypeOK
  <2>5. Watched'
    BY <1>0, <1>1, <2>1, <2>4, WatchedKept
  <2>6. QED
    BY <1>5, <1>6, <2>2, <2>3, <2>5 DEF Inv
<1>9. QED
  BY <1>7, <1>8

-----------------------------------------------------------------------------
(* The threads in idle(), and the clock. *)

LEMMA SleepKeeps ==
  ASSUME Inv, NEW p \in Poller, Sleep(p)
  PROVE  Inv'
<1> USE TimersAssumption DEF Sleep, timerVars
<1>0. TypeOK /\ InSet /\ Adding /\ Over /\ OnceOrCancelled /\ Watched
  BY DEF Inv
<1>1. PICK d \in {next[x] : x \in timers} \cup {now + MaxTimeout} :
        /\ \A x \in timers : d <= next[x]
        /\ until' = [until EXCEPT ![p] = d]
  OBVIOUS
<1>2. d \in Nat
  BY <1>0 DEF TypeOK
<1>3. TypeOK'
  BY <1>0, <1>1, <1>2 DEF TypeOK
<1>4. Watched'
  <2>1. Watches(p)'
    BY <1>0, <1>1 DEF Watches, TypeOK
  <2>2. QED
    BY <2>1, WatchedBy
<1>5. InSet' /\ Adding' /\ Over' /\ OnceOrCancelled'
  BY <1>0 DEF InSet, Found, Adding, Adds, Over, OnceOrCancelled
<1>6. QED
  BY <1>3, <1>4, <1>5 DEF Inv

LEMMA WakeKeeps ==
  ASSUME Inv, NEW p \in Poller, Wake(p)
  PROVE  Inv'
<1> USE TimersAssumption DEF Wake, timerVars
<1>0. TypeOK /\ InSet /\ Adding /\ Over /\ OnceOrCancelled /\ Watched
  BY DEF Inv
<1>1. TypeOK'
  <2>1. signal' \in BOOLEAN
    BY Zenon
  <2>2. QED
    BY <1>0, <2>1 DEF TypeOK
<1>2. Watched'
  <2>1. Watches(p)'
    BY <1>0 DEF Watches, Asleep, TypeOK
  <2>2. QED
    BY <2>1, WatchedBy
<1>3. InSet' /\ Adding' /\ Over' /\ OnceOrCancelled'
  BY <1>0 DEF InSet, Found, Adding, Adds, Over, OnceOrCancelled
<1>4. QED
  BY <1>1, <1>2, <1>3 DEF Inv

(* A timer that ran once or was cancelled has no callback, so it is not    *)
(* among those that expire.                                                *)
LEMMA ExpireKeeps ==
  ASSUME Inv, NEW p \in Poller, Expire(p)
  PROVE  Inv'
<1> USE TimersAssumption DEF Expire
<1>0. TypeOK /\ InSet /\ Adding /\ Over /\ OnceOrCancelled /\ Watched
  BY DEF Inv
<1>1. Expired \subseteq timers /\ timers = known \cap live
  BY <1>0 DEF Expired, InSet
<1>2. now \in Nat /\ \A x \in Timer : ms[x] \in Nat /\ next[x] \in Nat
  BY <1>0, Times
<1>3. TypeOK'
  <2>1. next' \in [Timer -> Nat] /\ key' \in [Timer -> Nat]
    BY <1>0, <1>2 DEF TypeOK
  <2>2. \A x \in Timer : ms'[x] <= next'[x] /\ next'[x] <= now' + ms'[x]
    BY <1>0, <1>2 DEF TypeOK
  <2>3. pc' \in [Poller -> {"top", "asleep", "expire", "expireThenDrain", "drain"}]
    BY <1>0 DEF TypeOK
  <2>4. QED
    BY <1>0, <1>1, <2>1, <2>2, <2>3 DEF TypeOK
<1>4. InSet'
  <2>1. timers' = known' \cap live'
    BY <1>1
  <2>2. \A x \in timers' : Found(x)'
    BY <1>0, <1>1 DEF InSet, Found, TypeOK
  <2>3. QED
    BY <2>1, <2>2 DEF InSet
<1>5. Adding'
  BY <1>0, <1>1 DEF Adding, Adds
<1>6. Over'
  BY <1>0, <1>1 DEF Over, TypeOK
<1>7. OnceOrCancelled'
  BY <1>0, <1>1 DEF OnceOrCancelled, Over
<1>8. Watched'
  <2>1. Watches(p)'
    BY <1>0 DEF Watches, Asleep, TypeOK
  <2>2. QED
    BY <2>1, WatchedBy
<1>9. QED
  BY <1>3, <1>4, <1>5, <1>6, <1>7, <1>8 DEF Inv

LEMMA DrainKeeps ==
  ASSUME Inv, NEW p \in Poller, Drain(p)
  PROVE  Inv'
<1> USE TimersAssumption DEF Drain, timerVars
<1>0. TypeOK /\ InSet /\ Adding /\ Over /\ OnceOrCancelled /\ Watched
  BY DEF Inv
<1>1. TypeOK'
  <2>1. signal' \in BOOLEAN
    BY Zenon
  <2>2. QED
    BY <1>0, <2>1 DEF TypeOK
<1>2. Watched'
  <2>1. Watches(p)'
    BY <1>0 DEF Watches, Asleep, TypeOK
  <2>2. QED
    BY <2>1, WatchedBy
<1>3. InSet' /\ Adding' /\ Over' /\ OnceOrCancelled'
  BY <1>0 DEF InSet, Found, Adding, Adds, Over, OnceOrCancelled
<1>4. QED
  BY <1>1, <1>2, <1>3 DEF Inv

LEMMA TickKeeps ==
  ASSUME Inv, Tick
  PROVE  Inv'
<1> USE TimersAssumption DEF Tick, timerVars, pollVars
<1>0. TypeOK /\ InSet /\ Adding /\ Over /\ OnceOrCancelled /\ Watched
  BY DEF Inv
<1>1. TypeOK'
  <2>1. now' \in 0 .. MaxTime
    BY <1>0 DEF TypeOK
  <2>2. \A x \in Timer : ms'[x] <= next'[x] /\ next'[x] <= now' + ms'[x]
    BY <1>0, Times
  <2>3. QED
    BY <1>0, <2>1, <2>2 DEF TypeOK
<1>2. Watched'
  <2>1. \A y \in timers' : next'[y] \in Nat /\ next[y] <= next'[y]
    BY <1>0 DEF TypeOK
  <2>2. QED
    BY <1>0, <2>1, WatchedKept
<1>3. InSet' /\ Adding' /\ Over' /\ OnceOrCancelled'
  BY <1>0 DEF InSet, Found, Adding, Adds, Over, OnceOrCancelled
<1>4. QED
  BY <1>1, <1>2, <1>3 DEF Inv

-----------------------------------------------------------------------------
LEMMA InvStep == Inv /\ [Next]_vars => Inv'
<1> SUFFICES ASSUME Inv, [Next]_vars PROVE Inv'
  OBVIOUS
<1>1. ASSUME NEW u \in User, Calls(u) PROVE Inv'
  BY <1>1, ConstructKeeps, ResetBeginsKeeps, CancelKeeps, RefreshKeeps DEF Calls
<1>2. ASSUME NEW u \in User, GoesOn(u) PROVE Inv'
  BY <1>2, InsertKeeps, ResetKeeps DEF GoesOn
<1>3. ASSUME NEW p \in Poller, Poll(p) PROVE Inv'
  BY <1>3, SleepKeeps, WakeKeeps, ExpireKeeps, DrainKeeps DEF Poll
<1>4. CASE Tick
  BY <1>4, TickKeeps
<1>5. CASE UNCHANGED vars
  BY <1>5 DEF vars, timerVars, pollVars, Inv, TypeOK, InSet, Found, Adding, Adds, Over,
              OnceOrCancelled, Watched, Watches, Asleep
<1>6. QED
  BY <1>1, <1>2, <1>3, <1>4, <1>5 DEF Next

LEMMA InvAlways == Spec => []Inv
BY InvInit, InvStep, PTL DEF Spec

-----------------------------------------------------------------------------
(* The types, and that no timer is due later than its own period from now, *)
(* nor the start that reset() computes (timer.cpp:97) below zero.          *)
THEOREM TimersTypes == Spec => []TypeOK
<1>1. Inv => TypeOK
  BY DEF Inv
<1>2. QED
  BY <1>1, InvAlways, PTL

(* m_timers holds the timers that are still to run and no other, each      *)
(* where the set looks for it (timer.cpp:49, 62, 83).                      *)
THEOREM TimersInSet == Spec => []InSet
<1>1. Inv => InSet
  BY DEF Inv
<1>2. QED
  BY <1>1, InvAlways, PTL

(* A timer that does not recur runs once or is cancelled, never both, for  *)
(* any number of threads that cancel and of threads in idle().             *)
THEOREM TimersOnce == Spec => []OnceOrCancelled
<1>1. Inv => OnceOrCancelled
  BY DEF Inv
<1>2. QED
  BY <1>1, InvAlways, PTL

(* No timer is slept past, though refresh() and cancel() wake nobody       *)
(* (timer.cpp:69, 101; iomanager.cpp:424).                                 *)
THEOREM TimersWatched == Spec => []Watched
<1>1. Inv => Watched
  BY DEF Inv
<1>2. QED
  BY <1>1, InvAlways, PTL
=============================================================================

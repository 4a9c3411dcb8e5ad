-------------------------- MODULE IOManagerProofs --------------------------
(***************************************************************************)
(* Theorems about IOManager, for every set of threads and every bound.     *)
(***************************************************************************)
EXTENDS IOManager, FiniteSetTheorems, TLAPS

-----------------------------------------------------------------------------
(* The inductive invariant.                                                 *)

Where(p, places) == {t \in Thread : p[t] \in places}

AtWork    == {"passOnThenRun", "job", "jobTickles", "back", "backReady"}
Reporting == {"expire", "scheduleExpired", "timerTickles", "handle", "handled", "eventTickles"}
Idling    == Part \cup {"quiet", "epoll"} \cup Reporting

(* The counters of threads are exact.                                       *)
CountsThreads ==
  /\ IsFiniteSet(Where(pc, AtWork)) /\ active = Cardinality(Where(pc, AtWork))
  /\ IsFiniteSet(Where(pc, Idling)) /\ idle = Cardinality(Where(pc, Idling))

(* A thread has reports of events only between epoll_wait and the end of    *)
(* its turn of the loop.                                                    *)
HoldsReports ==
  /\ IsFiniteSet(Reports(got))
  /\ \A t \in Thread : /\ pc[t] \notin Reporting => got[t] = 0
                       /\ pc[t] \in {"handled", "eventTickles"} => got[t] > 0

(* Where a thread goes on to look for tasks, or to call tickle(), before it *)
(* sleeps.                                                                 *)
Busy  == AtWork \cup Reporting \cup {"scan", "requeue", "yieldTickles"}
Awake == Busy \cup {"passOnThenIdle", "quiet"}

Attended ==
  ~Empty => signal \/ unheard \/ control = "tickling" \/ \E t \in Thread : pc[t] \in Awake

(* Who runs: the threads of the crew, Caller from within stop() only. *)
Members ==
  /\ crew \subseteq Thread
  /\ \A t \in Thread \ crew : pc[t] = "off"
  /\ \A t \in crew \ {Caller} : pc[t] # "off"
  /\ control \in Part \cup {"calling"} => Caller \in crew
  /\ Caller \in Thread =>
       /\ control \in {"open", "tickling"} \cup Part => pc[Caller] = "off"
       /\ control \in {"joining", "stopped"} => pc[Caller] \in {"off", "exit"}
  /\ control = "stopped" => \A t \in crew \ {Caller} : pc[t] = "exit"

(* No thread leaves before stop() has begun. *)
Leaving ==
  /\ stopping <=> control \notin {"open", "tickling"}
  /\ \A t \in Thread : /\ pc[t] = "exit" => ended[t]
                       /\ ended[t] \/ pc[t] = "quiet" => stopping

(* What is listed for a thread, or for all, has a thread to look for it, *)
(* unless it was listed for a thread that had left.                      *)
Served ==
  /\ \A t \in Thread : Left(t) => queue[t] = 0 \/ t \in stray
  /\ stopping /\ queue[AnyThread] > 0 => control \in Part \/ \E t \in Thread : ~Left(t)
  /\ Foreign = {} => stray = {}

(* Caller found nothing to do and is the only thread. *)
Alone == control \in {"joining", "stopped"} /\ \A t \in Thread : pc[t] = "off"

(* What a thread on its way out has read stays as it was, unless a job has *)
(* armed something since.                                                  *)
Read ==
  ~late => /\ Missed("readTimers") \/ Alone => timers = 0
           /\ Missed("readEvents") \/ Alone => pending = 0

Inv == TypeOK /\ CountsThreads /\ HoldsReports /\ Attended /\ Members /\ Leaving /\ Served /\ Read

-----------------------------------------------------------------------------
(* Finite sets: the threads at a place, the reports they hold.              *)

Inc(n) == n + 1
Dec(n) == n - 1

LEMMA WhereStep ==
  ASSUME NEW p, NEW q, NEW t \in Thread, NEW S,
         IsFiniteSet(Where(p, S)), \A u \in Thread \ {t} : q[u] = p[u]
  PROVE  /\ IsFiniteSet(Where(q, S))
         /\ (p[t] \in S <=> q[t] \in S) => Cardinality(Where(q, S)) = Cardinality(Where(p, S))
         /\ p[t] \notin S /\ q[t] \in S => Cardinality(Where(q, S)) = Inc(Cardinality(Where(p, S)))
         /\ p[t] \in S /\ q[t] \notin S => Cardinality(Where(q, S)) = Dec(Cardinality(Where(p, S)))
<1> DEFINE A == Where(p, S)
           B == Where(q, S)
<1>1. (p[t] \in S <=> q[t] \in S) => B = A
  BY DEF Where
<1>2. p[t] \notin S /\ q[t] \in S => B = A \cup {t} /\ t \notin A
  BY DEF Where
<1>3. p[t] \in S /\ q[t] \notin S => B = A \ {t} /\ t \in A
  BY DEF Where
<1> HIDE DEF A, B
<1>4. IsFiniteSet(A)
  BY DEF A
<1>5. CASE p[t] \in S <=> q[t] \in S
  BY <1>1, <1>4, <1>5 DEF A, B
<1>6. CASE p[t] \notin S /\ q[t] \in S
  <2>1. IsFiniteSet(B) /\ Cardinality(B) = Inc(Cardinality(A))
    BY <1>2, <1>4, <1>6, FS_AddElement DEF Inc
  <2>2. QED BY <1>6, <2>1 DEF A, B
<1>7. CASE p[t] \in S /\ q[t] \notin S
  <2>1. IsFiniteSet(B) /\ Cardinality(B) = Dec(Cardinality(A))
    BY <1>3, <1>4, <1>7, FS_RemoveElement DEF Dec
  <2>2. QED BY <1>7, <2>1 DEF A, B
<1>8. QED BY <1>5, <1>6, <1>7

LEMMA ReportsTaken ==
  ASSUME NEW g \in [Thread -> Nat], NEW t \in Thread, NEW n \in Nat,
         g[t] = 0, IsFiniteSet(Reports(g))
  PROVE  /\ IsFiniteSet(Reports([g EXCEPT ![t] = n]))
         /\ Cardinality(Reports([g EXCEPT ![t] = n])) = Cardinality(Reports(g)) + n
<1> DEFINE A == Reports(g)
           B == {t} \X (1 .. n)
           C == Reports([g EXCEPT ![t] = n])
<1>1. C = A \cup B
  <2>1. \A r : r \in A <=> \E u \in Thread : r \in {u} \X (1 .. g[u])
    BY DEF Reports
  <2>2. \A r : r \in C <=> \E u \in Thread : r \in {u} \X (1 .. [g EXCEPT ![t] = n][u])
    BY DEF Reports
  <2>3. [g EXCEPT ![t] = n][t] = n /\ \A u \in Thread \ {t} : [g EXCEPT ![t] = n][u] = g[u]
    OBVIOUS
  <2>4. {t} \X (1 .. g[t]) = {}
    OBVIOUS
  <2> HIDE DEF A, C
  <2>5. \A r : r \in C <=> r \in A \/ r \in B
    BY <2>1, <2>2, <2>3, <2>4
  <2>6. QED BY <2>5
<1>2. A \cap B = {}
  <2> SUFFICES ASSUME NEW r, r \in A, r \in B PROVE FALSE
    OBVIOUS
  <2>1. PICK u \in Thread : r \in {u} \X (1 .. g[u])
    BY DEF Reports
  <2>2. r[1] = u /\ r[1] = t /\ r[2] \in 1 .. g[u]
    BY <2>1
  <2>3. QED BY <2>2
<1>3. IsFiniteSet({t}) /\ Cardinality({t}) = 1
  BY FS_Singleton
<1>4. IsFiniteSet(1 .. n) /\ Cardinality(1 .. n) = n
  <2>1. 1 \in Int /\ n \in Int
    OBVIOUS
  <2>2. IsFiniteSet(1 .. n) /\ Cardinality(1 .. n) = IF 1 > n THEN 0 ELSE n - 1 + 1
    BY <2>1, FS_Interval, Zenon
  <2>3. QED BY <2>2
<1>5. IsFiniteSet(B) /\ Cardinality(B) = 1 * n
  BY <1>3, <1>4, FS_Product
<1> HIDE DEF A, B, C
<1>6. IsFiniteSet(A) /\ Cardinality(A) \in Nat
  BY FS_CardinalityType DEF A
<1>7. Cardinality(B) = n
  BY <1>5
<1>8. IsFiniteSet(C) /\ Cardinality(C) = Cardinality(A) + Cardinality(B) - Cardinality(A \cap B)
  BY <1>1, <1>5, <1>6, FS_Union
<1>9. Cardinality(A \cap B) = 0
  BY <1>2, FS_EmptySet
<1>10. QED BY <1>6, <1>7, <1>8, <1>9 DEF A, C

LEMMA ReportHandled ==
  ASSUME NEW g \in [Thread -> Nat], NEW t \in Thread, g[t] > 0, IsFiniteSet(Reports(g))
  PROVE  /\ IsFiniteSet(Reports([g EXCEPT ![t] = @ - 1]))
         /\ Cardinality(Reports([g EXCEPT ![t] = @ - 1])) = Cardinality(Reports(g)) - 1
         /\ Cardinality(Reports(g)) > 0
<1> DEFINE A == Reports(g)
           r == <<t, g[t]>>
           C == Reports([g EXCEPT ![t] = @ - 1])
<1>1. r \in A
  BY DEF Reports
<1>2. C = A \ {r}
  <2>1. \A s : s \in A <=> \E u \in Thread : s \in {u} \X (1 .. g[u])
    BY DEF Reports
  <2>2. \A s : s \in C <=> \E u \in Thread : s \in {u} \X (1 .. [g EXCEPT ![t] = @ - 1][u])
    BY DEF Reports
  <2>3. /\ [g EXCEPT ![t] = @ - 1][t] = g[t] - 1
        /\ \A u \in Thread \ {t} : [g EXCEPT ![t] = @ - 1][u] = g[u]
    OBVIOUS
  <2>4. {t} \X (1 .. g[t] - 1) = ({t} \X (1 .. g[t])) \ {r}
    OBVIOUS
  <2>5. \A u \in Thread \ {t} : r \notin {u} \X (1 .. g[u])
    OBVIOUS
  <2> HIDE DEF A, C, r
  <2>6. \A s : s \in C <=> s \in A /\ s # r
    BY <2>1, <2>2, <2>3, <2>4, <2>5
  <2>7. QED BY <2>6
<1> HIDE DEF A, C, r
<1>3. IsFiniteSet(A)
  BY DEF A
<1>4. IsFiniteSet(C) /\ Cardinality(C) = Cardinality(A) - 1
  BY <1>1, <1>2, <1>3, FS_RemoveElement
<1>5. Cardinality(C) \in Nat /\ Cardinality(A) \in Nat
  BY <1>3, <1>4, FS_CardinalityType
<1>6. QED BY <1>4, <1>5 DEF A, C

-----------------------------------------------------------------------------
(* A step of run() or of idle() takes one thread from one place to another. *)

USE DEF At, Goto, Part, AtWork, Reporting, Idling, workVars, waitVars, threadVars, noted

LEMMA OneMoves ==
  ASSUME TypeOK, NEW t \in Thread, NEW x, pc' = [pc EXCEPT ![t] = x]
  PROVE  pc'[t] = x /\ \A u \in Thread \ {t} : pc'[u] = pc[u]
BY DEF TypeOK

(* From where to where tickle() takes its caller. *)
LEMMA TickleMoves ==
  ASSUME NEW t \in Thread, CallTickle(t)
  PROVE  \E x :
           /\ pc' = [pc EXCEPT ![t] = x]
           /\ \/ pc[t] \in {"passOnThenRun", "jobTickles"} /\ x = "job"
              \/ pc[t] = "passOnThenIdle" /\ x = AfterNothing(t)
              \/ pc[t] = "yieldTickles" /\ x = "scan"
              \/ pc[t] = "timerTickles" /\ x = "handle"
              \/ pc[t] = "eventTickles" /\ x = "handled"
<1>1. /\ pc[t] \in {"passOnThenRun", "passOnThenIdle", "jobTickles", "yieldTickles",
                    "timerTickles", "eventTickles"}
      /\ pc' = [pc EXCEPT ![t] = Tickling(t)[pc[t]]]
  BY DEF CallTickle, Tickling
<1>2. /\ Tickling(t)["passOnThenRun"] = "job" /\ Tickling(t)["jobTickles"] = "job"
      /\ Tickling(t)["passOnThenIdle"] = AfterNothing(t)
      /\ Tickling(t)["yieldTickles"] = "scan"
      /\ Tickling(t)["timerTickles"] = "handle" /\ Tickling(t)["eventTickles"] = "handled"
  BY DEF Tickling
<1>3. QED BY <1>1, <1>2

(* The steps of idle() up to epoll_wait. *)
LEMMA CheckMoves ==
  ASSUME NEW t \in Thread, CheckStopping(t)
  PROVE  \/ /\ pc[t] = "readTimers" /\ timers = 0
            /\ pc' = [pc EXCEPT ![t] = "readEvents"]
         \/ /\ pc[t] = "readEvents" /\ pending = 0
            /\ pc' = [pc EXCEPT ![t] = "readTasks"]
         \/ /\ pc[t] = "readTasks" /\ stopping /\ Empty /\ active = 0
            /\ pc' = [pc EXCEPT ![t] = "quiet"]
         \/ /\ pc[t] \in Part /\ pc' = [pc EXCEPT ![t] = "epoll"]
BY DEF CheckStopping, Quiet, NextPart

LEMMA AskMoves ==
  ASSUME StopChecks
  PROVE  \/ /\ pc' = pc
            /\ \/ control = "readTimers" /\ timers = 0 /\ control' = "readEvents"
               \/ control = "readEvents" /\ pending = 0 /\ control' = "readTasks"
               \/ /\ control = "readTasks" /\ control' = "joining"
                  /\ stopping /\ Empty /\ active = 0
         \/ /\ control \in Part /\ control' = "calling"
            /\ pc' = [pc EXCEPT ![Caller] = "scan"]
BY DEF StopChecks, Quiet, NextPart

-----------------------------------------------------------------------------
(* The counters of threads.                                                 *)

LEMMA Counting ==
  ASSUME TypeOK, CountsThreads, NEW t \in Thread, NEW x, pc' = [pc EXCEPT ![t] = x]
  PROVE  /\ /\ pc[t] \in AtWork <=> x \in AtWork
            /\ pc[t] \in Idling <=> x \in Idling
            /\ active' = active /\ idle' = idle
            => CountsThreads'
         /\ /\ pc[t] \notin AtWork \cup Idling /\ x \in AtWork \ Idling
            /\ active' = Inc(active) /\ idle' = idle
            => CountsThreads'
         /\ /\ pc[t] \in AtWork \ Idling /\ x \notin AtWork \cup Idling
            /\ active' = Dec(active) /\ idle' = idle
            => CountsThreads'
         /\ /\ pc[t] \notin AtWork \cup Idling /\ x \in Idling \ AtWork
            /\ active' = active /\ idle' = Inc(idle)
            => CountsThreads'
         /\ /\ pc[t] \in Idling \ AtWork /\ x \notin AtWork \cup Idling
            /\ active' = active /\ idle' = Dec(idle)
            => CountsThreads'
<1> USE DEF CountsThreads
<1> HIDE DEF AtWork, Idling
<1>1. pc'[t] = x /\ \A u \in Thread \ {t} : pc'[u] = pc[u]
  BY OneMoves
<1>2. ASSUME NEW S, IsFiniteSet(Where(pc, S))
      PROVE  /\ IsFiniteSet(Where(pc', S))
             /\ (pc[t] \in S <=> x \in S) => Cardinality(Where(pc', S)) = Cardinality(Where(pc, S))
             /\ pc[t] \notin S /\ x \in S => Cardinality(Where(pc', S)) = Inc(Cardinality(Where(pc, S)))
             /\ pc[t] \in S /\ x \notin S => Cardinality(Where(pc', S)) = Dec(Cardinality(Where(pc, S)))
  <2>1. PICK p, q : p = pc /\ q = pc'
    OBVIOUS
  <2>2. /\ IsFiniteSet(Where(q, S))
        /\ (p[t] \in S <=> q[t] \in S) => Cardinality(Where(q, S)) = Cardinality(Where(p, S))
        /\ p[t] \notin S /\ q[t] \in S => Cardinality(Where(q, S)) = Inc(Cardinality(Where(p, S)))
        /\ p[t] \in S /\ q[t] \notin S => Cardinality(Where(q, S)) = Dec(Cardinality(Where(p, S)))
    <3>1. IsFiniteSet(Where(p, S)) /\ \A u \in Thread \ {t} : q[u] = p[u]
      BY <1>1, <1>2, <2>1
    <3>2. QED BY <3>1, WhereStep
  <2>3. QED BY <1>1, <2>1, <2>2
<1>3. QED BY <1>2

LEMMA CountsNext ==
  ASSUME TypeOK, CountsThreads, Members, Next
  PROVE  CountsThreads'
<1>1. ASSUME NEW t \in Thread, Take(t) PROVE CountsThreads'
  <2>1. PICK x \in {"passOnThenRun", "job"} : pc' = [pc EXCEPT ![t] = x]
    BY <1>1 DEF Take
  <2>2. pc[t] = "scan" /\ active' = Inc(active) /\ idle' = idle
    BY <1>1 DEF Take, Inc, Dec
  <2>3. QED BY <2>1, <2>2, Counting
<1>2. ASSUME NEW t \in Thread, FindNothing(t) PROVE CountsThreads'
  <2>1. PICK x \in {"passOnThenIdle", "exit", "idleIn"} : pc' = [pc EXCEPT ![t] = x]
    BY <1>2 DEF FindNothing, AfterNothing
  <2>2. pc[t] = "scan" /\ active' = active /\ idle' = idle
    BY <1>2 DEF FindNothing
  <2>3. QED BY <2>1, <2>2, Counting
<1>3. ASSUME NEW t \in Thread, CallTickle(t) PROVE CountsThreads'
  <2>1. active' = active /\ idle' = idle
    BY <1>3 DEF CallTickle
  <2>2. QED BY <1>3, <2>1, TickleMoves, Counting DEF AfterNothing
<1>4. ASSUME NEW t \in Thread, Job(t) PROVE CountsThreads'
  <2>1. PICK x \in {"job", "jobTickles", "back", "backReady"} : pc' = [pc EXCEPT ![t] = x]
    BY <1>4 DEF Job, JobPosts, JobWaits, JobAddsTimer, JobEnds, JobYields
  <2>2. pc[t] = "job" /\ active' = active /\ idle' = idle
    BY <1>4 DEF Job, JobPosts, JobWaits, JobAddsTimer, JobEnds, JobYields
  <2>3. QED BY <2>1, <2>2, Counting
<1>5. ASSUME NEW t \in Thread, CountDown(t) PROVE CountsThreads'
  <2>1. PICK x \in {"scan", "requeue"} : pc' = [pc EXCEPT ![t] = x]
    BY <1>5 DEF CountDown
  <2>2. pc[t] \in {"back", "backReady"} /\ active' = Dec(active) /\ idle' = idle
    BY <1>5 DEF CountDown, Inc, Dec
  <2>3. QED BY <2>1, <2>2, Counting
<1>6. ASSUME NEW t \in Thread, Requeue(t) PROVE CountsThreads'
  <2>1. PICK x \in {"scan", "yieldTickles"} : pc' = [pc EXCEPT ![t] = x]
    BY <1>6 DEF Requeue
  <2>2. pc[t] = "requeue" /\ active' = active /\ idle' = idle
    BY <1>6 DEF Requeue
  <2>3. QED BY <2>1, <2>2, Counting
<1>7. ASSUME NEW t \in Thread, IdleIn(t) PROVE CountsThreads'
  <2>1. PICK x : x = "readTimers" /\ pc' = [pc EXCEPT ![t] = x]
    BY <1>7 DEF IdleIn
  <2>2. pc[t] = "idleIn" /\ active' = active /\ idle' = Inc(idle)
    BY <1>7 DEF IdleIn, Inc
  <2>3. pc[t] \notin AtWork \cup Idling /\ x \in Idling \ AtWork
    BY <2>1, <2>2
  <2> HIDE DEF AtWork, Idling
  <2>4. QED BY <2>1, <2>2, <2>3, Counting
<1>8. ASSUME NEW t \in Thread, CheckStopping(t) PROVE CountsThreads'
  <2>1. active' = active /\ idle' = idle
    BY <1>8 DEF CheckStopping
  <2>2. QED BY <1>8, <2>1, CheckMoves, Counting
<1>9. ASSUME NEW t \in Thread,
             EpollWait(t) \/ Expire(t) \/ ScheduleExpired(t) \/ Handle(t) \/ Handled(t)
      PROVE  CountsThreads'
  <2>1. PICK x \in Reporting : pc' = [pc EXCEPT ![t] = x]
    BY <1>9 DEF EpollWait, Expire, ScheduleExpired, Handle, Handled
  <2>2. pc[t] \in {"epoll"} \cup Reporting /\ active' = active /\ idle' = idle
    BY <1>9 DEF EpollWait, Expire, ScheduleExpired, Handle, Handled
  <2>3. QED BY <2>1, <2>2, Counting
<1>10. ASSUME NEW t \in Thread, IdleOut(t) PROVE CountsThreads'
  <2>1. PICK x : x = "scan" /\ pc' = [pc EXCEPT ![t] = x]
    BY <1>10 DEF IdleOut
  <2>2. pc[t] \in {"quiet", "handle"} /\ active' = active /\ idle' = Dec(idle)
    BY <1>10 DEF IdleOut, Dec
  <2>3. pc[t] \in Idling \ AtWork /\ x \notin AtWork \cup Idling
    BY <2>1, <2>2
  <2> HIDE DEF AtWork, Idling
  <2>4. QED BY <2>1, <2>2, <2>3, Counting
<1>11. ASSUME UNCHANGED <<pc, active, idle>> PROVE CountsThreads'
  BY <1>11 DEF CountsThreads, Where
<1>12. ASSUME NEW t \in Thread, Drain(t) PROVE CountsThreads'
  BY <1>11, <1>12 DEF Drain
<1>13. CASE Outside \/ ProgramPosts \/ ProgramTickles \/ StopBegin \/ CallReturns \/ StopJoins
  BY <1>11, <1>13 DEF Outside, EventReady, TimerExpires, ProgramPosts, ProgramTickles,
     StopBegin, CallReturns, StopJoins
<1>14. CASE StopChecks
  <2>1. active' = active /\ idle' = idle
    BY <1>14 DEF StopChecks
  <2>2. CASE pc' = pc
    BY <1>11, <2>1, <2>2
  <2>3. CASE control \in Part /\ pc' = [pc EXCEPT ![Caller] = "scan"] /\ Caller \in Thread
    <3>1. pc[Caller] = "off"
      BY <2>3 DEF Members
    <3>2. PICK x : x = "scan" /\ pc' = [pc EXCEPT ![Caller] = x]
      BY <2>3
    <3>3. pc[Caller] \notin AtWork \cup Idling /\ x \notin AtWork \cup Idling
      BY <3>1, <3>2
    <3> HIDE DEF AtWork, Idling
    <3>4. QED BY <2>1, <2>3, <3>2, <3>3, Counting
  <2>4. CASE pc' = [pc EXCEPT ![Caller] = "scan"] /\ Caller \notin Thread
    BY <1>11, <2>1, <2>4 DEF TypeOK
  <2>5. QED BY <1>14, <2>2, <2>3, <2>4, AskMoves
<1>15. QED
  BY <1>1, <1>2, <1>3, <1>4, <1>5, <1>6, <1>7, <1>8, <1>9, <1>10, <1>12, <1>13, <1>14
     DEF Next, Run, Stop

-----------------------------------------------------------------------------
(* The reports threads hold, and the types.                                 *)

LEMMA ReportsKept ==
  ASSUME TypeOK, HoldsReports, NEW t \in Thread, NEW x, pc' = [pc EXCEPT ![t] = x], got' = got,
         x \notin Reporting => pc[t] \notin Reporting \/ got[t] = 0,
         x \in {"handled", "eventTickles"} => pc[t] \in {"handled", "eventTickles"} \/ got[t] > 0
  PROVE  HoldsReports'
BY OneMoves DEF HoldsReports, Reports

LEMMA ReportsNext ==
  ASSUME TypeOK, HoldsReports, Members, Next
  PROVE  HoldsReports' /\ (ready + Reported <= pending)' /\ ready' \in Nat /\ pending' \in Nat
<1> DEFINE n == Cardinality(Reports(got))
           Same == ready' = ready /\ pending' = pending /\ got' = got
           Goal == HoldsReports' /\ (ready + Reported <= pending)' /\ ready' \in Nat /\ pending' \in Nat
<1>0. /\ got \in [Thread -> Nat] /\ IsFiniteSet(Reports(got)) /\ n \in Nat
      /\ ready \in Nat /\ pending \in Nat /\ ready + n <= pending
  BY FS_CardinalityType DEF TypeOK, HoldsReports, Reported
<1>s. ASSUME Same, HoldsReports' PROVE Goal
  BY <1>0, <1>s DEF Reported, Reports
<1>1. ASSUME NEW t \in Thread, EpollWait(t) PROVE Goal
  <2>1. /\ pc[t] = "epoll" /\ pc' = [pc EXCEPT ![t] = "expire"]
        /\ got' = [got EXCEPT ![t] = ready] /\ ready' = 0 /\ pending' = pending
    BY <1>1 DEF EpollWait
  <2>2. got[t] = 0
    BY <2>1 DEF HoldsReports
  <2>3. IsFiniteSet(Reports(got')) /\ Cardinality(Reports(got')) = n + ready
    BY <1>0, <2>1, <2>2, ReportsTaken
  <2>4. HoldsReports'
    BY <1>0, <2>1, <2>3, OneMoves DEF HoldsReports
  <2>5. QED BY <1>0, <2>1, <2>3, <2>4 DEF Reported
<1>2. ASSUME NEW t \in Thread, Handled(t) PROVE Goal
  <2>1. /\ pc[t] = "handled" /\ pc' = [pc EXCEPT ![t] = "handle"]
        /\ got' = [got EXCEPT ![t] = @ - 1] /\ ready' = ready /\ pending' = pending - 1
    BY <1>2 DEF Handled
  <2>2. got[t] > 0
    BY <2>1 DEF HoldsReports
  <2>3. IsFiniteSet(Reports(got')) /\ Cardinality(Reports(got')) = n - 1 /\ n > 0
    BY <1>0, <2>1, <2>2, ReportHandled
  <2>4. HoldsReports'
    BY <1>0, <2>1, <2>3, OneMoves DEF HoldsReports
  <2>5. QED BY <1>0, <2>1, <2>3, <2>4 DEF Reported
<1>3. ASSUME NEW t \in Thread, JobWaits(t) PROVE Goal
  <2>1. /\ pc[t] = "job" /\ pc' = [pc EXCEPT ![t] = "back"]
        /\ got' = got /\ ready' = ready /\ pending' = pending + 1
    BY <1>3 DEF JobWaits
  <2>2. HoldsReports'
    BY <2>1, ReportsKept
  <2>3. QED BY <1>0, <2>1, <2>2 DEF Reported
<1>4. CASE EventReady
  <2>1. UNCHANGED <<pc, got, pending>> /\ ready' = ready + 1 /\ ready + n < pending
    BY <1>4 DEF EventReady, Reported
  <2>2. HoldsReports'
    BY <2>1 DEF HoldsReports
  <2>3. QED BY <1>0, <2>1, <2>2 DEF Reported
<1>5. ASSUME Same, pc' = pc PROVE Goal
  <2>1. HoldsReports'
    BY <1>5 DEF HoldsReports, Reports
  <2>2. QED BY <1>5, <2>1, <1>s
<1>6. ASSUME NEW t \in Thread, Take(t) \/ FindNothing(t) PROVE Goal
  <2>1. PICK x \in {"passOnThenRun", "job", "passOnThenIdle", "exit", "idleIn"} :
          pc' = [pc EXCEPT ![t] = x]
    BY <1>6 DEF Take, FindNothing, AfterNothing
  <2>2. pc[t] = "scan" /\ Same
    BY <1>6 DEF Take, FindNothing
  <2>3. QED BY <2>1, <2>2, ReportsKept, <1>s
<1>7. ASSUME NEW t \in Thread, CallTickle(t) PROVE Goal
  <2>1. Same
    BY <1>7 DEF CallTickle
  <2>2. PICK x :
           /\ pc' = [pc EXCEPT ![t] = x]
           /\ \/ pc[t] \in {"passOnThenRun", "jobTickles"} /\ x = "job"
              \/ pc[t] = "passOnThenIdle" /\ x = AfterNothing(t)
              \/ pc[t] = "yieldTickles" /\ x = "scan"
              \/ pc[t] = "timerTickles" /\ x = "handle"
              \/ pc[t] = "eventTickles" /\ x = "handled"
    BY <1>7, TickleMoves
  <2>3. HoldsReports'
    BY <2>1, <2>2, ReportsKept DEF AfterNothing
  <2>4. QED BY <2>1, <2>3, <1>s
<1>8. ASSUME NEW t \in Thread,
             \/ JobPosts(t) \/ JobAddsTimer(t) \/ JobEnds(t) \/ JobYields(t)
             \/ CountDown(t) \/ Requeue(t)
      PROVE  Goal
  <2>1. PICK x \in {"job", "jobTickles", "back", "backReady", "scan", "requeue", "yieldTickles"} :
          pc' = [pc EXCEPT ![t] = x]
    BY <1>8 DEF JobPosts, JobAddsTimer, JobEnds, JobYields, CountDown, Requeue
  <2>2. pc[t] \in {"job", "back", "backReady", "requeue"} /\ Same
    BY <1>8 DEF JobPosts, JobAddsTimer, JobEnds, JobYields, CountDown, Requeue
  <2>3. QED BY <2>1, <2>2, ReportsKept, <1>s
<1>9. ASSUME NEW t \in Thread, IdleIn(t) \/ CheckStopping(t) PROVE Goal
  <2>1. PICK x : /\ pc' = [pc EXCEPT ![t] = x]
                 /\ x \in Part \cup {"quiet", "epoll"}
    BY <1>9, CheckMoves DEF IdleIn
  <2>2. pc[t] \in Part \cup {"idleIn"} /\ Same
    BY <1>9 DEF IdleIn, CheckStopping
  <2>3. QED BY <2>1, <2>2, ReportsKept, <1>s
<1>10. ASSUME NEW t \in Thread, Expire(t) \/ ScheduleExpired(t) \/ Handle(t) PROVE Goal
  <2>1. PICK x : /\ pc' = [pc EXCEPT ![t] = x]
                 /\ x \in Reporting
                 /\ x \in {"handled", "eventTickles"} => got[t] > 0
    BY <1>10 DEF Expire, ScheduleExpired, Handle
  <2>2. Same
    BY <1>10 DEF Expire, ScheduleExpired, Handle
  <2>3. got' = got
    BY <2>2
  <2>4. /\ x \notin Reporting => pc[t] \notin Reporting \/ got[t] = 0
        /\ x \in {"handled", "eventTickles"} => pc[t] \in {"handled", "eventTickles"} \/ got[t] > 0
    BY <2>1
  <2> HIDE DEF Reporting
  <2>5. HoldsReports'
    BY <2>1, <2>3, <2>4, ReportsKept
  <2>6. QED BY <2>2, <2>5, <1>s
<1>11. ASSUME NEW t \in Thread, IdleOut(t) PROVE Goal
  <2>1. /\ pc' = [pc EXCEPT ![t] = "scan"] /\ Same
        /\ pc[t] = "quiet" \/ got[t] = 0
    BY <1>11 DEF IdleOut
  <2>2. PICK x : x = "scan" /\ pc' = [pc EXCEPT ![t] = x]
    BY <2>1
  <2>3. got[t] = 0 /\ got' = got
    BY <1>11, <2>1 DEF HoldsReports, IdleOut
  <2>4. HoldsReports'
    BY <2>2, <2>3, ReportsKept
  <2>5. QED BY <2>1, <2>4, <1>s
<1>12. ASSUME NEW t \in Thread, Drain(t) PROVE Goal
  BY <1>5, <1>12 DEF Drain
<1>13. CASE TimerExpires \/ ProgramPosts \/ ProgramTickles \/ StopBegin \/ CallReturns \/ StopJoins
  BY <1>5, <1>13 DEF TimerExpires, ProgramPosts, ProgramTickles, StopBegin, CallReturns, StopJoins
<1>14. CASE StopChecks
  <2>1. Same
    BY <1>14 DEF StopChecks
  <2>2. CASE pc' = pc
    BY <1>5, <2>1, <2>2
  <2>3. CASE control \in Part /\ pc' = [pc EXCEPT ![Caller] = "scan"] /\ Caller \in Thread
    <3>1. pc[Caller] = "off"
      BY <2>3 DEF Members
    <3>4. PICK x : x = "scan" /\ pc' = [pc EXCEPT ![Caller] = x]
      BY <2>3
    <3>2. HoldsReports'
      BY <2>1, <2>3, <3>1, <3>4, ReportsKept
    <3>3. QED BY <2>1, <3>2, <1>s
  <2>4. CASE pc' = [pc EXCEPT ![Caller] = "scan"] /\ Caller \notin Thread
    BY <1>5, <2>1, <2>4 DEF TypeOK
  <2>5. QED BY <1>14, <2>2, <2>3, <2>4, AskMoves
<1>15. QED
  BY <1>1, <1>2, <1>3, <1>4, <1>6, <1>7, <1>8, <1>9, <1>10, <1>11, <1>12, <1>13, <1>14
     DEF Next, Run, Job, Stop, Outside

-----------------------------------------------------------------------------
(* What the steps have in common.                                           *)

LEMMA Pushed ==
  ASSUME TypeOK, NEW p \in Place, NEW n \in Int, queue[p] + n >= 0, Push(p, n)
  PROVE  /\ queue' \in [Place -> Nat] /\ queue'[p] = queue[p] + n
         /\ \A q \in Place \ {p} : queue'[q] = queue[q]
<1>1. queue \in [Place -> Nat] /\ queue' = [queue EXCEPT ![p] = queue[p] + n]
  BY DEF TypeOK, Push
<1>2. queue[p] + n \in Nat
  BY <1>1
<1>3. QED BY <1>1, <1>2

(* What schedule() lists for a thread that has left is noted. *)
PostedLate(t) ==
  /\ stray \subseteq stray' /\ stray' \subseteq Thread
  /\ \A u \in Thread \ {t} : queue'[u] = queue[u] \/ (Left(u) => u \in stray')

LEMMA Places ==
  ASSUME NEW t \in Thread
  PROVE  t \in Place /\ AnyThread \in Place /\ t # AnyThread
BY IOManagerAssumption DEF Place

LEMMA Posted ==
  ASSUME TypeOK, NEW p \in Place, Post(p)
  PROVE  /\ queue' \in [Place -> Nat]
         /\ \A t \in Thread : PostedLate(t)
<1>1. queue[p] + 1 >= 0 /\ Push(p, 1)
  BY DEF TypeOK, Post
<1>2. queue' \in [Place -> Nat] /\ \A q \in Place \ {p} : queue'[q] = queue[q]
  BY <1>1, Pushed
<1>3. stray' = IF p # AnyThread /\ Left(p) THEN stray \cup {p} ELSE stray
  BY DEF Post
<1>4. stray \subseteq stray' /\ stray' \subseteq Thread
  BY <1>3 DEF TypeOK, Place
<1>5. \A u \in Thread : queue'[u] = queue[u] \/ (Left(u) => u \in stray')
  BY <1>2, <1>3, Places
<1>6. QED BY <1>2, <1>4, <1>5 DEF PostedLate

(* Who may be posted for by a job, and by the program. *)
LEMMA PinsTyped ==
  ASSUME NEW own, own \subseteq Thread
  PROVE  Pins(own) \subseteq Place /\ (Foreign = {} => Pins(own) = own \cup {AnyThread})
BY Places, IOManagerAssumption DEF Pins, Place

LEMMA UseTyped ==
  ASSUME TypeOK, NEW b \in DOMAIN Bound, Use(b)
  PROVE  used' \in [DOMAIN Bound -> Nat]
<1> HIDE DEF Bound
<1>1. used \in [DOMAIN Bound -> Nat] /\ used' = [used EXCEPT ![b] = used[b] + 1]
  BY DEF TypeOK, Use
<1>2. QED BY <1>1

LEMMA Bounds == DOMAIN Bound = {"post", "yield", "event", "timer"}
BY DEF Bound

(* The steps of a thread that has or has found something to do. *)
Usual(t) ==
  \/ Take(t) \/ Job(t) \/ CountDown(t) \/ Requeue(t)
  \/ EpollWait(t) \/ Expire(t) \/ ScheduleExpired(t) \/ Drain(t) \/ Handle(t) \/ Handled(t)

LEMMA UsualMoves ==
  ASSUME TypeOK, NEW t \in Thread, Usual(t)
  PROVE  \E x : /\ pc' = [pc EXCEPT ![t] = x]
                /\ x \in Busy
                /\ pc[t] \in Busy \cup {"epoll"}
                /\ UNCHANGED <<stopping, control, ended>>
<1>1. CASE Take(t)
  BY <1>1 DEF Take, Busy
<1>2. CASE Job(t) \/ CountDown(t) \/ Requeue(t)
  BY <1>2 DEF Job, JobPosts, JobWaits, JobAddsTimer, JobEnds, JobYields, CountDown, Requeue, Busy
<1>3. CASE EpollWait(t) \/ Expire(t) \/ ScheduleExpired(t) \/ Handle(t) \/ Handled(t)
  BY <1>3 DEF EpollWait, Expire, ScheduleExpired, Handle, Handled, Busy
<1>4. CASE Drain(t)
  <2>1. pc[t] = "handle" /\ UNCHANGED <<stopping, control, ended, pc>>
    BY <1>4 DEF Drain
  <2>2. pc' = [pc EXCEPT ![t] = pc[t]]
    BY <2>1 DEF TypeOK
  <2>3. QED BY <2>1, <2>2 DEF Busy
<1>5. QED BY <1>1, <1>2, <1>3, <1>4 DEF Usual

LEMMA UsualTyped ==
  ASSUME TypeOK, NEW t \in Thread, Usual(t)
  PROVE  queue' \in [Place -> Nat] /\ PostedLate(t)
<1>0. stray \subseteq Thread
  BY DEF TypeOK
<1>1. ASSUME NEW p \in {t, AnyThread}, NEW n \in Int, Push(p, n), queue[p] + n >= 0, stray' = stray
      PROVE  queue' \in [Place -> Nat] /\ PostedLate(t)
  <2>1. p \in Place
    BY <1>1, Places
  <2>2. queue' \in [Place -> Nat] /\ \A q \in Place \ {p} : queue'[q] = queue[q]
    BY <1>1, <2>1, Pushed
  <2>3. QED BY <1>0, <1>1, <2>2, Places DEF PostedLate
<1>2. CASE Take(t)
  <2>1. PICK p \in {t, AnyThread} : queue[p] > 0 /\ Push(p, -1)
    BY <1>2 DEF Take
  <2>2. queue[p] + (-1) >= 0 /\ stray' = stray
    BY <1>2, <2>1, Places DEF TypeOK, Take
  <2>3. QED BY <1>1, <2>1, <2>2
<1>3. CASE Requeue(t) \/ Handle(t)
  <2>1. Push(AnyThread, 1) /\ stray' = stray
    BY <1>3 DEF Requeue, Handle
  <2>2. queue[AnyThread] + 1 >= 0
    BY Places DEF TypeOK
  <2>3. QED BY <1>1, <2>1, <2>2
<1>4. CASE ScheduleExpired(t)
  <2>1. Push(AnyThread, cbs[t]) /\ cbs[t] \in Nat /\ stray' = stray
    BY <1>4 DEF ScheduleExpired, TypeOK
  <2>2. queue[AnyThread] + cbs[t] >= 0
    BY <2>1, Places DEF TypeOK
  <2>3. QED BY <1>1, <2>1, <2>2
<1>5. CASE JobPosts(t)
  <2>1. PICK p \in Pins({t}) : Post(p)
    BY <1>5 DEF JobPosts
  <2>2. p \in Place
    BY <2>1, PinsTyped
  <2>3. QED BY <2>1, <2>2, Posted
<1>6. CASE \/ JobWaits(t) \/ JobAddsTimer(t) \/ JobEnds(t) \/ JobYields(t) \/ CountDown(t)
           \/ EpollWait(t) \/ Expire(t) \/ Drain(t) \/ Handled(t)
  <2>1. queue' = queue /\ stray' = stray
    BY <1>6 DEF JobWaits, JobAddsTimer, JobEnds, JobYields, CountDown, EpollWait, Expire,
       Drain, Handled
  <2>2. QED BY <1>0, <2>1 DEF TypeOK, PostedLate
<1>7. QED BY <1>2, <1>3, <1>4, <1>5, <1>6 DEF Usual, Job

-----------------------------------------------------------------------------
(* Types.                                                                   *)

LEMMA QueueTyped ==
  ASSUME TypeOK, Next
  PROVE  queue' \in [Place -> Nat] /\ stray' \subseteq Thread
<1> DEFINE Goal == queue' \in [Place -> Nat] /\ stray' \subseteq Thread
<1>1. ASSUME NEW t \in Thread, Usual(t) PROVE Goal
  BY <1>1, UsualTyped DEF PostedLate
<1>2. CASE UNCHANGED <<queue, stray>>
  BY <1>2 DEF TypeOK
<1>3. ASSUME NEW t \in Thread,
             FindNothing(t) \/ CallTickle(t) \/ IdleIn(t) \/ CheckStopping(t) \/ IdleOut(t)
      PROVE  Goal
  BY <1>2, <1>3 DEF FindNothing, CallTickle, IdleIn, CheckStopping, IdleOut
<1>4. CASE ProgramPosts
  <2>1. PICK p \in Pins(crew) : Post(p)
    BY <1>4 DEF ProgramPosts
  <2>2. crew \subseteq Thread
    BY DEF TypeOK, Thread
  <2>3. p \in Place
    BY <2>1, <2>2, PinsTyped
  <2>4. queue' \in [Place -> Nat]
    BY <2>1, <2>3, Posted
  <2>5. stray' \subseteq Thread
    BY <2>1, <2>3 DEF Post, Place, TypeOK
  <2>6. QED BY <2>4, <2>5
<1>5. CASE Outside \/ ProgramTickles \/ Stop
  BY <1>2, <1>5 DEF Outside, EventReady, TimerExpires, ProgramTickles, Stop, StopBegin,
     StopChecks, CallReturns, StopJoins
<1>6. QED BY <1>1, <1>3, <1>4, <1>5 DEF Next, Run, Usual

LEMMA UsedTyped ==
  ASSUME TypeOK, Next
  PROVE  used' \in [DOMAIN Bound -> Nat]
<1> HIDE DEF Bound
<1>1. CASE UNCHANGED used
  BY <1>1 DEF TypeOK
<1>2. ASSUME NEW t \in Thread, JobPosts(t) \/ JobWaits(t) \/ JobAddsTimer(t) \/ JobYields(t)
      PROVE  used' \in [DOMAIN Bound -> Nat]
  BY <1>2, UseTyped, Bounds DEF JobPosts, JobWaits, JobAddsTimer, JobYields
<1>3. ASSUME NEW t \in Thread,
             \/ Take(t) \/ JobEnds(t) \/ CountDown(t) \/ Requeue(t) \/ EpollWait(t) \/ Expire(t)
             \/ ScheduleExpired(t) \/ Drain(t) \/ Handle(t) \/ Handled(t)
             \/ FindNothing(t) \/ CallTickle(t) \/ IdleIn(t) \/ CheckStopping(t) \/ IdleOut(t)
      PROVE  used' \in [DOMAIN Bound -> Nat]
  BY <1>1, <1>3 DEF Take, JobEnds, CountDown, Requeue, EpollWait, Expire, ScheduleExpired,
     Drain, Handle, Handled, FindNothing, CallTickle, IdleIn, CheckStopping, IdleOut
<1>4. CASE ProgramPosts
  BY <1>4, UseTyped, Bounds DEF ProgramPosts
<1>5. CASE Outside \/ ProgramTickles \/ Stop
  BY <1>1, <1>5 DEF Outside, EventReady, TimerExpires, ProgramTickles, Stop, StopBegin,
     StopChecks, CallReturns, StopJoins
<1>6. QED BY <1>2, <1>3, <1>4, <1>5 DEF Next, Run, Job

LEMMA TimersTyped ==
  ASSUME TypeOK, Next
  PROVE  timers' \in Nat /\ due' \in 0 .. timers'
<1>0. timers \in Nat /\ due \in 0 .. timers
  BY DEF TypeOK
<1>1. CASE UNCHANGED <<timers, due>>
  BY <1>0, <1>1
<1>2. ASSUME NEW t \in Thread, JobAddsTimer(t) PROVE timers' = timers + 1 /\ due' = due
  BY <1>2 DEF JobAddsTimer
<1>3. ASSUME NEW t \in Thread, Expire(t) PROVE timers' = timers - due /\ due' = 0
  BY <1>3 DEF Expire
<1>4. ASSUME NEW t \in Thread,
             \/ JobPosts(t) \/ JobWaits(t) \/ JobYields(t)
             \/ Take(t) \/ JobEnds(t) \/ CountDown(t) \/ Requeue(t) \/ EpollWait(t)
             \/ ScheduleExpired(t) \/ Drain(t) \/ Handle(t) \/ Handled(t)
             \/ FindNothing(t) \/ CallTickle(t) \/ IdleIn(t) \/ CheckStopping(t) \/ IdleOut(t)
      PROVE  UNCHANGED <<timers, due>>
  BY <1>4 DEF JobPosts, JobWaits, JobYields, Take, JobEnds, CountDown, Requeue, EpollWait,
     ScheduleExpired, Drain, Handle, Handled, FindNothing, CallTickle, IdleIn, CheckStopping,
     IdleOut
<1>5. CASE TimerExpires
  BY <1>0, <1>5 DEF TimerExpires
<1>6. CASE EventReady \/ ProgramPosts \/ ProgramTickles \/ Stop
  BY <1>1, <1>6 DEF EventReady, ProgramPosts, ProgramTickles, Stop, StopBegin,
     StopChecks, CallReturns, StopJoins
<1>7. ASSUME NEW t \in Thread, Run(t) PROVE timers' \in Nat /\ due' \in 0 .. timers'
  <2>1. \/ UNCHANGED <<timers, due>>
        \/ timers' = timers + 1 /\ due' = due
        \/ timers' = timers - due /\ due' = 0
    BY <1>2, <1>3, <1>4, <1>7 DEF Run, Job
  <2>2. QED BY <1>0, <2>1
<1>8. QED BY <1>5, <1>6, <1>7 DEF Next, Outside

LEMMA FlagsTyped ==
  ASSUME TypeOK, Next
  PROVE  /\ crew' \in Crews /\ stopping' \in BOOLEAN /\ signal' \in BOOLEAN
         /\ control' \in {"open", "tickling", "calling", "joining", "stopped"} \cup Part
         /\ unheard' \in BOOLEAN /\ late' \in BOOLEAN
<1> DEFINE Control == {"open", "tickling", "calling", "joining", "stopped"} \cup Part
<1>0. /\ crew \in Crews /\ stopping \in BOOLEAN /\ signal \in BOOLEAN
      /\ control \in Control /\ unheard \in BOOLEAN /\ late \in BOOLEAN
  BY DEF TypeOK
<1>1. crew' = crew
  BY DEF Next, Run, Outside, EventReady, TimerExpires, ProgramPosts, ProgramTickles, Stop
<1>2. stopping' = stopping \/ stopping' = TRUE
  <2>1. ASSUME NEW t \in Thread, Run(t) PROVE stopping' = stopping
    <3>1. CASE Usual(t)
      BY <3>1, UsualMoves
    <3>2. CASE FindNothing(t) \/ CallTickle(t) \/ IdleIn(t) \/ CheckStopping(t) \/ IdleOut(t)
      BY <3>2 DEF FindNothing, CallTickle, IdleIn, CheckStopping, IdleOut
    <3>3. QED BY <2>1, <3>1, <3>2 DEF Run, Usual
  <2>2. CASE Outside \/ ProgramPosts \/ ProgramTickles \/ Stop
    BY <2>2 DEF Outside, EventReady, TimerExpires, ProgramPosts, ProgramTickles, Stop, StopBegin,
       StopChecks, CallReturns, StopJoins
  <2>3. QED BY <2>1, <2>2 DEF Next
<1>3. control' \in Control
  <2>1. ASSUME NEW t \in Thread, Run(t) PROVE control' = control
    <3>1. CASE Usual(t)
      BY <3>1, UsualMoves
    <3>2. CASE FindNothing(t) \/ CallTickle(t) \/ IdleIn(t) \/ CheckStopping(t) \/ IdleOut(t)
      BY <3>2 DEF FindNothing, CallTickle, IdleIn, CheckStopping, IdleOut
    <3>3. QED BY <2>1, <3>1, <3>2 DEF Run, Usual
  <2>2. CASE StopChecks
    BY <2>2, AskMoves
  <2>3. CASE ProgramPosts \/ ProgramTickles \/ StopBegin \/ CallReturns \/ StopJoins
    BY <2>3 DEF ProgramPosts, ProgramTickles, StopBegin, CallReturns, StopJoins
  <2>4. CASE Outside
    BY <1>0, <2>4 DEF Outside, EventReady, TimerExpires
  <2>5. QED BY <1>0, <2>1, <2>2, <2>3, <2>4 DEF Next, Stop
<1>4. /\ signal' \in BOOLEAN
      /\ unheard' \in BOOLEAN
      /\ late' \in BOOLEAN
  <2>1. signal' = signal \/ signal' = FALSE \/ Tickle
    <3>1. ASSUME NEW t \in Thread, Run(t) PROVE signal' = signal \/ signal' = FALSE \/ Tickle
      BY <3>1 DEF Run, Job, Take, FindNothing, CallTickle, JobPosts, JobWaits, JobAddsTimer,
         JobEnds, JobYields, CountDown, Requeue, IdleIn, CheckStopping, EpollWait, Expire,
         ScheduleExpired, Drain, Handle, Handled, IdleOut
    <3>2. CASE Outside \/ ProgramPosts \/ ProgramTickles \/ Stop
      BY <3>2 DEF Outside, EventReady, TimerExpires, ProgramPosts, ProgramTickles, Stop,
         StopBegin, StopChecks, CallReturns, StopJoins
    <3>3. QED BY <3>1, <3>2 DEF Next
  <2>2. unheard' = unheard \/ unheard' \in BOOLEAN \/ Tickle
    <3>1. ASSUME NEW t \in Thread, Run(t)
          PROVE  unheard' = unheard \/ unheard' \in BOOLEAN \/ Tickle
      BY <3>1 DEF Run, Job, Take, FindNothing, CallTickle, JobPosts, JobWaits, JobAddsTimer,
         JobEnds, JobYields, CountDown, Requeue, IdleIn, CheckStopping, EpollWait, Expire,
         ScheduleExpired, Drain, Handle, Handled, IdleOut
    <3>2. CASE Outside \/ ProgramPosts \/ ProgramTickles \/ Stop
      BY <3>2 DEF Outside, EventReady, TimerExpires, ProgramPosts, ProgramTickles, Stop,
         StopBegin, StopChecks, CallReturns, StopJoins
    <3>3. QED BY <3>1, <3>2 DEF Next
  <2>3. late' = late \/ late' \in BOOLEAN
    <3>1. ASSUME NEW t \in Thread, Run(t) PROVE late' = late \/ late' \in BOOLEAN
      BY <3>1 DEF Run, Job, Take, FindNothing, CallTickle, JobPosts, JobWaits, JobAddsTimer,
         JobEnds, JobYields, CountDown, Requeue, IdleIn, CheckStopping, EpollWait, Expire,
         ScheduleExpired, Drain, Handle, Handled, IdleOut
    <3>2. CASE Outside \/ ProgramPosts \/ ProgramTickles \/ Stop
      BY <3>2 DEF Outside, EventReady, TimerExpires, ProgramPosts, ProgramTickles, Stop,
         StopBegin, StopChecks, CallReturns, StopJoins
    <3>3. QED BY <3>1, <3>2 DEF Next
  <2>4. Tickle => signal' \in BOOLEAN /\ unheard' \in BOOLEAN
    BY DEF Tickle
  <2>5. QED BY <1>0, <2>1, <2>2, <2>3, <2>4
<1>5. QED BY <1>0, <1>1, <1>2, <1>3, <1>4

LEMMA ThreadsTyped ==
  ASSUME TypeOK, HoldsReports, Next
  PROVE  /\ pc' \in [Thread -> {"off", "scan", "job", "back", "backReady", "requeue", "idleIn",
                                "epoll", "expire", "scheduleExpired", "handle", "handled", "quiet",
                                "exit", "passOnThenRun", "passOnThenIdle", "jobTickles",
                                "yieldTickles", "timerTickles", "eventTickles"} \cup Part]
         /\ ended' \in [Thread -> BOOLEAN] /\ got' \in [Thread -> Nat] /\ drain' \subseteq Thread
         /\ cbs' \in [Thread -> Nat]
<1> DEFINE Spots == {"off", "scan", "job", "back", "backReady", "requeue", "idleIn",
                     "epoll", "expire", "scheduleExpired", "handle", "handled", "quiet",
                     "exit", "passOnThenRun", "passOnThenIdle", "jobTickles",
                     "yieldTickles", "timerTickles", "eventTickles"} \cup Part
<1>0. /\ pc \in [Thread -> Spots] /\ ended \in [Thread -> BOOLEAN] /\ got \in [Thread -> Nat]
      /\ drain \subseteq Thread /\ cbs \in [Thread -> Nat] /\ ready \in Nat /\ due \in Nat
  BY DEF TypeOK
<1>1. pc' \in [Thread -> Spots]
  <2>1. ASSUME NEW t \in Thread, NEW x \in Spots, pc' = [pc EXCEPT ![t] = x]
        PROVE  pc' \in [Thread -> Spots]
    <3> HIDE DEF Spots
    <3>1. QED BY <1>0, <2>1
  <2>2. ASSUME NEW t \in Thread, Run(t) PROVE pc' \in [Thread -> Spots]
    <3>1. CASE Usual(t)
      <4>1. PICK x : pc' = [pc EXCEPT ![t] = x] /\ x \in Busy
        BY <3>1, UsualMoves
      <4>2. x \in Spots
        BY <4>1 DEF Busy
      <4>3. QED BY <2>1, <4>1, <4>2
    <3>2. CASE FindNothing(t) \/ IdleIn(t) \/ IdleOut(t)
      <4>1. PICK x : /\ pc' = [pc EXCEPT ![t] = x]
                     /\ x \in {"passOnThenIdle", "exit", "idleIn", "readTimers", "scan"}
        BY <3>2 DEF FindNothing, AfterNothing, IdleIn, IdleOut
      <4>2. x \in Spots
        BY <4>1
      <4>3. QED BY <2>1, <4>1, <4>2
    <3>3. CASE CallTickle(t)
      <4>1. PICK x : /\ pc' = [pc EXCEPT ![t] = x]
                     /\ x \in {"job", "exit", "idleIn", "scan", "handle", "handled"}
        BY <3>3, TickleMoves DEF AfterNothing
      <4>2. x \in Spots
        BY <4>1
      <4>3. QED BY <2>1, <4>1, <4>2
    <3>4. CASE CheckStopping(t)
      <4>1. PICK x : /\ pc' = [pc EXCEPT ![t] = x]
                     /\ x \in {"readEvents", "readTasks", "quiet", "epoll"}
        BY <3>4, CheckMoves
      <4>2. x \in Spots
        BY <4>1
      <4>3. QED BY <2>1, <4>1, <4>2
    <3>5. QED BY <2>2, <3>1, <3>2, <3>3, <3>4 DEF Run, Usual
  <2>3. CASE StopChecks
    <3>1. CASE pc' = pc
      BY <1>0, <3>1
    <3>2. CASE pc' = [pc EXCEPT ![Caller] = "scan"]
      BY <1>0, <3>2
    <3>3. QED BY <2>3, <3>1, <3>2, AskMoves
  <2>4. CASE \/ Outside \/ ProgramPosts \/ ProgramTickles \/ StopBegin \/ CallReturns \/ StopJoins
    <3>1. pc' = pc
      BY <2>4 DEF Outside, EventReady, TimerExpires, ProgramPosts, ProgramTickles, StopBegin,
         CallReturns, StopJoins
    <3>2. QED BY <1>0, <3>1
  <2>5. QED BY <2>2, <2>3, <2>4 DEF Next, Stop
<1>2. ASSUME NEW t \in Thread, EpollWait(t) \/ Handled(t)
      PROVE  got' \in [Thread -> Nat] /\ drain' \subseteq Thread /\ UNCHANGED <<ended, cbs>>
  <2>1. CASE EpollWait(t)
    BY <1>0, <2>1 DEF EpollWait
  <2>2. CASE Handled(t)
    <3>1. got[t] > 0
      BY <2>2 DEF Handled, HoldsReports
    <3>2. QED BY <1>0, <2>2, <3>1 DEF Handled
  <2>3. QED BY <1>2, <2>1, <2>2
<1>3. ASSUME NEW t \in Thread, Expire(t) \/ ScheduleExpired(t)
      PROVE  cbs' \in [Thread -> Nat] /\ UNCHANGED <<ended, got, drain>>
  BY <1>0, <1>3 DEF Expire, ScheduleExpired
<1>4. ASSUME NEW t \in Thread, Drain(t)
      PROVE  drain' \subseteq Thread /\ UNCHANGED <<ended, got, cbs>>
  BY <1>0, <1>4 DEF Drain
<1>5. ASSUME NEW t \in Thread, IdleOut(t)
      PROVE  ended' \in [Thread -> BOOLEAN] /\ UNCHANGED <<got, drain, cbs>>
  BY <1>0, <1>5 DEF IdleOut
<1>6. ASSUME NEW t \in Thread,
             \/ Take(t) \/ Job(t) \/ CountDown(t) \/ Requeue(t) \/ Handle(t)
             \/ FindNothing(t) \/ CallTickle(t) \/ IdleIn(t) \/ CheckStopping(t)
      PROVE  UNCHANGED <<ended, got, drain, cbs>>
  BY <1>6 DEF Job, JobPosts, JobWaits, JobAddsTimer, JobEnds, JobYields, Take, CountDown,
     Requeue, Handle, FindNothing, CallTickle, IdleIn, CheckStopping
<1>7. CASE Outside \/ ProgramPosts \/ ProgramTickles \/ Stop
  <2>1. UNCHANGED <<ended, got, drain, cbs>>
    BY <1>7 DEF Outside, EventReady, TimerExpires, ProgramPosts, ProgramTickles, Stop, StopBegin,
       StopChecks, CallReturns, StopJoins
  <2>2. QED BY <1>0, <1>1, <2>1
<1>8. QED BY <1>0, <1>1, <1>2, <1>3, <1>4, <1>5, <1>6, <1>7 DEF Next, Run

LEMMA TypeNext ==
  ASSUME TypeOK, CountsThreads, HoldsReports, Members, Next
  PROVE  TypeOK'
<1>1. active' \in Nat /\ idle' \in Nat
  BY CountsNext, FS_CardinalityType DEF CountsThreads
<1>2. HoldsReports' /\ (ready + Reported <= pending)' /\ ready' \in Nat /\ pending' \in Nat
  BY ReportsNext
<1>3. QED
  BY <1>1, <1>2, QueueTyped, UsedTyped, TimersTyped, FlagsTyped, ThreadsTyped DEF TypeOK

-----------------------------------------------------------------------------
(* Where tasks wait there is a thread awake.                                *)

LEMMA TickleHeard ==
  ASSUME TypeOK, Tickle, ~Empty
  PROVE  signal' \/ unheard'
<1>1. idle = 0 \/ idle > 0
  BY DEF TypeOK
<1>2. QED BY <1>1, Zenon DEF Tickle

(* A step to a place that is awake. *)
LEMMA AwakeNext ==
  ASSUME TypeOK, NEW t \in Thread, NEW x, pc' = [pc EXCEPT ![t] = x], x \in Awake
  PROVE  Attended'
BY OneMoves DEF Attended, Awake

(* A step that leaves the list, the pipe and who is awake as they are. *)
LEMMA AttendedKept ==
  ASSUME TypeOK, Attended, UNCHANGED <<queue, signal, unheard>>,
         control = "tickling" => control' = "tickling",
         \A t \in Thread : pc[t] \in Awake => pc'[t] \in Awake
  PROVE  Attended'
BY DEF Attended, Empty

LEMMA AttendedNext ==
  ASSUME TypeOK, Attended, Members, Next
  PROVE  Attended'
<1>1. ASSUME NEW t \in Thread, Usual(t) PROVE Attended'
  <2>1. PICK x : pc' = [pc EXCEPT ![t] = x] /\ x \in Busy
    BY <1>1, UsualMoves
  <2>2. QED BY <2>1, AwakeNext DEF Awake
<1>2. ASSUME NEW t \in Thread, FindNothing(t) PROVE Attended'
  <2>1. CASE PassesOn(queue)
    <3>1. PICK x : x = "passOnThenIdle" /\ pc' = [pc EXCEPT ![t] = x]
      BY <1>2, <2>1 DEF FindNothing
    <3>2. QED BY <3>1, AwakeNext DEF Awake
  <2>2. CASE ~PassesOn(queue)
    <3>1. Empty /\ queue' = queue
      BY <1>2, <2>2 DEF FindNothing, PassesOn, Empty, TypeOK
    <3>2. QED BY <3>1 DEF Attended, Empty
  <2>3. QED BY <2>1, <2>2
<1>3. ASSUME NEW t \in Thread, CallTickle(t) PROVE Attended'
  <2>1. Tickle /\ queue' = queue
    BY <1>3 DEF CallTickle
  <2>2. QED BY <2>1, TickleHeard DEF Attended, Empty
<1>4. ASSUME NEW t \in Thread, IdleIn(t) \/ CheckStopping(t) PROVE Attended'
  <2>1. pc[t] \notin Awake
    BY <1>4 DEF IdleIn, CheckStopping, Awake, Busy
  <2>2. PICK x : pc' = [pc EXCEPT ![t] = x]
    BY <1>4 DEF IdleIn, CheckStopping
  <2>3. UNCHANGED <<queue, signal, unheard, control>>
    BY <1>4 DEF IdleIn, CheckStopping
  <2>4. QED BY <2>1, <2>2, <2>3, OneMoves, AttendedKept
<1>5. ASSUME NEW t \in Thread, IdleOut(t) PROVE Attended'
  <2>1. PICK x : x = "scan" /\ pc' = [pc EXCEPT ![t] = x]
    BY <1>5 DEF IdleOut
  <2>2. QED BY <2>1, AwakeNext DEF Awake, Busy
<1>6. CASE ProgramPosts
  BY <1>6 DEF ProgramPosts, Attended, Empty
<1>7. CASE ProgramTickles \/ StopBegin
  <2>1. Tickle /\ queue' = queue
    BY <1>7 DEF ProgramTickles, StopBegin
  <2>2. QED BY <2>1, TickleHeard DEF Attended, Empty
<1>8. CASE StopChecks
  <2>0. UNCHANGED <<queue, signal, unheard>> /\ control # "tickling"
    BY <1>8 DEF StopChecks
  <2>1. CASE pc' = pc
    BY <2>0, <2>1, AttendedKept
  <2>2. CASE Caller \in Thread /\ pc' = [pc EXCEPT ![Caller] = "scan"]
    <3>1. PICK x : x = "scan" /\ pc' = [pc EXCEPT ![Caller] = x]
      BY <2>2
    <3>2. QED BY <2>2, <3>1, AwakeNext DEF Awake, Busy
  <2>3. CASE Caller \notin Thread /\ pc' = [pc EXCEPT ![Caller] = "scan"]
    BY <2>1, <2>3 DEF TypeOK
  <2>4. QED BY <1>8, <2>1, <2>2, <2>3, AskMoves
<1>9. CASE Outside \/ CallReturns \/ StopJoins
  <2>1. UNCHANGED <<queue, signal, unheard, pc>> /\ (control = "tickling" => control' = "tickling")
    BY <1>9 DEF Outside, EventReady, TimerExpires, CallReturns, StopJoins
  <2>2. QED BY <2>1, AttendedKept
<1>10. QED
  BY <1>1, <1>2, <1>3, <1>4, <1>5, <1>6, <1>7, <1>8, <1>9 DEF Next, Run, Usual, Stop

-----------------------------------------------------------------------------
(* Who runs, and who leaves.                                                *)

(* From where and to where a thread goes in run(). *)
LEMMA RunMoves ==
  ASSUME TypeOK, NEW t \in Thread, Run(t)
  PROVE  /\ UNCHANGED <<crew, stopping, control>>
         /\ pc[t] \notin {"off", "exit"}
         /\ \E x : pc' = [pc EXCEPT ![t] = x] /\ x # "off"
<1>0. crew' = crew
  BY DEF Run
<1>1. CASE Usual(t)
  <2>1. PICK x : /\ pc' = [pc EXCEPT ![t] = x]
                 /\ x \in Busy /\ pc[t] \in Busy \cup {"epoll"}
                 /\ UNCHANGED <<stopping, control, ended>>
    BY <1>1, UsualMoves
  <2>2. x # "off" /\ pc[t] \notin {"off", "exit"}
    BY <2>1 DEF Busy
  <2>3. QED BY <1>0, <2>1, <2>2
<1>2. CASE FindNothing(t)
  <2>1. PICK x : pc' = [pc EXCEPT ![t] = x] /\ x \in {"passOnThenIdle", "exit", "idleIn"}
    BY <1>2 DEF FindNothing, AfterNothing
  <2>2. pc[t] = "scan" /\ UNCHANGED <<stopping, control>>
    BY <1>2 DEF FindNothing
  <2>3. QED BY <1>0, <2>1, <2>2
<1>3. CASE CallTickle(t)
  <2>1. PICK x : /\ pc' = [pc EXCEPT ![t] = x]
                 /\ x \in {"job", "exit", "idleIn", "scan", "handle", "handled"}
                 /\ pc[t] \notin {"off", "exit"}
    BY <1>3, TickleMoves DEF AfterNothing
  <2>2. UNCHANGED <<stopping, control>>
    BY <1>3 DEF CallTickle
  <2>3. QED BY <1>0, <2>1, <2>2
<1>4. CASE IdleIn(t) \/ IdleOut(t)
  <2>1. PICK x : pc' = [pc EXCEPT ![t] = x] /\ x \in {"readTimers", "scan"}
    BY <1>4 DEF IdleIn, IdleOut
  <2>2. pc[t] \notin {"off", "exit"} /\ UNCHANGED <<stopping, control>>
    BY <1>4 DEF IdleIn, IdleOut
  <2>3. QED BY <1>0, <2>1, <2>2
<1>5. CASE CheckStopping(t)
  <2>1. UNCHANGED <<stopping, control>>
    BY <1>5 DEF CheckStopping
  <2>2. QED BY <1>0, <1>5, <2>1, CheckMoves
<1>6. QED BY <1>1, <1>2, <1>3, <1>4, <1>5 DEF Run, Usual

LEMMA MembersNext ==
  ASSUME TypeOK, Members, Next
  PROVE  Members'
<1>0. crew \subseteq Thread
  BY DEF Members
<1>1. ASSUME NEW t \in Thread, Run(t) PROVE Members'
  <2>1. PICK x : pc' = [pc EXCEPT ![t] = x] /\ x # "off"
    BY <1>1, RunMoves
  <2>2. /\ UNCHANGED <<crew, control>> /\ pc[t] \notin {"off", "exit"}
        /\ pc'[t] # "off" /\ \A u \in Thread \ {t} : pc'[u] = pc[u]
    BY <1>1, <2>1, RunMoves, OneMoves
  <2>3. QED BY <2>2 DEF Members
<1>2. CASE StopChecks /\ crew' = crew
  <2>0. crew' = crew /\ control \in Part /\ Caller \in crew
    BY <1>2 DEF StopChecks, Members
  <2>1. CASE pc' = pc
    BY <1>2, <2>0, <2>1, AskMoves DEF Members
  <2>2. CASE control' = "calling" /\ pc' = [pc EXCEPT ![Caller] = "scan"]
    <3>1. PICK x : x = "scan" /\ pc' = [pc EXCEPT ![Caller] = x]
      BY <2>2
    <3>2. pc'[Caller] = "scan" /\ \A u \in Thread \ {Caller} : pc'[u] = pc[u]
      BY <1>0, <2>0, <3>1, OneMoves
    <3>3. QED BY <1>0, <2>0, <2>2, <3>2 DEF Members
  <2>3. QED BY <1>2, <2>1, <2>2, AskMoves
<1>3. CASE StopBegin /\ crew' = crew
  BY <1>3 DEF StopBegin, Members
<1>4. CASE CallReturns /\ crew' = crew
  BY <1>4 DEF CallReturns, Members
<1>5. CASE StopJoins /\ crew' = crew
  BY <1>5 DEF StopJoins, Members
<1>6. CASE ProgramPosts \/ ProgramTickles
  BY <1>6 DEF ProgramPosts, ProgramTickles, Members
<1>7. CASE Outside
  BY <1>7 DEF Outside, EventReady, TimerExpires, Members
<1>8. QED BY <1>1, <1>2, <1>3, <1>4, <1>5, <1>6, <1>7 DEF Next, Stop

LEMMA LeavingNext ==
  ASSUME TypeOK, Leaving, Members, Next
  PROVE  Leaving'
<1>0. ended \in [Thread -> BOOLEAN]
  BY DEF TypeOK
<1>1. ASSUME NEW t \in Thread, NEW x, pc' = [pc EXCEPT ![t] = x],
             UNCHANGED <<stopping, control, ended>>,
             x = "exit" => ended[t], x = "quiet" => stopping
      PROVE  Leaving'
  <2>1. pc'[t] = x /\ \A u \in Thread \ {t} : pc'[u] = pc[u]
    BY <1>1, OneMoves
  <2>2. QED BY <1>1, <2>1 DEF Leaving
<1>2. ASSUME NEW t \in Thread, Usual(t) PROVE Leaving'
  <2>1. PICK x : /\ pc' = [pc EXCEPT ![t] = x] /\ x \in Busy
                 /\ UNCHANGED <<stopping, control, ended>>
    BY <1>2, UsualMoves
  <2>2. x # "exit" /\ x # "quiet"
    BY <2>1 DEF Busy
  <2>3. QED BY <1>1, <2>1, <2>2
<1>3. ASSUME NEW t \in Thread, FindNothing(t) \/ IdleIn(t) PROVE Leaving'
  <2>1. PICK x : /\ pc' = [pc EXCEPT ![t] = x] /\ x # "quiet"
                 /\ x = "exit" => ended[t]
    BY <1>3 DEF FindNothing, AfterNothing, IdleIn
  <2>2. UNCHANGED <<stopping, control, ended>>
    BY <1>3 DEF FindNothing, IdleIn
  <2>3. QED BY <1>1, <2>1, <2>2
<1>4. ASSUME NEW t \in Thread, CallTickle(t) PROVE Leaving'
  <2>1. PICK x : /\ pc' = [pc EXCEPT ![t] = x] /\ x # "quiet"
                 /\ x = "exit" => ended[t]
    BY <1>4, TickleMoves DEF AfterNothing
  <2>2. UNCHANGED <<stopping, control, ended>>
    BY <1>4 DEF CallTickle
  <2>3. QED BY <1>1, <2>1, <2>2
<1>5. ASSUME NEW t \in Thread, CheckStopping(t) PROVE Leaving'
  <2>1. PICK x : /\ pc' = [pc EXCEPT ![t] = x] /\ x # "exit"
                 /\ x = "quiet" => stopping
    BY <1>5, CheckMoves
  <2>2. UNCHANGED <<stopping, control, ended>>
    BY <1>5 DEF CheckStopping
  <2>3. QED BY <1>1, <2>1, <2>2
<1>6. ASSUME NEW t \in Thread, IdleOut(t) PROVE Leaving'
  <2>1. /\ pc' = [pc EXCEPT ![t] = "scan"] /\ ended' = [ended EXCEPT ![t] = (pc[t] = "quiet")]
        /\ UNCHANGED <<stopping, control>>
    BY <1>6 DEF IdleOut
  <2>2. PICK x : x = "scan" /\ pc' = [pc EXCEPT ![t] = x]
    BY <2>1
  <2>3. pc'[t] = "scan" /\ \A u \in Thread \ {t} : pc'[u] = pc[u]
    BY <2>2, OneMoves
  <2>4. ended'[t] = (pc[t] = "quiet") /\ \A u \in Thread \ {t} : ended'[u] = ended[u]
    BY <1>0, <2>1
  <2>5. QED BY <2>1, <2>3, <2>4 DEF Leaving
<1>7. CASE StopChecks
  <2>0. UNCHANGED <<stopping, ended>> /\ control \in Part
    BY <1>7 DEF StopChecks
  <2>1. CASE pc' = pc
    BY <1>7, <2>0, <2>1, AskMoves DEF Leaving
  <2>2. CASE control' = "calling" /\ pc' = [pc EXCEPT ![Caller] = "scan"]
    <3>1. PICK x : x = "scan" /\ pc' = [pc EXCEPT ![Caller] = x]
      BY <2>2
    <3>2. Caller \in Thread
      BY <2>0 DEF Members
    <3>3. pc'[Caller] = "scan" /\ \A u \in Thread \ {Caller} : pc'[u] = pc[u]
      BY <3>1, <3>2, OneMoves
    <3>4. QED BY <2>0, <2>2, <3>2, <3>3 DEF Leaving
  <2>3. QED BY <1>7, <2>1, <2>2, AskMoves
<1>8. CASE StopBegin \/ CallReturns \/ StopJoins \/ ProgramPosts \/ ProgramTickles
  BY <1>8 DEF StopBegin, CallReturns, StopJoins, ProgramPosts, ProgramTickles, Leaving
<1>9. CASE Outside
  BY <1>9 DEF Outside, EventReady, TimerExpires, Leaving
<1>10. QED
  BY <1>2, <1>3, <1>4, <1>5, <1>6, <1>7, <1>8, <1>9 DEF Next, Run, Usual, Stop

-----------------------------------------------------------------------------
(* What is listed has a thread to look for it.                              *)

(* Who has left, when one thread moves. *)
LEMMA LeftKept ==
  ASSUME TypeOK, Members, NEW t \in Thread, NEW x, pc' = [pc EXCEPT ![t] = x],
         pc[t] \notin {"off", "exit"}, UNCHANGED <<crew, control>>,
         \A u \in Thread \ {t} : ended'[u] = ended[u]
  PROVE  /\ \A u \in Thread \ {t} : Left(u)' <=> Left(u)
         /\ Left(t)' <=> x = "exit" \/ (x = "passOnThenIdle" /\ ended'[t])
<1>1. pc'[t] = x /\ \A u \in Thread \ {t} : pc'[u] = pc[u]
  BY OneMoves
<1>2. t \in crew /\ ~(t = Caller /\ control \in {"joining", "stopped"})
  BY DEF Members
<1>3. QED BY <1>1, <1>2 DEF Left

(* A thread that goes on may list tasks for itself and for all, and what *)
(* it lists for a thread that has left is noted.                         *)
LEMMA ServedOn ==
  ASSUME TypeOK, Members, Served, NEW t \in Thread, NEW x, pc' = [pc EXCEPT ![t] = x],
         pc[t] \notin {"off", "exit"}, UNCHANGED <<crew, control>>,
         x \notin {"off", "exit", "passOnThenIdle"},
         \A u \in Thread \ {t} : ended'[u] = ended[u],
         PostedLate(t), Foreign = {} => stray' = {}
  PROVE  Served'
<1>1. ~Left(t)' /\ \A u \in Thread \ {t} : Left(u)' <=> Left(u)
  BY LeftKept
<1>2. ASSUME NEW u \in Thread, Left(u)' PROVE queue'[u] = 0 \/ u \in stray'
  <2>1. u # t /\ Left(u)
    BY <1>1, <1>2
  <2>2. QED BY <2>1 DEF Served, PostedLate
<1>3. QED BY <1>1, <1>2 DEF Served

LEMMA ServedKept ==
  ASSUME Served, UNCHANGED <<queue, stopping, stray>>, control \in Part => control' \in Part,
         \A u \in Thread : Left(u)' <=> Left(u)
  PROVE  Served'
BY DEF Served

(* Where Foreign is empty, nothing is listed for a thread that has left. *)
LEMMA NoStray ==
  ASSUME TypeOK, Members, Leaving, Served, Foreign = {}, Next
  PROVE  stray' = {}
<1>0. stray = {} /\ crew \subseteq Thread
  BY DEF Served, Members
<1>1. ASSUME NEW t \in Thread, JobPosts(t) PROVE stray' = {}
  <2>1. PICK p \in {t, AnyThread} : Post(p)
    BY <1>1, PinsTyped DEF JobPosts
  <2>2. ~Left(t)
    BY <1>1 DEF JobPosts, Left, Members
  <2>3. QED BY <1>0, <2>1, <2>2 DEF Post
<1>2. CASE ProgramPosts
  <2>1. PICK p \in crew \cup {AnyThread} : Post(p)
    BY <1>0, <1>2, PinsTyped DEF ProgramPosts
  <2>2. \A u \in crew : ~Left(u)
    BY <1>0, <1>2 DEF ProgramPosts, Left, Leaving
  <2>3. QED BY <1>0, <2>1, <2>2 DEF Post
<1>3. ASSUME NEW t \in Thread,
             \/ JobWaits(t) \/ JobAddsTimer(t) \/ JobEnds(t) \/ JobYields(t)
             \/ Take(t) \/ CountDown(t) \/ Requeue(t) \/ EpollWait(t) \/ Expire(t)
             \/ ScheduleExpired(t) \/ Drain(t) \/ Handle(t) \/ Handled(t)
             \/ FindNothing(t) \/ CallTickle(t) \/ IdleIn(t) \/ CheckStopping(t) \/ IdleOut(t)
      PROVE  stray' = stray
  BY <1>3 DEF JobWaits, JobAddsTimer, JobEnds, JobYields, Take, CountDown, Requeue, EpollWait,
     Expire, ScheduleExpired, Drain, Handle, Handled, FindNothing, CallTickle, IdleIn,
     CheckStopping, IdleOut
<1>4. CASE Outside \/ ProgramTickles \/ Stop
  BY <1>0, <1>4 DEF Outside, EventReady, TimerExpires, ProgramTickles, Stop, StopBegin,
     StopChecks, CallReturns, StopJoins
<1>5. QED BY <1>0, <1>1, <1>2, <1>3, <1>4 DEF Next, Run, Job

LEMMA ServedNext ==
  ASSUME TypeOK, Served, Members, Leaving, Next
  PROVE  Served'
<1>0. Foreign = {} => stray' = {}
  BY NoStray
<1>1. ASSUME NEW t \in Thread, Usual(t), Run(t) PROVE Served'
  <2>1. PICK x : /\ pc' = [pc EXCEPT ![t] = x] /\ x \in Busy
                 /\ UNCHANGED <<stopping, control, ended>>
    BY <1>1, UsualMoves
  <2>2. x \notin {"off", "exit", "passOnThenIdle"}
    BY <2>1 DEF Busy
  <2>3. PostedLate(t)
    BY <1>1, UsualTyped
  <2>4. pc[t] \notin {"off", "exit"} /\ UNCHANGED <<crew, control>>
    BY <1>1, RunMoves
  <2>5. QED BY <1>0, <2>1, <2>2, <2>3, <2>4, ServedOn
<1>2. ASSUME NEW t \in Thread, FindNothing(t), Run(t) PROVE Served'
  <2>1. PICK x : pc' = [pc EXCEPT ![t] = x]
    BY <1>2 DEF FindNothing
  <2>2. /\ queue[t] = 0 /\ queue[AnyThread] = 0
        /\ UNCHANGED <<queue, stopping, control, ended, stray>>
    BY <1>2 DEF FindNothing
  <2>3. pc[t] \notin {"off", "exit"} /\ UNCHANGED <<crew, control>>
    BY <1>2, RunMoves
  <2>4. \A u \in Thread \ {t} : Left(u)' <=> Left(u)
    BY <2>1, <2>2, <2>3, LeftKept
  <2>5. QED BY <2>2, <2>4 DEF Served
<1>3. ASSUME NEW t \in Thread, CallTickle(t), Run(t) PROVE Served'
  <2>1. UNCHANGED <<queue, stopping, control, ended, stray>>
    BY <1>3 DEF CallTickle
  <2>2. PICK x : /\ pc' = [pc EXCEPT ![t] = x]
                 /\ \/ pc[t] = "passOnThenIdle" /\ x = AfterNothing(t)
                    \/ x \in {"job", "scan", "handle", "handled"}
    BY <1>3, TickleMoves
  <2>3. pc[t] \notin {"off", "exit"} /\ UNCHANGED <<crew, control>>
    BY <1>3, RunMoves
  <2>4. /\ \A u \in Thread \ {t} : Left(u)' <=> Left(u)
        /\ Left(t)' <=> x = "exit" \/ (x = "passOnThenIdle" /\ ended'[t])
    BY <2>1, <2>2, <2>3, LeftKept
  <2>5. CASE pc[t] = "passOnThenIdle" /\ x = AfterNothing(t)
    <3>1. Left(t)' => Left(t)
      BY <2>4, <2>5 DEF Left, AfterNothing
    <3>2. ASSUME NEW u \in Thread, Left(u)' PROVE Left(u)
      BY <2>4, <3>1, <3>2
    <3>3. ASSUME NEW u \in Thread, Left(u) PROVE Left(u)'
      <4>1. CASE u = t
        <5>1. ended[t]
          BY <2>3, <2>5, <3>3, <4>1 DEF Left, Members
        <5>2. QED BY <2>4, <2>5, <4>1, <5>1 DEF AfterNothing
      <4>2. QED BY <2>4, <3>3, <4>1
    <3>4. QED BY <2>1, <3>2, <3>3, ServedKept
  <2>6. CASE x \in {"job", "scan", "handle", "handled"}
    <3>1. ~Left(t)'
      BY <2>4, <2>6
    <3>2. QED BY <2>1, <2>4, <3>1 DEF Served
  <2>7. QED BY <2>2, <2>5, <2>6
<1>4. ASSUME NEW t \in Thread, IdleIn(t) \/ CheckStopping(t) \/ IdleOut(t), Run(t) PROVE Served'
  <2>1. PICK x : pc' = [pc EXCEPT ![t] = x] /\ x \notin {"off", "exit", "passOnThenIdle"}
    BY <1>4, CheckMoves DEF IdleIn, IdleOut
  <2>2. UNCHANGED <<queue, stray>> /\ \A u \in Thread \ {t} : ended'[u] = ended[u]
    BY <1>4 DEF IdleIn, CheckStopping, IdleOut, TypeOK
  <2>3. PostedLate(t)
    BY <2>2 DEF PostedLate, TypeOK
  <2>4. pc[t] \notin {"off", "exit"} /\ UNCHANGED <<crew, control>>
    BY <1>4, RunMoves
  <2>5. QED BY <1>0, <2>1, <2>2, <2>3, <2>4, ServedOn
<1>5. CASE ProgramPosts
  <2>1. PICK p \in Pins(crew) : Post(p)
    BY <1>5 DEF ProgramPosts
  <2>2. UNCHANGED <<crew, pc, ended, stopping>> /\ ~stopping
    BY <1>5 DEF ProgramPosts, Leaving
  <2>3. p \in Place
    BY <2>1, PinsTyped DEF Members
  <2>4. /\ stray \subseteq stray'
        /\ \A u \in Thread : queue'[u] = queue[u] \/ (Left(u) => u \in stray')
    BY <2>1, <2>3, Pushed, Places DEF Post, TypeOK
  <2>5. \A u \in Thread : Left(u)' <=> Left(u)
    BY <1>5, <2>2 DEF ProgramPosts, Left
  <2>6. ASSUME NEW u \in Thread, Left(u)' PROVE queue'[u] = 0 \/ u \in stray'
    BY <2>4, <2>5, <2>6 DEF Served
  <2>7. QED BY <1>0, <2>2, <2>6 DEF Served
<1>6. CASE StopBegin /\ crew' = crew
  <2>1. UNCHANGED <<queue, pc, ended, stray>> /\ ~stopping /\ control = "open"
    BY <1>6 DEF StopBegin, Leaving
  <2>2. \A u \in crew : ~Left(u)
    BY <2>1 DEF Left, Leaving, Members
  <2>3. CASE Caller \in crew
    <3>1. control' = "readTimers"
      BY <1>6, <2>3 DEF StopBegin
    <3>2. \A u \in Thread : Left(u)' <=> Left(u)
      BY <1>6, <2>1, <3>1 DEF Left
    <3>3. QED BY <2>1, <3>1, <3>2 DEF Served
  <2>4. CASE Caller \notin crew
    <3>1. PICK u \in crew : u # Caller
      BY <2>4, IOManagerAssumption DEF TypeOK
    <3>2. \A w \in Thread : Left(w)' <=> Left(w)
      BY <1>6, <2>1, <2>4 DEF Left
    <3>3. u \in Thread /\ ~Left(u)'
      BY <2>2, <3>1, <3>2 DEF Members
    <3>4. QED BY <2>1, <3>2, <3>3 DEF Served
  <2>5. QED BY <2>3, <2>4
<1>7. CASE StopChecks /\ crew' = crew
  <2>0. /\ UNCHANGED <<queue, stopping, ended, stray, crew>> /\ control \in Part
        /\ crew \subseteq Thread
    BY <1>7 DEF StopChecks, Members
  <2>1. CASE pc' = pc /\ control' \in Part
    <3>1. \A u \in Thread : Left(u)' <=> Left(u)
      BY <2>0, <2>1 DEF Left
    <3>2. QED BY <2>0, <2>1, <3>1, ServedKept
  <2>2. CASE pc' = pc /\ Empty
    BY <2>0, <2>2, Places DEF Served, Empty, Place
  <2>3. CASE control' = "calling" /\ pc' = [pc EXCEPT ![Caller] = "scan"]
    <3>1. PICK x : x = "scan" /\ pc' = [pc EXCEPT ![Caller] = x]
      BY <2>3
    <3>2. Caller \in crew
      BY <2>0 DEF Members
    <3>3. pc'[Caller] = "scan" /\ \A u \in Thread \ {Caller} : pc'[u] = pc[u]
      BY <2>0, <3>1, <3>2, OneMoves
    <3>4. ~Left(Caller)' /\ \A u \in Thread \ {Caller} : Left(u)' <=> Left(u)
      BY <2>0, <2>3, <3>2, <3>3 DEF Left
    <3>5. QED BY <2>0, <3>2, <3>4 DEF Served
  <2>4. QED BY <1>7, <2>1, <2>2, <2>3, AskMoves
<1>8. CASE (CallReturns \/ StopJoins) /\ crew' = crew
  <2>1. UNCHANGED <<queue, stopping, pc, ended, crew, stray>> /\ control \notin Part
    BY <1>8 DEF CallReturns, StopJoins
  <2>2. \A u \in Thread : Left(u)' <=> Left(u)
    BY <1>8, <2>1 DEF Left, CallReturns, StopJoins
  <2>3. QED BY <2>1, <2>2, ServedKept
<1>9. CASE ProgramTickles \/ Outside
  <2>1. /\ UNCHANGED <<queue, stopping, pc, ended, crew, stray>>
        /\ control' = control \/ (control = "tickling" /\ control' = "open")
    BY <1>9 DEF ProgramTickles, Outside, EventReady, TimerExpires
  <2>2. \A u \in Thread : Left(u)' <=> Left(u)
    BY <2>1 DEF Left
  <2>3. QED BY <2>1, <2>2, ServedKept
<1>10. QED
  BY <1>1, <1>2, <1>3, <1>4, <1>5, <1>6, <1>7, <1>8, <1>9 DEF Next, Run, Usual, Stop

-----------------------------------------------------------------------------
(* What a thread on its way out has read.                                   *)

(* A step that brings nobody further out and arms nothing. *)
LEMMA ReadKept ==
  ASSUME Read, late' = late,
         timers = 0 => timers' = 0, pending = 0 => pending' = 0,
         Missed("readTimers")' => Missed("readTimers") \/ Alone,
         Missed("readEvents")' => Missed("readEvents") \/ Alone,
         Alone' => Alone \/ (Missed("readTimers") /\ Missed("readEvents"))
  PROVE  Read'
BY DEF Read

LEMMA MissedParts ==
  /\ Missed("readTimers") <=>
       \/ control \in {"readEvents", "readTasks", "quiet"}
       \/ \E t \in Thread : ended[t] \/ pc[t] \in {"readEvents", "readTasks", "quiet"}
  /\ Missed("readEvents") <=>
       \/ control \in {"readTasks", "quiet"}
       \/ \E t \in Thread : ended[t] \/ pc[t] \in {"readTasks", "quiet"}
BY DEF Missed, After

(* A step of a thread to where it has not begun to read what is armed. *)
LEMMA MissedLess ==
  ASSUME TypeOK, NEW t \in Thread, NEW x, pc' = [pc EXCEPT ![t] = x],
         x \notin {"off", "readEvents", "readTasks", "quiet"}, control' = control,
         \A u \in Thread : ended'[u] => ended[u]
  PROVE  /\ Missed("readTimers")' => Missed("readTimers")
         /\ Missed("readEvents")' => Missed("readEvents")
         /\ ~Alone'
<1>1. pc'[t] = x /\ \A u \in Thread \ {t} : pc'[u] = pc[u]
  BY OneMoves
<1>2. ~Alone'
  BY <1>1 DEF Alone
<1>3. \A S : control' \in S => control \in S
  OBVIOUS
<1>4. \A u \in Thread : pc'[u] \in {"readEvents", "readTasks", "quiet"} =>
                          pc[u] \in {"readEvents", "readTasks", "quiet"}
  BY <1>1
<1>5. \A u \in Thread : pc'[u] \in {"readTasks", "quiet"} => pc[u] \in {"readTasks", "quiet"}
  BY <1>1
<1>6. QED BY <1>2, <1>3, <1>4, <1>5, MissedParts DEF Missed, After

LEMMA ReadNext ==
  ASSUME TypeOK, HoldsReports, Read, Members, Leaving, Next
  PROVE  Read'
<1>0. timers \in Nat /\ pending \in Nat /\ due \in 0 .. timers
  BY DEF TypeOK
<1>t. timers' \in Nat
  BY TimersTyped
<1>p. pending' \in Nat
  BY ReportsNext
<1>1. ASSUME NEW t \in Thread, Usual(t) PROVE Read'
  <2>1. PICK x : /\ pc' = [pc EXCEPT ![t] = x] /\ x \in Busy
                 /\ UNCHANGED <<stopping, control, ended>>
    BY <1>1, UsualMoves
  <2>2. x \notin {"off", "readEvents", "readTasks", "quiet"}
    BY <2>1 DEF Busy
  <2>3. /\ Missed("readTimers")' => Missed("readTimers")
        /\ Missed("readEvents")' => Missed("readEvents")
        /\ ~Alone'
    BY <2>1, <2>2, MissedLess
  <2>4. CASE JobWaits(t)
    <3>1. timers' = timers /\ (late' <=> late \/ Missed("readEvents"))
      BY <2>4 DEF JobWaits
    <3>2. QED BY <2>3, <3>1 DEF Read
  <2>5. CASE JobAddsTimer(t)
    <3>1. pending' = pending /\ (late' <=> late \/ Missed("readTimers"))
      BY <2>5 DEF JobAddsTimer
    <3>2. QED BY <2>3, <3>1 DEF Read
  <2>6. CASE Expire(t)
    <3>1. pending' = pending /\ late' = late /\ timers' = timers - due
      BY <2>6 DEF Expire
    <3>2. due \in Int /\ 0 <= due /\ due <= timers
      BY <1>0
    <3>3. ASSUME timers = 0 PROVE timers' = 0
      <4>1. due = 0
        BY <3>2, <3>3
      <4>2. timers' = timers - due
        BY <3>1
      <4>3. QED BY <3>3, <4>1, <4>2
    <3>4. QED BY <2>3, <3>1, <3>3, ReadKept
  <2>7. CASE Handled(t)
    <3>1. pending' = pending - 1 /\ late' = late /\ timers' = timers
      BY <2>7 DEF Handled
    <3>2. pending # 0
      BY <1>0, <1>p, <3>1
    <3>3. QED BY <2>3, <3>1, <3>2, ReadKept
  <2>8. CASE \/ JobPosts(t) \/ JobEnds(t) \/ JobYields(t) \/ Take(t) \/ CountDown(t) \/ Requeue(t)
             \/ EpollWait(t) \/ ScheduleExpired(t) \/ Drain(t) \/ Handle(t)
    <3>1. UNCHANGED <<pending, timers, late>>
      BY <2>8 DEF JobPosts, JobEnds, JobYields, Take, CountDown, Requeue, EpollWait,
         ScheduleExpired, Drain, Handle
    <3>2. QED BY <2>3, <3>1, ReadKept
  <2>9. QED BY <1>1, <2>4, <2>5, <2>6, <2>7, <2>8 DEF Usual, Job
<1>2. ASSUME NEW t \in Thread, FindNothing(t) \/ IdleIn(t) \/ CallTickle(t) PROVE Read'
  <2>1. PICK x : /\ pc' = [pc EXCEPT ![t] = x]
                 /\ x \notin {"off", "readEvents", "readTasks", "quiet"}
    BY <1>2, TickleMoves DEF FindNothing, AfterNothing, IdleIn
  <2>2. UNCHANGED <<control, ended, pending, timers, late>>
    BY <1>2 DEF FindNothing, IdleIn, CallTickle
  <2>3. QED BY <2>1, <2>2, MissedLess, ReadKept
<1>3. ASSUME NEW t \in Thread, CheckStopping(t) PROVE Read'
  <2>0. UNCHANGED <<control, ended, pending, timers, late>>
    BY <1>3 DEF CheckStopping
  <2>1. CASE pc' = [pc EXCEPT ![t] = "epoll"]
    <3>1. PICK x : x = "epoll" /\ pc' = [pc EXCEPT ![t] = x]
      BY <2>1
    <3>2. QED BY <2>0, <3>1, MissedLess, ReadKept
  <2>2. CASE pc[t] = "readTimers" /\ timers = 0 /\ pc' = [pc EXCEPT ![t] = "readEvents"]
    <3>1. PICK x : x = "readEvents" /\ pc' = [pc EXCEPT ![t] = x]
      BY <2>2
    <3>2. pc'[t] = "readEvents" /\ \A u \in Thread \ {t} : pc'[u] = pc[u]
      BY <3>1, OneMoves
    <3>3. Missed("readEvents")' => Missed("readEvents")
      BY <2>0, <3>2 DEF Missed, After
    <3>4. ~Alone' /\ timers' = 0
      BY <2>0, <2>2, <3>2 DEF Alone
    <3>5. QED BY <2>0, <3>3, <3>4 DEF Read
  <2>3. CASE pc[t] = "readEvents" /\ pending = 0 /\ pc' = [pc EXCEPT ![t] = "readTasks"]
    <3>1. Missed("readTimers")
      BY <2>3, MissedParts
    <3>2. PICK x : x = "readTasks" /\ pc' = [pc EXCEPT ![t] = x]
      BY <2>3
    <3>3. ~Alone'
      BY <3>2, OneMoves DEF Alone
    <3>4. QED BY <2>0, <2>3, <3>1, <3>3 DEF Read
  <2>4. CASE pc[t] = "readTasks" /\ pc' = [pc EXCEPT ![t] = "quiet"]
    <3>1. Missed("readTimers") /\ Missed("readEvents")
      BY <2>4, MissedParts
    <3>2. PICK x : x = "quiet" /\ pc' = [pc EXCEPT ![t] = x]
      BY <2>4
    <3>3. ~Alone'
      BY <3>2, OneMoves DEF Alone
    <3>4. QED BY <2>0, <3>1, <3>3 DEF Read
  <2>5. QED BY <1>3, <2>1, <2>2, <2>3, <2>4, CheckMoves
<1>4. ASSUME NEW t \in Thread, IdleOut(t) PROVE Read'
  <2>0. UNCHANGED <<control, pending, timers, late>>
    BY <1>4 DEF IdleOut
  <2>1. PICK x : x = "scan" /\ pc' = [pc EXCEPT ![t] = x]
    BY <1>4 DEF IdleOut
  <2>2. ended' = [ended EXCEPT ![t] = (pc[t] = "quiet")]
    BY <1>4 DEF IdleOut
  <2>3. CASE pc[t] = "quiet"
    <3>1. Missed("readTimers") /\ Missed("readEvents")
      BY <2>3, MissedParts
    <3>2. ~Alone'
      BY <2>1, OneMoves DEF Alone
    <3>3. QED BY <2>0, <3>1, <3>2 DEF Read
  <2>4. CASE pc[t] # "quiet"
    <3>1. \A u \in Thread : ended'[u] => ended[u]
      BY <2>2, <2>4 DEF TypeOK
    <3>2. QED BY <2>0, <2>1, <3>1, MissedLess, ReadKept
  <2>5. QED BY <2>3, <2>4
<1>5. CASE StopBegin /\ crew' = crew
  <2>0. UNCHANGED <<pc, ended, pending, timers, late>>
        /\ control' = IF Caller \in crew THEN "readTimers" ELSE "joining"
    BY <1>5 DEF StopBegin
  <2>1. ~Alone'
    <3>1. CASE Caller \in crew
      BY <2>0, <3>1 DEF Alone
    <3>2. CASE Caller \notin crew
      <4>1. PICK u \in crew : u # Caller
        BY <3>2, IOManagerAssumption DEF TypeOK
      <4>2. u \in Thread /\ pc[u] # "off"
        BY <4>1 DEF Members
      <4>3. QED BY <2>0, <4>2 DEF Alone
    <3>3. QED BY <3>1, <3>2
  <2>2. /\ Missed("readTimers")' => Missed("readTimers")
        /\ Missed("readEvents")' => Missed("readEvents")
    BY <2>0 DEF Missed, After
  <2>3. QED BY <2>0, <2>1, <2>2, ReadKept
<1>6. CASE StopChecks
  <2>0. UNCHANGED <<ended, pending, timers, late>> /\ control \in Part
    BY <1>6 DEF StopChecks
  <2>1. CASE pc' = pc /\ control = "readTimers" /\ timers = 0 /\ control' = "readEvents"
    <3>1. (Missed("readEvents")' => Missed("readEvents")) /\ ~Alone' /\ timers' = 0
      BY <2>0, <2>1 DEF Missed, After, Alone
    <3>2. QED BY <2>0, <3>1 DEF Read
  <2>2. CASE control = "readEvents" /\ pending = 0 /\ control' = "readTasks"
    <3>1. Missed("readTimers") /\ ~Alone'
      BY <2>2, MissedParts DEF Alone
    <3>2. QED BY <2>0, <2>2, <3>1 DEF Read
  <2>3. CASE control = "readTasks" /\ control' = "joining"
    <3>1. Missed("readTimers") /\ Missed("readEvents")
      BY <2>3, MissedParts
    <3>2. QED BY <2>0, <3>1 DEF Read
  <2>4. CASE control' = "calling" /\ pc' = [pc EXCEPT ![Caller] = "scan"]
    <3>1. PICK x : x = "scan" /\ pc' = [pc EXCEPT ![Caller] = x]
      BY <2>4
    <3>2. Caller \in Thread
      BY <2>0 DEF Members
    <3>3. pc'[Caller] = "scan" /\ \A u \in Thread \ {Caller} : pc'[u] = pc[u]
      BY <3>1, <3>2, OneMoves
    <3>4. /\ Missed("readTimers")' => Missed("readTimers")
          /\ Missed("readEvents")' => Missed("readEvents")
          /\ ~Alone'
      BY <2>0, <2>4, <3>3 DEF Missed, After, Alone
    <3>5. QED BY <2>0, <3>4, ReadKept
  <2>5. QED BY <1>6, <2>1, <2>2, <2>3, <2>4, AskMoves
<1>7. CASE CallReturns
  <2>1. /\ UNCHANGED <<pc, ended, pending, timers, late>> /\ control' = "joining"
        /\ control = "calling" /\ pc[Caller] = "exit"
    BY <1>7 DEF CallReturns
  <2>2. ~Alone'
    BY <2>1 DEF Alone, Members
  <2>3. /\ Missed("readTimers")' => Missed("readTimers")
        /\ Missed("readEvents")' => Missed("readEvents")
    BY <2>1 DEF Missed, After
  <2>4. QED BY <2>1, <2>2, <2>3, ReadKept
<1>8. CASE StopJoins \/ ProgramPosts \/ ProgramTickles
  <2>1. /\ UNCHANGED <<pc, ended, pending, timers, late>>
        /\ \/ control = "joining" /\ control' = "stopped"
           \/ control' \in {"open", "tickling"}
    BY <1>8 DEF StopJoins, ProgramPosts, ProgramTickles
  <2>2. /\ Missed("readTimers")' => Missed("readTimers")
        /\ Missed("readEvents")' => Missed("readEvents")
        /\ Alone' => Alone
    BY <2>1 DEF Missed, After, Alone
  <2>3. QED BY <2>1, <2>2, ReadKept
<1>9. CASE Outside
  <2>1. UNCHANGED <<pc, ended, pending, timers, late, control>>
    BY <1>9 DEF Outside, EventReady, TimerExpires
  <2>2. QED BY <2>1, ReadKept DEF Missed, Alone
<1>10. QED
  BY <1>1, <1>2, <1>3, <1>4, <1>5, <1>6, <1>7, <1>8, <1>9 DEF Next, Run, Usual, Stop

-----------------------------------------------------------------------------
(* The theorems.                                                            *)

LEMMA InvInit ==
  ASSUME Init
  PROVE  Inv
<1>1. Where(pc, AtWork) = {} /\ Where(pc, Idling) = {}
  BY DEF Init, Where
<1>2. Reports(got) = {}
  <2>1. \A t \in Thread : {t} \X (1 .. got[t]) = {}
    BY DEF Init
  <2>2. QED BY <2>1 DEF Reports
<1>3. IsFiniteSet({}) /\ Cardinality({}) = 0
  BY FS_EmptySet
<1>4. CountsThreads
  BY <1>1, <1>3 DEF CountsThreads, Init
<1>5. HoldsReports
  BY <1>2, <1>3 DEF HoldsReports, Init
<1>6. Reported = 0
  BY <1>2, <1>3 DEF Reported
<1>7. crew \in Crews /\ crew \subseteq Thread
  BY DEF Init, Thread
<1>8. used \in [DOMAIN Bound -> Nat]
  BY DEF Init
<1>9. pc \in [Thread -> {"off", "scan"}]
  BY DEF Init
<1>10. TypeOK
  <2>1. queue \in [Place -> Nat] /\ active \in Nat /\ idle \in Nat /\ stopping \in BOOLEAN
    BY DEF Init
  <2>2. /\ ready \in Nat /\ pending \in Nat /\ timers \in Nat /\ due \in 0 .. timers
        /\ ready + Reported <= pending
    BY <1>6 DEF Init
  <2>3. signal \in BOOLEAN /\ unheard \in BOOLEAN /\ late \in BOOLEAN /\ stray \subseteq Thread
    BY DEF Init
  <2>4. /\ ended \in [Thread -> BOOLEAN] /\ got \in [Thread -> Nat] /\ drain \subseteq Thread
        /\ cbs \in [Thread -> Nat]
    BY DEF Init
  <2>5. control \in {"open"}
    BY DEF Init
  <2>6. QED BY <1>7, <1>8, <1>9, <2>1, <2>2, <2>3, <2>4, <2>5 DEF TypeOK
<1>11. Attended
  BY DEF Attended, Empty, Init
<1>12. Members
  BY <1>7 DEF Members, Init
<1>13. Leaving /\ Served
  BY Places DEF Leaving, Served, Init
<1>14. Read
  BY DEF Read, Init
<1>15. QED BY <1>4, <1>5, <1>10, <1>11, <1>12, <1>13, <1>14 DEF Inv

LEMMA InvStutter ==
  ASSUME Inv, UNCHANGED vars
  PROVE  Inv'
BY DEF Inv, vars, TypeOK, Reported, Reports, CountsThreads, Where, HoldsReports, Attended, Empty,
   Members, Leaving, Served, Left, Read, Missed, After, Alone

LEMMA InvNext ==
  ASSUME Inv, [Next \/ Over]_vars
  PROVE  Inv'
<1>1. CASE Next
  <2>1. TypeOK' /\ CountsThreads' /\ HoldsReports'
    BY <1>1, TypeNext, CountsNext, ReportsNext DEF Inv
  <2>2. Attended' /\ Members' /\ Leaving' /\ Served' /\ Read'
    BY <1>1, AttendedNext, MembersNext, LeavingNext, ServedNext, ReadNext DEF Inv
  <2>3. QED BY <2>1, <2>2 DEF Inv
<1>2. CASE UNCHANGED vars
  BY <1>2, InvStutter
<1>3. QED BY <1>1, <1>2 DEF Over

(* The invariant holds for every crew of threads: counters are exact, what *)
(* is listed is attended to, and what a leaving thread has read stays so.  *)
THEOREM IOManagerInvariant == Spec => []Inv
<1>1. QED BY InvInit, InvNext, PTL DEF Spec

(* The two counts of threads and the two of armed things never fall below   *)
(* zero, whatever the threads and however tasks, timers and events          *)
(* interleave: run() and idle() count every thread up and down in pairs,    *)
(* and every report of an event is handled by the one thread that took it   *)
(* (scheduler.cpp:155-192, iomanager.cpp:327-441).                          *)
THEOREM CountsNeverBelowZero == Spec => []TypeOK
<1>1. Inv => TypeOK
  BY DEF Inv
<1>2. QED BY <1>1, IOManagerInvariant, PTL

(* No task waits for the 3 s of an epoll_wait unless a tickle() came when   *)
(* no thread was counted idle.                                              *)
THEOREM SleepersWereNotTickled == Spec => []OnlyUnheardWait
<1>1. Inv => OnlyUnheardWait
  <2>1. \A t \in Thread : Asleep(t) => pc[t] \notin Awake
    BY DEF Asleep, Awake, Busy
  <2>2. QED BY <2>1 DEF Inv, Attended, OnlyUnheardWait
<1>2. QED BY <1>1, IOManagerInvariant, PTL

(* ~IOManager leaves no task but for a thread that had left when the task  *)
(* was scheduled, no job at work, and nothing armed but what a job armed   *)
(* after a thread that leaves had read that part of stopping().            *)
THEOREM StopLeavesNothingElse == Spec => []StopLeavesOnlyLate
<1>1. Inv => StopLeavesOnlyLate
  <2> SUFFICES ASSUME Inv, control = "stopped"
               PROVE  /\ \A p \in Place : queue[p] > 0 => p \in stray
                      /\ active = 0
                      /\ late \/ (pending = 0 /\ timers = 0)
    BY DEF StopLeavesOnlyLate
  <2>1. \A t \in Thread : pc[t] \in {"off", "exit"}
    BY DEF Inv, Members
  <2>2. \A p \in Place : queue[p] > 0 => p \in stray
    <3>1. \A t \in Thread : Left(t)
      BY DEF Inv, Members, Left
    <3>2. \A t \in Thread : queue[t] = 0 \/ t \in stray
      BY <3>1 DEF Inv, Served
    <3>3. ~(queue[AnyThread] > 0)
      BY <3>1 DEF Inv, Served, Leaving
    <3>4. QED BY <3>2, <3>3 DEF Place
  <2>3. active = 0
    <3>1. Where(pc, AtWork) = {}
      BY <2>1 DEF Where
    <3>2. QED BY <3>1, FS_EmptySet DEF Inv, CountsThreads
  <2>4. ASSUME ~late PROVE pending = 0 /\ timers = 0
    <3>1. CASE \A t \in Thread : pc[t] = "off"
      BY <2>4, <3>1 DEF Inv, Read, Alone
    <3>2. CASE \E t \in Thread : pc[t] # "off"
      <4>1. \E t \in Thread : ended[t]
        BY <2>1, <3>2 DEF Inv, Leaving
      <4>2. Missed("readTimers") /\ Missed("readEvents")
        BY <4>1, MissedParts
      <4>3. QED BY <2>4, <4>2 DEF Inv, Read
    <3>3. QED BY <3>1, <3>2
  <2>5. QED BY <2>2, <2>3, <2>4
<1>2. QED BY <1>1, IOManagerInvariant, PTL

(* A program that schedules for its own threads before stop(), and from a  *)
(* job for the job's own thread or for any, finds m_fibers empty when      *)
(* stop() has returned (scheduler.cpp:79-129).                             *)
THEOREM StopLeavesNoTask ==
  ASSUME Foreign = {}
  PROVE  Spec => [](control = "stopped" => Empty)
<1>1. Inv /\ StopLeavesOnlyLate => (control = "stopped" => Empty)
  <2> SUFFICES ASSUME Inv, StopLeavesOnlyLate, control = "stopped"
               PROVE  Empty
    OBVIOUS
  <2>1. stray = {}
    BY DEF Inv, Served
  <2>2. \A p \in Place : queue[p] \in Nat /\ ~(queue[p] > 0)
    BY <2>1 DEF Inv, TypeOK, StopLeavesOnlyLate
  <2>3. QED BY <2>2 DEF Empty
<1>2. QED BY <1>1, IOManagerInvariant, StopLeavesNothingElse, PTL
=============================================================================

------------------------- MODULE SchedulerInvariant -------------------------
(***************************************************************************)
(* The inductive invariants behind the safety properties of Scheduler.     *)
(* It says where a fiber or a callback may be, given its state.            *)
(***************************************************************************)
EXTENDS Scheduler

Tasks(q)    == {q[i].task : i \in DOMAIN q}
Distinct(q) == \A i, k \in DOMAIN q : q[i].task = q[k].task => i = k

Queued(x) == x \in Tasks(fibers)
Held(x)   == \E t \in Thread : ft[t] = x
Fresh     == {"UNBORN", "INIT"}

QueueDistinct == Distinct(fibers)

(* A thread has a task exactly between Take and the end of Settle. *)
HoldsTask ==
  \A t \in Thread :
    /\ ft[t] # None <=> pc[t] \in Working \cup {"settle"}
    /\ ft[t] # None /\ pc[t] # "taken" => ft[t] \in Fiber

(* The state of the fiber a thread works on. *)
HolderState ==
  \A t \in Thread : ft[t] \in Fiber =>
    LET f == ft[t] IN
    /\ pc[t] \in InBody => state[f] = "EXEC"
    /\ pc[t] \in {"body", "switching"} => waker[f] = "idle"
    /\ pc[t] \in {"out", "settle"} => state[f] \in Dead \cup {"EXEC", "READY"}
    /\ pc[t] = "taken" => state[f] # "EXEC"

(* Two threads only meet at a fiber of the program that has ended. *)
HolderUnique ==
  \A t, u \in Thread :
    (t # u /\ ft[t] = ft[u] /\ ft[t] # None)
      => ft[t] \in UserFiber /\ state[ft[t]] \in Dead

HolderNotQueued ==
  \A t \in Thread : (ft[t] # None /\ Queued(ft[t])) =>
    /\ pc[t] \in {"armed", "switching", "out", "settle"}
    /\ state[ft[t]] \in Dead \cup {"EXEC"}

(* An armed event is the only thing that will put its fiber on the list. *)
ArmedAlone ==
  \A f \in Fiber : waker[f] = "armed" =>
    /\ ~Queued(f)
    /\ state[f] \in Dead \cup {"EXEC", "HOLD"}
    /\ \A t \in Thread : ft[t] = f => pc[t] \in {"armed", "out", "settle"}

(* Fibers nobody can wake. *)
NoWaker ==
  \A f \in Fiber :
    (state[f] \in Fresh \cup {"READY"} \/ (f \in Pool /\ state[f] \in Dead))
      => waker[f] = "idle"

(* A fiber object of the pool is out of reach until it is bound and after  *)
(* its callback has ended.                                                 *)
PoolFresh ==
  \A p \in Pool : state[p] \in Fresh => ~Queued(p) /\ ~Held(p) /\ bound[p] = None

PoolDead == \A p \in Pool : state[p] \in Dead => ~Queued(p)

(* cb_fiber is the callback's fiber the thread is in, or one that was reset. *)
CbFiberReady ==
  \A t \in Thread : cbFiber[t] # None =>
    /\ cbFiber[t] \in Pool
    /\ cbFiber[t] # ft[t] => state[cbFiber[t]] = "INIT"
    /\ cbFiber[t] = ft[t] => pc[t] # "taken"
    /\ \A u \in Thread : cbFiber[u] = cbFiber[t] => u = t

(* Which job a fiber carries. *)
Bindings ==
  /\ \A f \in UserFiber : bound[f] \in {f, None} /\ state[f] # "UNBORN"
  /\ \A p \in Pool : bound[p] \in Callback \cup {None}
  /\ \A f, g \in Fiber : bound[f] = bound[g] /\ bound[f] # None => f = g

LiveJobs ==
  /\ \A f \in Fiber : state[f] \in {"EXEC", "HOLD", "READY"} => bound[f] \in posted \ done
  /\ \A f \in UserFiber : state[f] = "INIT" => bound[f] = f /\ f \notin done
  /\ \A f \in UserFiber : Queued(f) \/ Held(f) => f \in posted
  /\ \A f \in UserFiber \ posted : state[f] = "INIT"

(* A callback still waits for its fiber, or has one and is gone from the list. *)
WaitingCallbacks ==
  \A c \in Callback : Queued(c) \/ Held(c) =>
    /\ c \in posted \ done
    /\ \A f \in Fiber : bound[f] # c
    /\ ~(Queued(c) /\ Held(c))

JobsPosted ==
  /\ done \subseteq posted
  /\ \A f \in Fiber : bound[f] \in Callback => bound[f] \in posted

(* The idle fibers, the threads and the root fiber between start and stop. *)
Locals ==
  /\ \A t \in Thread : idleState[t] = "EXEC" => pc[t] \in {"idle", "idleOut"}
  /\ control \in {"created", "stopped"} =>
       threads = {} /\ \A t \in Thread : pc[t] = "off"
  /\ control = "joining" => threads = {}
  /\ UseCaller /\ control # "calling" => pc[Caller] = "off"

RootOnce ==
  /\ control # "created" => starts >= 1
  /\ root = "TERM" /\ control \in {"created", "started", "stopping", "calling"} => starts >= 2

(* What will resume a suspended fiber, and one that is about to be: it has *)
(* armed its event or put itself on the list before it leaves the body.    *)
Suspended ==
  /\ \A f \in Fiber : state[f] \in {"HOLD", "READY"} =>
       waker[f] = "armed" \/ Queued(f) \/ Held(f)
  /\ \A t \in Thread :
       (ft[t] \in Fiber /\ state[ft[t]] = "EXEC"
          /\ pc[t] \in {"armed", "switching", "out", "settle"})
         => waker[ft[t]] = "armed" \/ Queued(ft[t])

Ownership ==
  /\ QueueDistinct /\ HoldsTask /\ HolderState /\ HolderUnique /\ HolderNotQueued
  /\ ArmedAlone /\ NoWaker /\ PoolFresh /\ PoolDead /\ CbFiberReady
  /\ Bindings /\ LiveJobs /\ WaitingCallbacks /\ JobsPosted
  /\ Locals /\ RootOnce

(* The invariant behind StopDrained: while the program stops the scheduler, *)
(* what is listed is reached by a thread that has still to look for tasks,  *)
(* or was put there by an event.                                            *)
Entries(q) == {q[i] : i \in DOMAIN q}

(* The stages of stop(), from m_stopping on. *)
Closing == control \in {"stopping", "calling", "joining", "stopped"}

(* A thread that will look at m_fibers again; stop() may yet enter run(). *)
Live(t) == pc[t] \notin {"off", "exit"} \/ (t = Caller /\ control = "stopping")

Serves(t, e) == e.thread \in {AnyThread, t} /\ Live(t)
Awaited(e)   == e.task \in Fiber /\ waker[e.task] # "idle"

Served ==
  Closing => \A e \in Entries(fibers) : Awaited(e) \/ \E t \in Thread : Serves(t, e)

(* No worker ends before stop() begins. *)
WorkersRun ==
  control = "started" =>
    /\ ~stopping
    /\ \A w \in Worker : pc[w] \notin {"off", "exit"} /\ idleState[w] # "TERM"

(* A fiber on the list whose thread has still to swap out of it is for that *)
(* thread, or for every thread.                                            *)
PinnedOwn ==
  \A e \in Entries(fibers), t \in Thread : ft[t] = e.task => e.thread \in {AnyThread, t}

(* A fiber in which the program runs has a thread. *)
ExecHeld ==
  \A f \in Fiber : state[f] = "EXEC" =>
    \E t \in Thread : ft[t] = f /\ pc[t] \in InBody \cup {"out", "settle"}

(* A posted job is not lost before its function has ended. *)
Begun == {"EXEC", "HOLD", "READY"}

JobPlaced ==
  \A j \in posted \ done :
    Queued(j) \/ Held(j) \/ \E f \in Fiber : bound[f] = j /\ state[f] \in Begun

UserDone == \A f \in UserFiber : state[f] \in Dead => f \in done

Draining == Served /\ WorkersRun /\ PinnedOwn /\ ExecHeld /\ JobPlaced /\ UserDone
=============================================================================

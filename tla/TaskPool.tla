------------------------------ MODULE TaskPool ------------------------------
(***************************************************************************)
(* What a scheduler promises to the program that posts work to it, with no *)
(* queue, threads or fibers: a posted job becomes ready, runs, may step    *)
(* aside (and be ready again) or wait for the outside, and is done once.   *)
(* stop() returns only when nothing that could run has been left behind.   *)
(* Scheduler.tla is shown to implement this module.                        *)
(***************************************************************************)
EXTENDS Naturals, FiniteSets

CONSTANTS Job,       \* the callbacks and fibers a program posts
          Capacity   \* how many of them may run at the same time

VARIABLES status,    \* status[j]: where job j is in its life
          closed     \* stop() has returned

vars == <<status, closed>>

Status == {"new", "ready", "running", "waiting", "done"}

In(s) == {j \in Job : status[j] = s}

Init == status = [j \in Job |-> "new"] /\ closed = FALSE

Move(j, s) == status' = [status EXCEPT ![j] = s]

Open == closed' = FALSE /\ UNCHANGED status

(* One or several jobs are posted at once. *)
Post(S) ==
  /\ ~closed
  /\ S # {} /\ S \subseteq In("new")
  /\ status' = [j \in Job |-> IF j \in S THEN "ready" ELSE status[j]]
  /\ UNCHANGED closed

Dispatch(j) ==
  /\ status[j] = "ready"
  /\ Cardinality(In("running")) < Capacity
  /\ Move(j, "running") /\ UNCHANGED closed

(* A waiting job may be woken, and may then run. *)
Resume(j) ==
  /\ status[j] = "waiting"
  /\ Cardinality(In("running")) < Capacity
  /\ Move(j, "running") /\ UNCHANGED closed

(* A running job steps aside, waits for the outside, or ends. *)
Pause(j) ==
  /\ status[j] = "running"
  /\ \E s \in {"ready", "waiting", "done"} : Move(j, s)
  /\ UNCHANGED closed

Close ==
  /\ In("ready") = {} /\ In("running") = {}
  /\ closed' = TRUE /\ UNCHANGED status

Next ==
  \/ Open
  \/ Close
  \/ \E S \in SUBSET Job : Post(S)
  \/ \E j \in Job : Dispatch(j) \/ Resume(j) \/ Pause(j)

Safe == Init /\ [][Next]_vars

(* A ready job is not left ready for ever, and a running one does not run  *)
(* for ever.                                                               *)
Spec ==
  /\ Safe
  /\ \A j \in Job : WF_vars(Dispatch(j)) /\ WF_vars(Pause(j))
=============================================================================

----------------------------- MODULE EventWait -----------------------------
(***************************************************************************)
(* What the event table of an IOManager promises, with no descriptors,     *)
(* contexts or epoll: a job waits for a source at most once at a time, and *)
(* each wait ends in exactly one way, woken or withdrawn.                  *)
(***************************************************************************)
EXTENDS Naturals

CONSTANT Source     \* what a job can wait for: an event of a descriptor

VARIABLES waiting,  \* the sources some job waits for
          woken     \* woken[s]: how often a job that waited for s was scheduled

vars == <<waiting, woken>>

Init == waiting = {} /\ woken = [s \in Source |-> 0]

Ask(s) == s \notin waiting /\ waiting' = waiting \cup {s} /\ UNCHANGED woken

Withdraw(s) == s \in waiting /\ waiting' = waiting \ {s} /\ UNCHANGED woken

(* One report, or cancelAll, may wake the jobs of several sources. *)
Wake(S) ==
  /\ S # {}
  /\ waiting' = waiting \ S
  /\ woken' = [s \in Source |-> IF s \in S THEN woken[s] + 1 ELSE woken[s]]

Next ==
  \/ \E s \in Source : Ask(s) \/ Withdraw(s)
  \/ \E S \in SUBSET waiting : Wake(S)

Spec == Init /\ [][Next]_vars
=============================================================================

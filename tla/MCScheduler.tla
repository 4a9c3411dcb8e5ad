---------------------------- MODULE MCScheduler ----------------------------
(* Small instances of Scheduler for TLC: at most two workers, one fiber of  *)
(* the program, two callbacks and a fiber object for each of them.          *)
EXTENDS SchedulerInvariant

CONSTANTS w1, w2, u1, c1, c2, p1, p2
=============================================================================

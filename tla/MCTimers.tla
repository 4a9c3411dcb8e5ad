------------------------------ MODULE MCTimers ------------------------------
(* A small instance of Timers for TLC. *)
EXTENDS Timers

CONSTANTS u1, u2, p1, p2
=============================================================================

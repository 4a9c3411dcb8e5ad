----------------------------- MODULE MCFdEvents -----------------------------
(* A small instance of FdEvents for TLC: descriptors 40 and 100 are beyond *)
(* the 32 slots the constructor makes, so that the first addEvent of each  *)
(* resizes the table; for 40 both events are waited for.                   *)
EXTENDS FdEvents

CONSTANTS u1, u2, p1, p2, READ, WRITE

ThreeSources == {<<40, READ>>, <<40, WRITE>>, <<100, READ>>}
=============================================================================

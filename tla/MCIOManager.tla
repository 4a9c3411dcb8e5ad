---------------------------- MODULE MCIOManager ----------------------------
(* A small instance of IOManager for TLC: two workers, the default of one   *)
(* thread with use_caller, and a worker with use_caller.                    *)
EXTENDS IOManager

CONSTANTS w1, w2

SomeCrews == {{w1, w2}, {Caller}, {w1, Caller}}
OneWorker == {w1}
=============================================================================

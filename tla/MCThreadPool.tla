---------------------------- MODULE MCThreadPool ----------------------------
(* A scheduler of two threads, started twice, and one thread that two      *)
(* callers share.                                                          *)
EXTENDS ThreadPool, TLC

CONSTANTS c, d, o1, o2, o3, o4, p

TwoCallers == {c, d}
FiveObjects == {o1, o2, o3, o4, p}
OneOwn == {p}
=============================================================================

----------------------------- MODULE MCLogWrite -----------------------------
(* Two threads write to a console and a file, with a window of two ticks.  *)
EXTENDS LogWrite, TLC

CONSTANTS t1, t2, c, f

TwoThreads == {t1, t2}
OneConsole == {c}
OneFile == {f}
TwoLevels == {1, 2}

Alike == Permutations(TwoThreads)
=============================================================================

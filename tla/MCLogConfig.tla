---------------------------- MODULE MCLogConfig ----------------------------
(* Small instances of LogConfig for TLC. *)
EXTENDS LogConfig, TLC

CONSTANTS t1, t2, t3, a, b, info, warn, file, stdout

Def(level, appenders) ==
  [level |-> level, appenders |-> [x \in Output |-> IF x \in appenders THEN 1 ELSE 0]]

(* No logger, one, the other, both, and one with another level: each value *)
(* is reached from each by adding, changing, passing over and removing.    *)
SomeInput ==
  {NoDefine,
   a :> Def(info, {file}),
   a :> Def(warn, {stdout, file}),
   b :> Def(NotSet, {stdout}),
   a :> Def(warn, {file, stdout}) @@ b :> Def(info, {})}
=============================================================================

----------------------------- MODULE LogProofs -----------------------------
(***************************************************************************)
(* Theorems about the logs of log.cpp.                                     *)
(*                                                                         *)
(* LogConfig, for any threads, loggers and definitions: two listeners      *)
(* never mix in one logger, and the loggers agree with the configuration   *)
(* unless one value was told to the listener before the one before it was  *)
(* stored.                                                                 *)
(*                                                                         *)
(* LogFormat, for every pattern, however long: init() cuts it into entries *)
(* that lie end to end and are what their spans say, and reads behind the  *)
(* pattern only where it ends in %d; what a formatter then writes is what  *)
(* the comments of the code say of its pattern.                            *)
(***************************************************************************)
EXTENDS LogConfig, LogFormat, TLAPS, WellFoundedInduction

Applying == {"apply", "setLevel", "clear", "addAppender"}
Locked   == Applying \cup {"retire", "clearRetired"}
Busy     == {"setLevel", "clear", "addAppender", "clearRetired"}
Setting  == Locked \cup {"store"}

-----------------------------------------------------------------------------
(* The inductive invariant. *)

(* A listener runs under the lock of the variable. *)
Exclusive == \A t \in Thread : pc[t] \in Locked <=> varLock = t

(* What a listener has yet to visit, and the logger it works on. *)
Visits ==
  \A t \in Thread :
    /\ pc[t] \in Applying => todo[t] \subseteq DOMAIN new[t]
    /\ pc[t] \in {"retire", "clearRetired"} => todo[t] \cap DOMAIN new[t] = {}
    /\ pc[t] \in Applying \ {"apply"} => logger[t] \in DOMAIN new[t] \ todo[t]
    /\ pc[t] = "clearRetired" => logger[t] \in Name \ (DOMAIN new[t] \cup todo[t])

(* How far it has come with that logger. *)
Stage ==
  \A t \in Thread :
    LET l == logger[t] IN
    /\ pc[t] \in {"setLevel", "clear"} =>
         last[l] = Made(new[t][l]) /\ left[t] = last[l].appenders
    /\ pc[t] \in {"clear", "addAppender", "clearRetired"} => loggers[l].level = last[l].level
    /\ pc[t] = "addAppender" =>
         \A a \in Output : loggers[l].appenders[a] + left[t][a] = last[l].appenders[a]
    /\ pc[t] \in Applying \ {"apply"} => last[l].level = new[t][l].level
    /\ pc[t] = "clearRetired" => last[l] = Retired

(* Every other logger is as it was last made. *)
Settled ==
  \A n \in Name :
    (\A t \in Thread : pc[t] \in Busy => logger[t] # n) => loggers[n] = last[n]

(* Without an overlap there is one setValue at a time past its comparison, *)
(* and the loggers it has visited agree with its value, the others with    *)
(* the present one.                                                        *)
Serial == \A t, u \in Thread : pc[t] \in Setting /\ pc[u] \in Setting => t = u

AgreesAt(n, v) == IF n \in DOMAIN v THEN loggers[n].level = v[n].level
                                    ELSE loggers[n].appenders = NoAppender

Agreed == (\A t \in Thread : pc[t] \notin Setting) => \A n \in Name : AgreesAt(n, val)

AgreesApplying(t) ==
  pc[t] \in Applying =>
    \A n \in Name :
      IF n \in DOMAIN new[t] \ todo[t]
      THEN ~(pc[t] = "setLevel" /\ logger[t] = n) => AgreesAt(n, new[t])
      ELSE AgreesAt(n, val)

AgreesRetiring(t) ==
  pc[t] \in {"retire", "clearRetired", "store"} =>
    \A n \in Name :
      /\ n \in DOMAIN new[t] => AgreesAt(n, new[t])
      /\ n \notin DOMAIN new[t] =>
           \/ AgreesAt(n, new[t])
           \/ pc[t] # "store" /\ n \in todo[t]
           \/ pc[t] = "clearRetired" /\ n = logger[t]

Agreeing == \A t \in Thread : AgreesApplying(t) /\ AgreesRetiring(t)

Agreement == ~overlap => Serial /\ Agreed /\ Agreeing

Mutual == Exclusive /\ Visits /\ Stage /\ Settled
Inv == TypeOK /\ Mutual /\ Agreement

-----------------------------------------------------------------------------
(* Types. *)

(* What setValue is called with, and what the variable starts with, define *)
(* each name once: std::set<LogDefine> (log.cpp:569-595).                  *)
LEMMA InputDefines ==
  ASSUME NEW v \in Input \cup {NoDefine}
  PROVE  /\ DOMAIN v \subseteq Name
         /\ \A n \in DOMAIN v : v[n] \in Define
         /\ \A n \in DOMAIN v : Made(v[n]) \in LoggerState /\ Wanted(v[n]) \in Appenders
<1>1. CASE v = NoDefine
  <2>1. DOMAIN v = {}
    BY <1>1 DEF NoDefine
  <2>2. QED
    BY <2>1
<1>2. CASE v \in Input
  <2>1. Defines(v)
    BY <1>2, LogConfigAssumption
  <2>2. ASSUME NEW n \in DOMAIN v
        PROVE  Made(v[n]) \in LoggerState /\ Wanted(v[n]) \in Appenders
    <3>1. v[n] \in Define /\ v[n].level \in Level \cup {NotSet} /\ v[n].appenders \in Appenders
      BY <2>1 DEF Defines, Define
    <3>2. Wanted(v[n]) \in Appenders /\ \A a \in Muted \cap Output : Wanted(v[n])[a] = 0
      BY <3>1 DEF Wanted, Appenders
    <3>3. Muted \subseteq Output
      BY LogConfigAssumption DEF Muted
    <3>4. QED
      BY <3>1, <3>2, <3>3 DEF Made, LoggerState, Define
  <2>3. QED
    BY <2>1, <2>2 DEF Defines
<1>3. QED
  BY <1>1, <1>2

(* A new logger and a retired one have no appender at all (log.cpp:477).   *)
LEMMA FreshAndRetired ==
  /\ NoAppender \in Appenders /\ \A a \in Output : NoAppender[a] = 0
  /\ Fresh \in LoggerState /\ Retired \in LoggerState
<1>1. NoAppender \in Appenders /\ \A a \in Output : NoAppender[a] = 0
  BY DEF NoAppender, Appenders
<1>2. Muted \subseteq Output
  BY LogConfigAssumption DEF Muted
<1>3. QED
  BY <1>1, <1>2, LogConfigAssumption DEF Fresh, Retired, LoggerState, Define

(* The program starts with loggers as they are made and nothing locked.    *)
LEMMA InitInv == Init => Inv
<1> SUFFICES ASSUME Init PROVE Inv
  OBVIOUS
<1>1. TypeOK
  <2>1. NoAppender \in Appenders /\ Fresh \in LoggerState
    BY FreshAndRetired
  <2>2. loggers \in [Name -> LoggerState] /\ last \in [Name -> LoggerState]
    BY <2>1 DEF Init
  <2>3. left \in [Thread -> Appenders] /\ new \in [Thread -> Input \cup {NoDefine}]
    BY <2>1 DEF Init
  <2>4. calls \in 0 .. MaxCall
    BY LogConfigAssumption DEF Init
  <2>5. QED
    BY <2>2, <2>3, <2>4 DEF Init, TypeOK
<1>2. Mutual
  <2>1. Exclusive
    BY LogConfigAssumption DEF Init, Exclusive, Locked, Applying
  <2>2. Visits /\ Stage /\ Settled
    BY DEF Init, Visits, Stage, Settled, Applying
  <2>3. QED
    BY <2>1, <2>2 DEF Mutual
<1>3. Agreement
  <2>1. DOMAIN val = {}
    BY DEF Init, NoDefine
  <2>2. \A n \in Name : AgreesAt(n, val)
    BY <2>1 DEF Init, AgreesAt, Fresh
  <2>3. QED
    BY <2>2 DEF Init, Agreement, Serial, Agreed, Agreeing, AgreesApplying, AgreesRetiring,
                Setting, Locked, Applying
<1>4. QED
  BY <1>1, <1>2, <1>3 DEF Inv

(* What setLevel and clearAppenders make of a logger (log.cpp:477-500).    *)
LEMMA LoggerChanges ==
  ASSUME NEW d \in LoggerState
  PROVE  /\ d.level \in Level \cup {NotSet} /\ d.appenders \in Appenders
         /\ \A a \in Output : d.appenders[a] \in Nat /\ (a \in Muted => d.appenders[a] = 0)
         /\ \A v \in Level \cup {NotSet} : [d EXCEPT !.level = v] \in LoggerState
         /\ [d EXCEPT !.appenders = NoAppender] \in LoggerState
<1>1. d \in Define /\ \A a \in Muted : d.appenders[a] = 0
  BY DEF LoggerState
<1>2. d.level \in Level \cup {NotSet} /\ d.appenders \in Appenders
  BY <1>1 DEF Define
<1>3. \A a \in Output : d.appenders[a] \in Nat /\ (a \in Muted => d.appenders[a] = 0)
  BY <1>1, <1>2 DEF Appenders
<1>4. \A v \in Level \cup {NotSet} : [d EXCEPT !.level = v] \in LoggerState
  BY <1>1 DEF Define, LoggerState
<1>5. [d EXCEPT !.appenders = NoAppender] \in LoggerState
  <2>1. [d EXCEPT !.appenders = NoAppender] \in Define
    BY <1>1, FreshAndRetired DEF Define
  <2>2. Muted \subseteq Output
    BY LogConfigAssumption DEF Muted
  <2>3. QED
    BY <1>1, <2>1, <2>2, FreshAndRetired DEF LoggerState, Define
<1>6. QED
  BY <1>2, <1>3, <1>4, <1>5

(* Every step keeps the types.  That a logger of a daemon gets no appender *)
(* on stdout follows from what the listener has left to give it.           *)
LEMMA TypeNext == Inv /\ Next => TypeOK'
<1> SUFFICES ASSUME Inv, Next PROVE TypeOK'
  OBVIOUS
<1> USE DEF At, Goto, Set, Call, lockVars, callVars, historyVars, Return
<1>0. TypeOK /\ Mutual
  BY DEF Inv
<1>1. PICK t \in Thread : Step(t) \/ Begin(t)
  BY DEF Next
<1>a. /\ DOMAIN new[t] \subseteq Name /\ DOMAIN val \subseteq Name
      /\ \A n \in DOMAIN new[t] : /\ new[t][n] \in Define
                                  /\ Made(new[t][n]) \in LoggerState
                                  /\ Wanted(new[t][n]) \in Appenders
  BY <1>0, InputDefines DEF TypeOK
<1>b. Call(t) => calls' \in 0 .. MaxCall
  BY <1>0, LogConfigAssumption DEF TypeOK
<1>2. CASE CallSetValue(t)
  <2>1. new' \in [Thread -> Input \cup {NoDefine}]
    BY <1>0, <1>2 DEF CallSetValue, TypeOK
  <2>2. calls' \in 0 .. MaxCall
    BY <1>2, <1>b DEF CallSetValue
  <2>3. QED
    BY <1>0, <1>2, <2>1, <2>2 DEF CallSetValue, TypeOK
<1>3. CASE Compare(t)
  BY <1>0, <1>3, <1>a DEF Compare, TypeOK
<1>4. CASE Told(t)
  BY <1>0, <1>4 DEF Told, TypeOK
<1>5. CASE Store(t)
  BY <1>0, <1>5 DEF Store, TypeOK
<1>6. ASSUME NEW n \in Name, PassOver(t, n) \/ Change(t, n) \/ LoggerToYaml(t, n)
      PROVE  TypeOK'
  BY <1>0, <1>6 DEF PassOver, Change, LoggerToYaml, TypeOK
<1>7. ASSUME NEW n \in Name, Add(t, n) PROVE TypeOK'
  <2>1. left' \in [Thread -> Appenders] /\ last' \in [Name -> LoggerState]
    <3>1. n \in DOMAIN new[t]
      BY <1>0, <1>7, <1>a DEF Add, Mutual, Visits, Applying
    <3>2. Wanted(new[t][n]) \in Appenders /\ Made(new[t][n]) \in LoggerState
      BY <1>a, <3>1
    <3>3. left \in [Thread -> Appenders] /\ last \in [Name -> LoggerState]
      BY <1>0 DEF TypeOK
    <3>4. left' = [left EXCEPT ![t] = Wanted(new[t][n])]
          /\ last' = [last EXCEPT ![n] = Made(new[t][n])]
      BY <1>7 DEF Add
    <3>5. QED
      BY <3>2, <3>3, <3>4
  <2>2. logger' \in [Thread -> Name \cup {None}] /\ todo' \in [Thread -> SUBSET Name]
    BY <1>0, <1>7 DEF Add, TypeOK
  <2>3. QED
    BY <1>0, <1>7, <2>1, <2>2 DEF Add, TypeOK
<1>8. CASE SetLevel(t)
  <2>1. logger[t] \in Name /\ new[t][logger[t]].level \in Level \cup {NotSet}
    BY <1>0, <1>8, <1>a DEF SetLevel, Mutual, Visits, Applying, TypeOK, Define
  <2>2. loggers[logger[t]] \in LoggerState
    BY <1>0, <2>1 DEF TypeOK
  <2>3. [loggers[logger[t]] EXCEPT !.level = new[t][logger[t]].level] \in LoggerState
    BY <2>1, <2>2, LoggerChanges
  <2>4. loggers' \in [Name -> LoggerState]
    BY <1>0, <1>8, <2>1, <2>3 DEF SetLevel, TypeOK
  <2>5. QED
    BY <1>0, <1>8, <2>4 DEF SetLevel, TypeOK
<1>9. CASE ClearAppenders(t) \/ ClearRetired(t)
  <2>1. logger[t] \in Name
    BY <1>0, <1>9, <1>a DEF ClearAppenders, ClearRetired, Mutual, Visits, Applying
  <2>2. loggers[logger[t]] \in LoggerState
    BY <1>0, <2>1 DEF TypeOK
  <2>3. [loggers[logger[t]] EXCEPT !.appenders = NoAppender] \in LoggerState
    BY <2>2, LoggerChanges
  <2>4. loggers' \in [Name -> LoggerState]
    BY <1>0, <1>9, <2>1, <2>3 DEF ClearAppenders, ClearRetired, TypeOK
  <2>5. QED
    BY <1>0, <1>9, <2>4 DEF ClearAppenders, ClearRetired, TypeOK
<1>10. ASSUME NEW a \in Output, AddAppender(t, a) PROVE TypeOK'
  <2> DEFINE l == logger[t]
  <2>1. l \in Name /\ left[t] \in Appenders /\ left[t][a] \in Nat /\ left[t][a] > 0
    BY <1>0, <1>10, <1>a DEF AddAppender, Mutual, Visits, Applying, TypeOK, Appenders
  <2>2. loggers[l] \in LoggerState /\ last[l] \in LoggerState
    BY <1>0, <2>1 DEF TypeOK
  <2>3. loggers[l].appenders[a] + left[t][a] = last[l].appenders[a]
    BY <1>0, <1>10 DEF AddAppender, Mutual, Stage
  <2>4. a \notin Muted
    <3>1. loggers[l].appenders[a] \in Nat /\ (a \in Muted => last[l].appenders[a] = 0)
      BY <2>2, LoggerChanges
    <3>2. QED
      BY <2>1, <2>3, <3>1
  <2>5. [loggers[l] EXCEPT !.appenders[a] = @ + 1] \in LoggerState
    <3>1. loggers[l] \in Define /\ \A b \in Muted : loggers[l].appenders[b] = 0
      BY <2>2 DEF LoggerState
    <3>2. [loggers[l].appenders EXCEPT ![a] = @ + 1] \in Appenders
      BY <3>1 DEF Define, Appenders
    <3>3. [loggers[l] EXCEPT !.appenders[a] = @ + 1] \in Define
      BY <3>1, <3>2 DEF Define
    <3>4. Muted \subseteq Output
      BY LogConfigAssumption DEF Muted
    <3>5. QED
      BY <2>4, <3>1, <3>3, <3>4 DEF LoggerState, Define, Appenders
  <2>6. loggers' \in [Name -> LoggerState]
    BY <1>0, <1>10, <2>1, <2>5 DEF AddAppender, TypeOK
  <2>7. left' \in [Thread -> Appenders]
    <3>1. [left[t] EXCEPT ![a] = @ - 1] \in Appenders
      BY <2>1 DEF Appenders
    <3>2. QED
      BY <1>0, <1>10, <3>1 DEF AddAppender, TypeOK
  <2>8. QED
    BY <1>0, <1>10, <2>6, <2>7 DEF AddAppender, TypeOK
<1>11. CASE Added(t)
  BY <1>0, <1>11 DEF Added, TypeOK
<1>12. CASE AllApplied(t)
  BY <1>0, <1>12, <1>a DEF AllApplied, Gone, TypeOK
<1>13. ASSUME NEW n \in Name, Retire(t, n) PROVE TypeOK'
  <2>1. loggers[n] \in LoggerState
    BY <1>0 DEF TypeOK
  <2>2. [loggers[n] EXCEPT !.level = NotSet] \in LoggerState
    BY <2>1, LoggerChanges
  <2>3. loggers' \in [Name -> LoggerState] /\ last' \in [Name -> LoggerState]
    BY <1>0, <1>13, <2>2, FreshAndRetired DEF Retire, TypeOK
  <2>4. QED
    BY <1>0, <1>13, <2>3 DEF Retire, TypeOK
<1>14. CASE CallLookup(t)
  <2>1. calls' \in 0 .. MaxCall
    BY <1>14, <1>b DEF CallLookup
  <2>2. QED
    BY <1>0, <1>14, <2>1 DEF CallLookup, TypeOK
<1>15. CASE CallToYaml(t)
  <2>1. calls' \in 0 .. MaxCall
    BY <1>15, <1>b DEF CallToYaml
  <2>2. todo' \in [Thread -> SUBSET Name]
    BY <1>0, <1>15 DEF CallToYaml, TypeOK
  <2>3. QED
    BY <1>0, <1>15, <2>1, <2>2 DEF CallToYaml, TypeOK
<1>17. CASE Find(t) \/ Mismatch(t) \/ ToYamlReturns(t)
  BY <1>0, <1>17 DEF Find, Mismatch, ToYamlReturns, TypeOK
<1>18. QED
  BY <1>1, <1>2, <1>3, <1>4, <1>5, <1>6, <1>7, <1>8, <1>9, <1>10, <1>11, <1>12, <1>13,
     <1>14, <1>15, <1>17
  DEF Step, Begin, SetValue, Listener, Lookup, ToYaml

-----------------------------------------------------------------------------
(* Two listeners never run at once, and one leaves a logger as defined.    *)

(* Every step of a listener is under the lock it was called with, which no *)
(* other thread's listener can then be under (config.cpp:399-404).         *)
LEMMA MutualNext ==
  ASSUME TypeOK, TypeOK', Mutual, Next
  PROVE  Mutual'
<1> USE DEF At, Goto, Set, Call, lockVars, callVars, historyVars, Return
<1>1. PICK t \in Thread : Step(t) \/ Begin(t)
  BY DEF Next
<1>a. ASSUME pc[t] \in Locked
      PROVE  varLock = t /\ \A u \in Thread : pc[u] \in Locked => u = t
  BY <1>a DEF Mutual, Exclusive
<1>b. DOMAIN new[t] \subseteq Name /\ DOMAIN val \subseteq Name
  BY InputDefines DEF TypeOK
<1>2. ASSUME pc[t] \notin Locked, pc'[t] \notin Locked,
             \A u \in Thread \ {t} :
               pc'[u] = pc[u] /\ new'[u] = new[u] /\ todo'[u] = todo[u],
             UNCHANGED <<varLock, loggers, last, logger, left>>
      PROVE  Mutual'
  <2>1. Exclusive'
    BY <1>2 DEF Mutual, Exclusive
  <2>2. Visits'
    BY <1>2 DEF Mutual, Visits, Locked, Applying
  <2>3. Stage'
    BY <1>2 DEF Mutual, Stage, Locked, Applying
  <2>4. Settled'
    BY <1>2 DEF Mutual, Settled, Busy, Locked, Applying
  <2>5. QED
    BY <2>1, <2>2, <2>3, <2>4 DEF Mutual
<1>3. CASE CallSetValue(t) \/ CallLookup(t) \/ CallToYaml(t)
  BY <1>2, <1>3 DEF CallSetValue, CallLookup, CallToYaml, TypeOK, Locked, Applying
<1>4. CASE Find(t) \/ Mismatch(t) \/ ToYamlReturns(t) \/ Store(t)
  BY <1>2, <1>4 DEF Find, Mismatch, ToYamlReturns, Store, TypeOK, Locked, Applying
<1>5. CASE \E n \in Name : LoggerToYaml(t, n)
  BY <1>2, <1>5 DEF LoggerToYaml, TypeOK, Locked, Applying
<1>6. CASE Compare(t)
  <2>1. CASE Same(new[t], val)
    BY <1>2, <1>6, <2>1 DEF Compare, TypeOK, Locked, Applying
  <2>2. CASE ~Same(new[t], val)
    <3>1. /\ pc' = [pc EXCEPT ![t] = "apply"] /\ todo' = [todo EXCEPT ![t] = DOMAIN new[t]]
          /\ varLock = None /\ varLock' = t /\ pc[t] = "compare"
          /\ UNCHANGED <<new, loggers, last, logger, left>>
      BY <1>6, <2>2 DEF Compare
    <3>2. \A u \in Thread : pc[u] \notin Locked
      BY <3>1, LogConfigAssumption DEF Mutual, Exclusive
    <3>3. Exclusive'
      BY <3>1, <3>2 DEF Exclusive, TypeOK, Locked, Applying
    <3>4. Visits' /\ Stage'
      BY <3>1, <3>2 DEF Visits, Stage, TypeOK, Locked, Applying
    <3>5. Settled'
      BY <3>1, <3>2 DEF Mutual, Settled, Busy, TypeOK, Locked, Applying
    <3>6. QED
      BY <3>3, <3>4, <3>5 DEF Mutual
  <2>3. QED
    BY <2>1, <2>2
<1>7. CASE Told(t)
  <2>1. pc[t] = "retire" /\ varLock' = None /\ pc' = [pc EXCEPT ![t] = "store"]
        /\ UNCHANGED <<new, todo, logger, left, loggers, last>>
    BY <1>7 DEF Told
  <2>2. \A u \in Thread : pc'[u] \notin Locked
    BY <1>a, <2>1 DEF TypeOK, Locked, Applying
  <2>3. Exclusive'
    BY <2>1, <2>2, LogConfigAssumption DEF Exclusive
  <2>4. Visits' /\ Stage'
    BY <2>2 DEF Visits, Stage, Locked, Applying
  <2>5. Settled'
    BY <2>1, <2>2 DEF Mutual, Settled, Busy, TypeOK, Locked, Applying
  <2>6. QED
    BY <2>3, <2>4, <2>5 DEF Mutual
<1>8. CASE \E n \in Name : Change(t, n)
  BY <1>8 DEF Change, Mutual, Exclusive, Visits, Stage, Settled
<1>9. ASSUME NEW n \in Name, PassOver(t, n) PROVE Mutual'
  <2>1. pc[t] = "apply" /\ todo' = [todo EXCEPT ![t] = @ \ {n}]
        /\ UNCHANGED <<varLock, pc, new, logger, left, loggers, last>>
    BY <1>9 DEF PassOver
  <2>2. Visits'
    BY <2>1 DEF Mutual, Visits, TypeOK, Applying
  <2>3. Exclusive' /\ Stage' /\ Settled'
    BY <2>1 DEF Mutual, Exclusive, Stage, Settled
  <2>4. QED
    BY <2>2, <2>3 DEF Mutual
<1>10. ASSUME NEW n \in Name, Add(t, n) PROVE Mutual'
  <2>1. /\ pc[t] = "apply" /\ n \in todo[t] /\ todo' = [todo EXCEPT ![t] = @ \ {n}]
        /\ logger' = [logger EXCEPT ![t] = n]
        /\ left' = [left EXCEPT ![t] = Wanted(new[t][n])]
        /\ last' = [last EXCEPT ![n] = Made(new[t][n])]
        /\ pc' = [pc EXCEPT ![t] = "setLevel"]
        /\ UNCHANGED <<varLock, new, loggers>>
    BY <1>10 DEF Add
  <2>2. \A u \in Thread : pc[u] \in Locked => u = t
    BY <1>a, <2>1 DEF Locked, Applying
  <2>3. Exclusive'
    BY <2>1 DEF Mutual, Exclusive, TypeOK, Locked, Applying
  <2>4. Visits'
    BY <2>1, <2>2 DEF Mutual, Visits, TypeOK, Locked, Applying
  <2>5. Stage'
    <3>1. last'[n] = Made(new[t][n]) /\ left'[t] = last'[n].appenders
          /\ last'[n].level = new[t][n].level /\ logger'[t] = n
      BY <2>1 DEF TypeOK, Made
    <3>2. \A u \in Thread : pc'[u] \in Locked => u = t
      BY <2>1, <2>2 DEF TypeOK, Locked, Applying
    <3>3. pc'[t] = "setLevel" /\ new' = new
      BY <2>1 DEF TypeOK
    <3>4. QED
      BY <3>1, <3>2, <3>3 DEF Stage, Locked, Applying
  <2>6. Settled'
    BY <2>1, <2>2 DEF Mutual, Settled, Busy, TypeOK, Locked, Applying
  <2>7. QED
    BY <2>3, <2>4, <2>5, <2>6 DEF Mutual
<1>11. CASE SetLevel(t) \/ ClearAppenders(t) \/ ClearRetired(t)
  <2> DEFINE l == logger[t]
  <2>1. /\ pc[t] \in Busy /\ varLock' = varLock
        /\ UNCHANGED <<new, todo, left, last>>
        /\ \A u \in Thread \ {t} : pc'[u] = pc[u] /\ logger'[u] = logger[u]
    BY <1>11 DEF SetLevel, ClearAppenders, ClearRetired, Busy, TypeOK
  <2>2. \A u \in Thread : pc[u] \in Locked => u = t
    BY <1>a, <2>1 DEF Busy, Locked, Applying
  <2>3. l \in Name
    BY <1>b, <2>1 DEF Mutual, Visits, Busy, Applying
  <2>4. loggers[l] \in LoggerState /\ last[l] \in LoggerState
    BY <2>3 DEF TypeOK
  <2>5. Exclusive'
    BY <1>11, <2>1 DEF SetLevel, ClearAppenders, ClearRetired, Mutual, Exclusive, TypeOK,
                       Locked, Applying
  <2>6. Visits'
    BY <1>11, <2>1 DEF SetLevel, ClearAppenders, ClearRetired, Mutual, Visits, TypeOK,
                       Locked, Applying
  <2>7. CASE SetLevel(t)
    <3>1. pc[t] = "setLevel" /\ pc'[t] = "clear" /\ logger' = logger
          /\ loggers' = [loggers EXCEPT ![l].level = new[t][l].level]
      BY <2>7 DEF SetLevel, TypeOK
    <3>2. last[l] = Made(new[t][l]) /\ left[t] = last[l].appenders
          /\ last[l].level = new[t][l].level
      BY <3>1 DEF Mutual, Stage, Applying
    <3>3. loggers'[l].level = last[l].level
      BY <2>3, <2>4, <3>1, <3>2 DEF TypeOK, LoggerState, Define
    <3>4. Stage'
      BY <2>1, <2>2, <3>1, <3>2, <3>3 DEF Stage, Locked, Applying
    <3>5. Settled'
      BY <2>1, <3>1 DEF Mutual, Settled, Busy, TypeOK
    <3>6. QED
      BY <2>5, <2>6, <3>4, <3>5 DEF Mutual
  <2>8. CASE ClearAppenders(t)
    <3>1. pc[t] = "clear" /\ pc'[t] = "addAppender" /\ logger' = logger
          /\ loggers' = [loggers EXCEPT ![l].appenders = NoAppender]
      BY <2>8 DEF ClearAppenders, TypeOK
    <3>2. left[t] = last[l].appenders /\ last[l].level = new[t][l].level
          /\ loggers[l].level = last[l].level
      BY <3>1 DEF Mutual, Stage, Applying
    <3>3. loggers'[l].level = last[l].level /\ loggers'[l].appenders = NoAppender
      BY <2>3, <2>4, <3>1, <3>2 DEF TypeOK, LoggerState, Define
    <3>4. \A a \in Output : loggers'[l].appenders[a] + left[t][a] = last[l].appenders[a]
      <4>1. ASSUME NEW a \in Output
            PROVE  loggers'[l].appenders[a] = 0 /\ last[l].appenders[a] \in Nat
        BY <2>4, <3>3, LoggerChanges, FreshAndRetired
      <4>2. QED
        BY <3>2, <4>1
    <3>5. Stage'
      BY <2>1, <2>2, <3>1, <3>2, <3>3, <3>4 DEF Stage, Locked, Applying
    <3>6. Settled'
      BY <2>1, <3>1 DEF Mutual, Settled, Busy, TypeOK
    <3>7. QED
      BY <2>5, <2>6, <3>5, <3>6 DEF Mutual
  <2>9. CASE ClearRetired(t)
    <3>1. pc[t] = "clearRetired" /\ pc'[t] = "retire"
          /\ loggers' = [loggers EXCEPT ![l].appenders = NoAppender]
      BY <2>9 DEF ClearRetired, TypeOK
    <3>2. last[l] = Retired /\ loggers[l].level = last[l].level
      BY <3>1 DEF Mutual, Stage
    <3>3. loggers'[l] = last[l]
      BY <2>3, <2>4, <3>1, <3>2 DEF TypeOK, LoggerState, Define, Retired
    <3>4. Stage'
      BY <2>1, <2>2, <3>1 DEF Stage, Locked, Applying
    <3>5. Settled'
      <4>1. \A n \in Name \ {l} : loggers'[n] = loggers[n]
        BY <3>1 DEF TypeOK
      <4>2. \A n \in Name \ {l} : \A u \in Thread : pc[u] \in Busy => logger[u] # n
        BY <2>2 DEF Busy, Locked, Applying
      <4>3. \A n \in Name \ {l} : loggers[n] = last[n]
        BY <4>2 DEF Mutual, Settled
      <4>4. QED
        BY <2>1, <3>3, <4>1, <4>3 DEF Settled
    <3>6. QED
      BY <2>5, <2>6, <3>4, <3>5 DEF Mutual
  <2>10. QED
    BY <1>11, <2>7, <2>8, <2>9
<1>12. ASSUME NEW a \in Output, AddAppender(t, a) PROVE Mutual'
  <2> DEFINE l == logger[t]
  <2>1. /\ pc[t] = "addAppender" /\ left[t][a] > 0
        /\ loggers' = [loggers EXCEPT ![l].appenders[a] = @ + 1]
        /\ left' = [left EXCEPT ![t][a] = @ - 1]
        /\ UNCHANGED <<varLock, pc, new, todo, logger, last>>
    BY <1>12 DEF AddAppender
  <2>2. \A u \in Thread : pc[u] \in Locked => u = t
    BY <1>a, <2>1 DEF Locked, Applying
  <2>3. l \in Name
    BY <1>b, <2>1 DEF Mutual, Visits, Applying
  <2>4. loggers[l] \in LoggerState /\ last[l] \in LoggerState /\ left[t] \in Appenders
    BY <2>3 DEF TypeOK
  <2>5. Exclusive' /\ Visits'
    BY <2>1 DEF Mutual, Exclusive, Visits
  <2>6. Stage'
    <3>1. /\ loggers[l].level = last[l].level /\ last[l].level = new[t][l].level
          /\ \A b \in Output : loggers[l].appenders[b] + left[t][b] = last[l].appenders[b]
      BY <2>1 DEF Mutual, Stage, Applying
    <3>2. loggers'[l].level = loggers[l].level
          /\ loggers'[l].appenders = [loggers[l].appenders EXCEPT ![a] = @ + 1]
      BY <2>1, <2>3, <2>4 DEF TypeOK, LoggerState, Define
    <3>3. left'[t] = [left[t] EXCEPT ![a] = @ - 1]
      BY <2>1 DEF TypeOK
    <3>4. \A b \in Output : loggers[l].appenders[b] \in Nat /\ left[t][b] \in Nat
      BY <2>4, LoggerChanges DEF Appenders
    <3>5. loggers[l].appenders \in Appenders
      BY <2>4, LoggerChanges
    <3>6. \A b \in Output : loggers'[l].appenders[b] + left'[t][b] = last[l].appenders[b]
      <4> SUFFICES ASSUME NEW b \in Output
                   PROVE  loggers'[l].appenders[b] + left'[t][b] = last[l].appenders[b]
        OBVIOUS
      <4>1. loggers'[l].appenders[b] = loggers[l].appenders[b] + (IF b = a THEN 1 ELSE 0)
        BY <3>2, <3>4, <3>5 DEF Appenders
      <4>2. left'[t][b] = left[t][b] - (IF b = a THEN 1 ELSE 0)
        BY <2>4, <3>3, <3>4 DEF Appenders
      <4>3. loggers[l].appenders[b] \in Nat /\ left[t][b] \in Nat
        BY <3>4
      <4>4. QED
        BY <3>1, <4>1, <4>2, <4>3
    <3>7. QED
      BY <2>1, <2>2, <3>1, <3>2, <3>6 DEF Stage, Locked, Applying
  <2>7. Settled'
    BY <2>1 DEF Mutual, Settled, Busy, TypeOK
  <2>8. QED
    BY <2>5, <2>6, <2>7 DEF Mutual
<1>13. CASE Added(t)
  <2> DEFINE l == logger[t]
  <2>1. /\ pc[t] = "addAppender" /\ left[t] = NoAppender
        /\ pc' = [pc EXCEPT ![t] = "apply"] /\ logger' = [logger EXCEPT ![t] = None]
        /\ UNCHANGED <<varLock, loggers, new, todo, left, last>>
    BY <1>13 DEF Added
  <2>2. \A u \in Thread : pc[u] \in Locked => u = t
    BY <1>a, <2>1 DEF Locked, Applying
  <2>3. l \in Name
    BY <1>b, <2>1 DEF Mutual, Visits, Applying
  <2>4. Exclusive'
    BY <2>1 DEF Mutual, Exclusive, TypeOK, Locked, Applying
  <2>5. Visits'
    BY <2>1 DEF Mutual, Visits, TypeOK, Applying
  <2>6. Stage'
    BY <2>1, <2>2 DEF Stage, TypeOK, Locked, Applying
  <2>7. loggers[l] = last[l]
    <3>1. /\ loggers[l].level = last[l].level
          /\ \A b \in Output : loggers[l].appenders[b] + left[t][b] = last[l].appenders[b]
      BY <2>1 DEF Mutual, Stage
    <3>2. loggers[l] \in LoggerState /\ last[l] \in LoggerState
      BY <2>3 DEF TypeOK
    <3>3. \A b \in Output : loggers[l].appenders[b] = last[l].appenders[b]
      <4>1. ASSUME NEW b \in Output
            PROVE  left[t][b] = 0 /\ loggers[l].appenders[b] \in Nat
        BY <2>1, <3>2, LoggerChanges, FreshAndRetired
      <4>2. QED
        BY <3>1, <4>1
    <3>4. loggers[l].appenders = last[l].appenders
      <4>1. loggers[l].appenders \in Appenders /\ last[l].appenders \in Appenders
        BY <3>2, LoggerChanges
      <4>2. QED
        BY <3>3, <4>1 DEF Appenders
    <3>5. QED
      BY <3>1, <3>2, <3>4 DEF LoggerState, Define
  <2>8. Settled'
    <3>1. \A n \in Name \ {l} : \A u \in Thread : pc[u] \in Busy => logger[u] # n
      BY <2>1, <2>2 DEF Busy, Locked, Applying
    <3>2. \A n \in Name \ {l} : loggers[n] = last[n]
      BY <3>1 DEF Mutual, Settled
    <3>3. QED
      BY <2>1, <2>7, <3>2 DEF Settled
  <2>9. QED
    BY <2>4, <2>5, <2>6, <2>8 DEF Mutual
<1>14. CASE AllApplied(t)
  <2>1. /\ pc[t] = "apply" /\ todo' = [todo EXCEPT ![t] = Gone(t)]
        /\ pc' = [pc EXCEPT ![t] = "retire"]
        /\ UNCHANGED <<varLock, loggers, new, logger, left, last>>
    BY <1>14 DEF AllApplied
  <2>2. \A u \in Thread : pc[u] \in Locked => u = t
    BY <1>a, <2>1 DEF Locked, Applying
  <2>3. Exclusive'
    BY <2>1 DEF Mutual, Exclusive, TypeOK, Locked, Applying
  <2>4. Visits' /\ Stage'
    BY <2>1, <2>2 DEF Visits, Stage, Gone, TypeOK, Locked, Applying
  <2>5. Settled'
    BY <2>1, <2>2 DEF Mutual, Settled, Busy, TypeOK, Locked, Applying
  <2>6. QED
    BY <2>3, <2>4, <2>5 DEF Mutual
<1>15. ASSUME NEW n \in Name, Retire(t, n) PROVE Mutual'
  <2>1. /\ pc[t] = "retire" /\ n \in todo[t] /\ todo' = [todo EXCEPT ![t] = @ \ {n}]
        /\ logger' = [logger EXCEPT ![t] = n]
        /\ loggers' = [loggers EXCEPT ![n].level = NotSet]
        /\ last' = [last EXCEPT ![n] = Retired]
        /\ pc' = [pc EXCEPT ![t] = "clearRetired"]
        /\ UNCHANGED <<varLock, new, left>>
    BY <1>15 DEF Retire
  <2>2. \A u \in Thread : pc[u] \in Locked => u = t
    BY <1>a, <2>1 DEF Locked, Applying
  <2>3. Exclusive'
    BY <2>1 DEF Mutual, Exclusive, TypeOK, Locked, Applying
  <2>4. Visits'
    BY <2>1, <2>2 DEF Mutual, Visits, TypeOK, Locked, Applying
  <2>5. Stage'
    <3>1. loggers[n] \in LoggerState
      BY DEF TypeOK
    <3>2. loggers'[n].level = NotSet /\ last'[n] = Retired /\ Retired.level = NotSet
      BY <2>1, <3>1 DEF TypeOK, LoggerState, Define, Retired
    <3>3. pc'[t] = "clearRetired" /\ logger'[t] = n
          /\ \A u \in Thread : pc'[u] \in Locked => u = t
      BY <2>1, <2>2 DEF TypeOK, Locked, Applying
    <3>4. QED
      BY <3>2, <3>3 DEF Stage, Locked, Applying
  <2>6. Settled'
    BY <2>1, <2>2 DEF Mutual, Settled, Busy, TypeOK, Locked, Applying
  <2>7. QED
    BY <2>3, <2>4, <2>5, <2>6 DEF Mutual
<1>16. QED
  BY <1>1, <1>3, <1>4, <1>5, <1>6, <1>7, <1>8, <1>9, <1>10, <1>11, <1>12, <1>13, <1>14, <1>15
  DEF Step, Begin, SetValue, Listener, Lookup, ToYaml

-----------------------------------------------------------------------------
(* The loggers agree with the configuration.                               *)

(* Unless listeners are told of a second value before the first is stored  *)
(* (config.cpp:397-409), the calls of setValue that change something come  *)
(* one after the other and each leaves every logger as its value has it.   *)
LEMMA AgreementNext ==
  ASSUME TypeOK, TypeOK', Mutual, Mutual', Agreement, Next
  PROVE  Agreement'
<1> USE DEF At, Goto, Set, Call, lockVars, callVars, historyVars, Return
<1>1. PICK t \in Thread : Step(t) \/ Begin(t)
  BY DEF Next
<1>a. overlap => overlap'
  BY <1>1 DEF Step, Begin, SetValue, Listener, Lookup, ToYaml, CallSetValue, CallLookup,
     CallToYaml, Compare, Told, Store, PassOver, Add, Change, SetLevel, ClearAppenders,
     AddAppender, Added, AllApplied, Retire, ClearRetired, Find, Mismatch, LoggerToYaml,
     ToYamlReturns
<1>b. CASE overlap'
  BY <1>b DEF Agreement
<1>c. CASE ~overlap'
  <2>a. Serial /\ Agreed /\ Agreeing
    BY <1>a, <1>c DEF Agreement
  <2> SUFFICES Serial' /\ Agreed' /\ Agreeing'
    BY DEF Agreement
  <2>b. DOMAIN new[t] \subseteq Name /\ DOMAIN val \subseteq Name
    BY InputDefines DEF TypeOK
  <2>c. pc[t] \in Setting => \A u \in Thread : pc[u] \in Setting => u = t
    BY <2>a DEF Serial
  <2>1. ASSUME pc[t] \notin Setting, pc'[t] \notin Setting,
               \A u \in Thread \ {t} :
                 pc'[u] = pc[u] /\ new'[u] = new[u] /\ todo'[u] = todo[u],
               UNCHANGED <<val, loggers, logger>>
        PROVE  Serial' /\ Agreed' /\ Agreeing'
    <3>1. Serial' /\ Agreed'
      BY <2>a, <2>1 DEF Serial, Agreed, AgreesAt
    <3>2. Agreeing'
      BY <2>a, <2>1 DEF Agreeing, AgreesApplying, AgreesRetiring, AgreesAt, Setting, Locked,
                        Applying
    <3>3. QED
      BY <3>1, <3>2
  <2>2. CASE CallSetValue(t) \/ CallLookup(t) \/ CallToYaml(t)
    BY <2>1, <2>2 DEF CallSetValue, CallLookup, CallToYaml, TypeOK, Setting, Locked, Applying
  <2>3. CASE Find(t) \/ Mismatch(t) \/ ToYamlReturns(t)
    BY <2>1, <2>3 DEF Find, Mismatch, ToYamlReturns, TypeOK, Setting, Locked, Applying
  <2>4. CASE \E n \in Name : LoggerToYaml(t, n)
    BY <2>1, <2>4 DEF LoggerToYaml, TypeOK, Setting, Locked, Applying
  <2>5. CASE Compare(t)
    <3>1. CASE Same(new[t], val)
      BY <2>1, <2>5, <3>1 DEF Compare, TypeOK, Setting, Locked, Applying
    <3>2. CASE ~Same(new[t], val)
      <4>1. /\ pc' = [pc EXCEPT ![t] = "apply"] /\ todo' = [todo EXCEPT ![t] = DOMAIN new[t]]
            /\ varLock = None /\ pc[t] = "compare"
            /\ \A u \in Thread : pc[u] # "store"
            /\ UNCHANGED <<val, new, loggers, logger>>
        BY <1>c, <2>5, <3>2 DEF Compare
      <4>2. \A u \in Thread : pc[u] \notin Setting
        BY <4>1, LogConfigAssumption DEF Mutual, Exclusive, Setting
      <4>3. \A n \in Name : AgreesAt(n, val)
        BY <2>a, <4>2 DEF Agreed
      <4>4. pc'[t] = "apply" /\ todo'[t] = DOMAIN new[t]
            /\ \A u \in Thread : pc'[u] \in Setting => u = t
        BY <4>1, <4>2 DEF TypeOK
      <4>5. QED
        BY <4>1, <4>3, <4>4 DEF Serial, Agreed, Agreeing, AgreesApplying, AgreesRetiring,
                                AgreesAt, Setting, Locked, Applying
    <3>3. QED
      BY <3>1, <3>2
  <2>6. CASE \E n \in Name : Change(t, n)
    BY <2>a, <2>6 DEF Change, Serial, Agreed, Agreeing, AgreesApplying, AgreesRetiring, AgreesAt
  (* The listener's steps: t alone is past its comparison, before and after. *)
  <2>7. ASSUME pc[t] \in Setting, pc'[t] \in Setting,
               \A u \in Thread \ {t} : pc'[u] = pc[u],
               AgreesApplying(t)', AgreesRetiring(t)'
        PROVE  Serial' /\ Agreed' /\ Agreeing'
    <3>1. \A u \in Thread : pc'[u] \in Setting => u = t
      BY <2>c, <2>7
    <3>2. QED
      BY <2>7, <3>1 DEF Serial, Agreed, Agreeing, AgreesApplying, AgreesRetiring, Setting,
                        Locked
  <2>8. ASSUME NEW n \in Name, PassOver(t, n)
        PROVE  Serial' /\ Agreed' /\ Agreeing'
    <3>1. /\ pc[t] = "apply" /\ pc' = pc /\ n \in DOMAIN val /\ Equal(new[t][n], val[n])
          /\ todo'[t] = todo[t] \ {n}
          /\ UNCHANGED <<val, new, loggers, logger>>
      BY <2>8 DEF PassOver, TypeOK
    <3>2. n \in todo[t] /\ n \in DOMAIN new[t]
      BY <2>8 DEF PassOver, Mutual, Visits, Applying
    <3>3. AgreesAt(n, new[t])
      BY <2>a, <3>1, <3>2 DEF Agreeing, AgreesApplying, Applying, AgreesAt, Equal
    <3>4. \A m \in Name : IF m \in DOMAIN new[t] \ todo'[t] THEN AgreesAt(m, new[t])
                                                            ELSE AgreesAt(m, val)
      BY <2>a, <3>1, <3>2, <3>3 DEF Agreeing, AgreesApplying, Applying
    <3>5. QED
      BY <2>7, <3>1, <3>4 DEF AgreesApplying, AgreesRetiring, AgreesAt, Applying, Setting,
                              Locked
  <2>9. ASSUME NEW n \in Name, Add(t, n)
        PROVE  Serial' /\ Agreed' /\ Agreeing'
    <3>1. /\ pc[t] = "apply" /\ pc' = [pc EXCEPT ![t] = "setLevel"]
          /\ todo'[t] = todo[t] \ {n} /\ logger'[t] = n
          /\ UNCHANGED <<val, new, loggers>>
      BY <2>9 DEF Add, TypeOK
    <3>2. \A m \in Name : IF m \in DOMAIN new[t] \ todo'[t]
                          THEN m # n => AgreesAt(m, new[t]) ELSE AgreesAt(m, val)
      BY <2>a, <3>1 DEF Agreeing, AgreesApplying, Applying
    <3>3. pc'[t] = "setLevel"
      BY <3>1 DEF TypeOK
    <3>4. AgreesApplying(t)'
      BY <3>1, <3>2, <3>3 DEF AgreesApplying, AgreesAt
    <3>5. QED
      BY <2>7, <3>1, <3>3, <3>4 DEF AgreesRetiring, Applying, Setting, Locked, TypeOK
  <2>10. CASE SetLevel(t) \/ ClearAppenders(t) \/ \E a \in Output : AddAppender(t, a)
    <3> DEFINE l == logger[t]
    <3>1. /\ pc[t] \in Applying \ {"apply"} /\ pc'[t] \in Applying \ {"apply", "setLevel"}
          /\ \A u \in Thread \ {t} : pc'[u] = pc[u]
          /\ UNCHANGED <<val, new, todo, logger>>
          /\ \A m \in Name \ {l} : loggers'[m] = loggers[m]
      BY <2>10 DEF SetLevel, ClearAppenders, AddAppender, Applying, TypeOK
    <3>2. l \in DOMAIN new[t] \ todo[t] /\ l \in Name
      BY <2>b, <3>1 DEF Mutual, Visits
    <3>3. loggers'[l].level = new[t][l].level
      BY <3>1, <3>2 DEF Mutual, Stage, Applying
    <3>4. \A m \in Name \ {l} : IF m \in DOMAIN new[t] \ todo[t] THEN AgreesAt(m, new[t])
                                                                ELSE AgreesAt(m, val)
      BY <2>a, <3>1 DEF Agreeing, AgreesApplying
    <3>5. AgreesApplying(t)'
      BY <3>1, <3>2, <3>3, <3>4 DEF AgreesApplying, AgreesAt
    <3>6. QED
      BY <2>7, <3>1, <3>5 DEF AgreesRetiring, Applying, Setting, Locked
  <2>11. CASE Added(t)
    <3>1. /\ pc[t] = "addAppender" /\ pc'[t] = "apply"
          /\ \A u \in Thread \ {t} : pc'[u] = pc[u]
          /\ UNCHANGED <<val, new, todo, loggers>>
      BY <2>11 DEF Added, TypeOK
    <3>2. AgreesApplying(t)'
      BY <2>a, <3>1 DEF Agreeing, AgreesApplying, AgreesAt, Applying
    <3>3. QED
      BY <2>7, <3>1, <3>2 DEF AgreesRetiring, Applying, Setting, Locked
  <2>12. CASE AllApplied(t)
    <3>1. /\ pc[t] = "apply" /\ todo[t] = {} /\ todo'[t] = Gone(t) /\ pc'[t] = "retire"
          /\ \A u \in Thread \ {t} : pc'[u] = pc[u]
          /\ UNCHANGED <<val, new, loggers>>
      BY <2>12 DEF AllApplied, TypeOK
    <3>2. \A m \in Name : IF m \in DOMAIN new[t] THEN AgreesAt(m, new[t])
                                                 ELSE AgreesAt(m, val)
      BY <2>a, <3>1 DEF Agreeing, AgreesApplying, Applying
    <3>3. AgreesRetiring(t)'
      BY <3>1, <3>2 DEF AgreesRetiring, AgreesAt, Gone
    <3>4. QED
      BY <2>7, <3>1, <3>3 DEF AgreesApplying, Applying, Setting, Locked
  <2>13. ASSUME NEW n \in Name, Retire(t, n)
         PROVE  Serial' /\ Agreed' /\ Agreeing'
    <3>1. /\ pc[t] = "retire" /\ pc'[t] = "clearRetired" /\ n \in todo[t]
          /\ todo'[t] = todo[t] \ {n} /\ logger'[t] = n
          /\ \A u \in Thread \ {t} : pc'[u] = pc[u]
          /\ UNCHANGED <<val, new>>
          /\ \A m \in Name \ {n} : loggers'[m] = loggers[m]
      BY <2>13 DEF Retire, TypeOK
    <3>2. n \notin DOMAIN new[t]
      BY <3>1 DEF Mutual, Visits
    <3>3. AgreesRetiring(t)'
      BY <2>a, <3>1, <3>2 DEF Agreeing, AgreesRetiring, AgreesAt
    <3>4. QED
      BY <2>7, <3>1, <3>3 DEF AgreesApplying, Applying, Setting, Locked
  <2>14. CASE ClearRetired(t)
    <3> DEFINE l == logger[t]
    <3>1. /\ pc[t] = "clearRetired" /\ pc'[t] = "retire"
          /\ \A u \in Thread \ {t} : pc'[u] = pc[u]
          /\ UNCHANGED <<val, new, todo>>
          /\ loggers' = [loggers EXCEPT ![l].appenders = NoAppender]
      BY <2>14 DEF ClearRetired, TypeOK
    <3>2. l \in Name \ DOMAIN new[t]
      BY <3>1 DEF Mutual, Visits
    <3>3. loggers'[l].appenders = NoAppender /\ \A m \in Name \ {l} : loggers'[m] = loggers[m]
      BY <3>1, <3>2 DEF TypeOK, LoggerState, Define
    <3>4. AgreesRetiring(t)'
      BY <2>a, <3>1, <3>2, <3>3 DEF Agreeing, AgreesRetiring, AgreesAt
    <3>5. QED
      BY <2>7, <3>1, <3>4 DEF AgreesApplying, Applying, Setting, Locked
  <2>15. CASE Told(t)
    <3>1. /\ pc[t] = "retire" /\ pc'[t] = "store" /\ todo[t] = {}
          /\ \A u \in Thread \ {t} : pc'[u] = pc[u]
          /\ UNCHANGED <<val, new, todo, loggers>>
      BY <2>15 DEF Told, TypeOK
    <3>2. AgreesRetiring(t)'
      BY <2>a, <3>1 DEF Agreeing, AgreesRetiring, AgreesAt
    <3>3. QED
      BY <2>7, <3>1, <3>2 DEF AgreesApplying, Applying, Setting, Locked
  <2>16. CASE Store(t)
    <3>1. /\ pc[t] = "store" /\ pc' = [pc EXCEPT ![t] = "out"] /\ val' = new[t]
          /\ loggers' = loggers
      BY <2>16 DEF Store
    <3>2. \A u \in Thread : pc'[u] \notin Setting
      BY <2>c, <3>1 DEF TypeOK, Setting, Locked, Applying
    <3>3. \A n \in Name : AgreesAt(n, new[t])
      BY <2>a, <3>1 DEF Agreeing, AgreesRetiring, AgreesAt
    <3>4. Agreed'
      BY <3>1, <3>3 DEF Agreed, AgreesAt
    <3>5. Serial' /\ Agreeing'
      BY <3>2 DEF Serial, Agreeing, AgreesApplying, AgreesRetiring, Setting, Locked
    <3>6. QED
      BY <3>4, <3>5
  <2>17. QED
    BY <1>1, <2>2, <2>3, <2>4, <2>5, <2>6, <2>8, <2>9, <2>10, <2>11, <2>12, <2>13, <2>14,
       <2>15, <2>16
    DEF Step, Begin, SetValue, Listener, Lookup, ToYaml
<1>2. QED
  BY <1>b, <1>c

-----------------------------------------------------------------------------
(* The theorems. *)

LEMMA InvNext == Inv /\ [Next]_vars => Inv'
<1> SUFFICES ASSUME Inv, [Next]_vars PROVE Inv'
  OBVIOUS
<1>1. CASE Next
  <2>1. TypeOK'
    BY <1>1, TypeNext
  <2>2. Mutual'
    BY <1>1, <2>1, MutualNext DEF Inv
  <2>3. Agreement'
    BY <1>1, <2>1, <2>2, AgreementNext DEF Inv
  <2>4. QED
    BY <2>1, <2>2, <2>3 DEF Inv
<1>2. CASE UNCHANGED vars
  <2> USE <1>2 DEF vars, lockVars, callVars, historyVars
  <2>1. TypeOK'
    BY DEF Inv, TypeOK
  <2>2. Mutual'
    BY DEF Inv, Mutual, Exclusive, Visits, Stage, Settled
  <2>3. Agreement'
    BY DEF Inv, Agreement, Serial, Agreed, Agreeing, AgreesApplying, AgreesRetiring, AgreesAt
  <2>4. QED
    BY <2>1, <2>2, <2>3 DEF Inv
<1>3. QED
  BY <1>1, <1>2

(* What the proofs of the theorems below rest on.                          *)
THEOREM LogConfigInv == Spec => []Inv
<1>1. QED
  BY InitInv, InvNext, PTL DEF Spec

(* Whatever setValue is called with and by whomever, no logger of a daemon *)
(* ever gets an appender that writes to stdout (log.cpp:704-711).          *)
THEOREM LogConfigTypes == Spec => []TypeOK
<1>1. Inv => TypeOK
  BY DEF Inv
<1>2. QED
  BY <1>1, LogConfigInv, PTL

(* No two listeners mix in one logger: between them every logger is what   *)
(* was last made of it, although its own mutex is let go after each call   *)
(* (log.cpp:697-719).                                                      *)
THEOREM LogConfigWhole == Spec => []Whole
<1>1. Inv => Whole
  <2> SUFFICES ASSUME Inv, varLock = None PROVE loggers = last
    BY DEF Whole
  <2>1. \A t \in Thread : pc[t] \notin Locked
    BY LogConfigAssumption DEF Inv, Mutual, Exclusive
  <2>2. \A n \in Name : loggers[n] = last[n]
    BY <2>1 DEF Inv, Mutual, Settled, Busy, Locked, Applying
  <2>3. QED
    BY <2>2 DEF Inv, TypeOK
<1>2. QED
  BY <1>1, LogConfigInv, PTL

(* The loggers agree with the configuration unless the window between the  *)
(* two sections of setValue was used (config.cpp:399-407).                 *)
THEOREM LogConfigApplied == Spec => []AppliedUnlessOverlap
<1>1. Inv => AppliedUnlessOverlap
  <2> SUFFICES ASSUME Inv, ~overlap, Idle PROVE \A n \in Name : AgreesAt(n, val)
    BY DEF AppliedUnlessOverlap, Applied, AgreesAt
  <2>1. QED
    BY DEF Inv, Agreement, Agreed, Idle, At, Setting, Locked, Applying
<1>2. QED
  BY <1>1, LogConfigInv, PTL

-----------------------------------------------------------------------------
(* LogFormat.                                                              *)


-----------------------------------------------------------------------------
(* The inductive invariant: where init() is in a date, and how far it has  *)
(* got in its braces.                                                      *)

Last == patterns[Len(patterns)]

LastIsDate == patterns # <<>> /\ Last.kind = "d" /\ Last.to = Last.from + 1

BracesOpen ==
  /\ Cut + 2 <= i
  /\ Cut < Size => i <= Size + 1 /\ pattern[Cut + 1] = LBrace
  /\ Cut = Size => i = Size + 2
  /\ \A j \in Cut + 2 .. i - 1 : j <= Size /\ pattern[j] # RBrace

InDate ==
  /\ place \in {"date", "braces"} => parsing /\ tmp = 0 /\ LastIsDate
  /\ place = "braces" => BracesOpen

(* What comes before text that begins is not text. *)
AfterEscape ==
  place = "scan" /\ parsing /\ tmp = 0 /\ patterns # <<>> => Last.kind # "text"

ParseInv == ParseTypeOK /\ Tokenised /\ InDate /\ AfterEscape

EntryType == [kind : Char \cup {"text"}, from : 1 .. Size, to : 1 .. Size]

(* An entry that may follow those there are. *)
Fits(entry) ==
  /\ entry \in EntryType
  /\ entry.from = Cut + 1 /\ entry.from <= entry.to
  /\ IF entry.kind = "text"
     THEN /\ \A j \in entry.from .. entry.to : pattern[j] # "%"
          /\ patterns # <<>> => Last.kind # "text"
     ELSE /\ pattern[entry.from] = "%" /\ entry.kind = pattern[entry.from + 1]
          /\ entry.to = entry.from + 1

-----------------------------------------------------------------------------
LEMMA SizeNat == ASSUME ParseTypeOK PROVE Size \in Nat /\ i \in Nat /\ tmp \in Nat
  BY DEF ParseTypeOK, Size

LEMMA Character ==
  ASSUME ParseTypeOK, NEW k \in 1 .. Size
  PROVE  pattern[k] \in Char /\ pattern[k] # "text"
<1>1. pattern \in Seq(Char) /\ k \in 1 .. Len(pattern)
  BY DEF ParseTypeOK, Size
<1>2. pattern[k] \in Char
  BY <1>1
<1>3. "text" \notin Char
  BY LogFormatAssumption
<1>4. QED
  BY <1>2, <1>3

LEMMA CutNat == ASSUME ParseTypeOK PROVE Cut \in 0 .. Size
<1>1. CASE patterns = <<>>
  BY <1>1, SizeNat DEF Cut
<1>2. CASE patterns # <<>>
  <2>1. Len(patterns) \in DOMAIN patterns /\ patterns \in Seq(EntryType)
    BY <1>2 DEF ParseTypeOK, EntryType
  <2>2. Last \in EntryType
    BY <2>1 DEF Last
  <2>3. QED
    BY <1>2, <2>2, SizeNat DEF Cut, Last, EntryType
<1>3. QED
  BY <1>1, <1>2

LEMMA LastEntry ==
  ASSUME ParseTypeOK, patterns # <<>>
  PROVE  /\ patterns \in Seq(EntryType) /\ Len(patterns) \in Nat /\ Len(patterns) > 0
         /\ Len(patterns) \in 1 .. Len(patterns) /\ DOMAIN patterns = 1 .. Len(patterns)
         /\ Last = patterns[Len(patterns)] /\ Cut = Last.to /\ Last \in EntryType
<1>1. patterns \in Seq(EntryType) /\ Len(patterns) \in Nat /\ DOMAIN patterns = 1 .. Len(patterns)
  BY DEF ParseTypeOK, EntryType
<1>2. Len(patterns) > 0
  BY <1>1
<1>3. Len(patterns) \in 1 .. Len(patterns)
  BY <1>1, <1>2
<1>4. Last = patterns[Len(patterns)] /\ Cut = Last.to
  BY DEF Last, Cut
<1>5. Last \in EntryType
  BY <1>1, <1>3, <1>4
<1>6. QED
  BY <1>1, <1>2, <1>3, <1>4, <1>5

(* An entry that fits, appended, leaves the entries as they must be. *)
LEMMA AppendFits ==
  ASSUME ParseTypeOK, EndToEnd, RightKinds, NEW entry, Fits(entry),
         pattern' = pattern, patterns' = Append(patterns, entry)
  PROVE  /\ EndToEnd' /\ RightKinds' /\ patterns' \in Seq(EntryType)
         /\ Cut' = entry.to /\ Last' = entry /\ patterns' # <<>>
<1> DEFINE n == Len(patterns)
<1>1. /\ patterns \in Seq(EntryType) /\ n \in Nat
  BY DEF ParseTypeOK, EntryType
<1>2. /\ patterns' \in Seq(EntryType) /\ Len(patterns') = n + 1 /\ DOMAIN patterns' = 1 .. n + 1
      /\ patterns'[n + 1] = entry
      /\ \A k \in 1 .. n : patterns'[k] = patterns[k]
  BY <1>1 DEF Fits
<1>3. patterns' # <<>> /\ Last' = entry /\ Cut' = entry.to
  BY <1>2 DEF Last, Cut
<1>4. /\ n = 0 => Cut = 0 /\ patterns = <<>>
      /\ n > 0 => Cut = patterns[n].to /\ Last = patterns[n] /\ patterns # <<>>
      /\ DOMAIN patterns = 1 .. n
  BY <1>1 DEF Cut, Last
<1>5. EndToEnd'
  <2> SUFFICES ASSUME NEW k \in 1 .. n + 1
               PROVE  /\ patterns'[k].from = (IF k = 1 THEN 1 ELSE patterns'[k - 1].to + 1)
                      /\ patterns'[k].from <= patterns'[k].to
    BY <1>2 DEF EndToEnd
  <2>1. CASE k = n + 1
    <3>1. n > 0 => n \in 1 .. n
      BY <1>1
    <3>2. patterns'[k] = entry /\ entry.from = Cut + 1 /\ entry.from <= entry.to
      BY <2>1, <1>2 DEF Fits
    <3>3. n > 0 => k # 1 /\ k - 1 = n /\ patterns'[k - 1] = patterns[n]
      BY <2>1, <1>1, <1>2, <3>1
    <3>4. n = 0 => k = 1
      BY <2>1
    <3>5. QED
      BY <1>1, <1>4, <3>2, <3>3, <3>4
  <2>2. CASE k \in 1 .. n
    <3>1. k # 1 => k - 1 \in 1 .. n
      BY <2>2, <1>1
    <3>2. QED
      BY <2>2, <3>1, <1>2, <1>4 DEF EndToEnd
  <2>3. QED
    BY <2>1, <2>2, <1>1
<1>6. RightKinds'
  <2> SUFFICES ASSUME NEW k \in 1 .. n + 1
               PROVE  IF patterns'[k].kind = "text" THEN TextAt(k)' ELSE LetterAt(k)'
    BY <1>2 DEF RightKinds
  <2>1. CASE k = n + 1
    <3>1. patterns'[k] = entry
      BY <2>1, <1>2
    <3>2. CASE entry.kind = "text"
      <4>1. n > 0 => k - 1 = n /\ patterns'[k - 1] = Last
        <5> SUFFICES ASSUME n > 0 PROVE k - 1 = n /\ patterns'[n] = Last
          OBVIOUS
        <5>1. k - 1 = n /\ n \in 1 .. n
          BY <2>1, <1>1
        <5>2. QED
          BY <5>1, <1>2, <1>4
      <4>2. k > 1 => n > 0
        BY <2>1, <1>1
      <4>3. TextAt(k)'
        BY <3>1, <3>2, <4>1, <4>2, <1>4 DEF TextAt, Fits
      <4>4. QED
        BY <3>1, <3>2, <4>3
    <3>3. CASE entry.kind # "text"
      BY <3>1, <3>3 DEF LetterAt, Fits
    <3>4. QED
      BY <3>2, <3>3
  <2>2. CASE k \in 1 .. n
    <3>1. patterns'[k] = patterns[k]
      BY <2>2, <1>2
    <3>2. k > 1 => patterns'[k - 1] = patterns[k - 1]
      BY <2>2, <1>1, <1>2
    <3>3. IF patterns[k].kind = "text" THEN TextAt(k) ELSE LetterAt(k)
      BY <2>2, <1>4 DEF RightKinds
    <3>4. QED
      BY <3>1, <3>2, <3>3 DEF TextAt, LetterAt, BracedAt
  <2>3. QED
    BY <2>1, <2>2, <1>1
<1>7. QED
  BY <1>2, <1>3, <1>5, <1>6

(* What Fits asks of the text in tmp. *)
LEMMA TmpFits ==
  ASSUME ParseTypeOK, Behind, tmp # 0
  PROVE  Fits(Entry("text", tmp, i - 1))
<1>1. tmp \in 1 .. Size /\ i - 1 \in 1 .. Size /\ tmp <= i - 1 /\ tmp = Cut + 1
  <2>1. tmp = Cut + 1 /\ tmp < i /\ \A j \in tmp .. i - 1 : j <= Size
    BY DEF Behind
  <2>2. tmp \in Nat /\ i \in Nat /\ tmp > 0 /\ Size \in Nat
    BY SizeNat
  <2>3. i - 1 \in tmp .. i - 1
    BY <2>1, <2>2
  <2>4. QED
    BY <2>1, <2>2, <2>3
<1>2. Entry("text", tmp, i - 1) \in EntryType
  BY <1>1 DEF Entry, EntryType
<1>3. QED
  BY <1>1, <1>2 DEF Fits, Entry, Behind, Last

-----------------------------------------------------------------------------
LEMMA ParseInvInit == ParseInit => ParseInv
<1> SUFFICES ASSUME ParseInit PROVE ParseInv
  OBVIOUS
<1>1. pattern \in Seq(Char) /\ Size \in Nat
  <2>1. pattern \in Pattern /\ Pattern \subseteq Seq(Char)
    BY LogFormatAssumption, Zenon DEF ParseInit
  <2>2. pattern \in Seq(Char)
    BY <2>1, Zenon
  <2>3. QED
    BY <2>2 DEF Size
<1>2. ParseTypeOK
  <2>1. parsing \in BOOLEAN
    BY DEF ParseInit
  <2>2. patterns \in Seq([kind : Char \cup {"text"}, from : 1 .. Size, to : 1 .. Size])
    BY DEF ParseInit
  <2>3. items \in Seq([kind : Known \cup {"text", "d"}, of : SUBSET (1 .. Size)])
    BY DEF ParseInit
  <2>4. error \in BOOLEAN
    BY DEF ParseInit
  <2>5. QED
    BY <1>1, <2>1, <2>2, <2>3, <2>4 DEF ParseInit, ParseTypeOK
<1>3. Cut = 0
  BY DEF ParseInit, Cut
<1>4. Tokenised
  BY <1>1, <1>3 DEF ParseInit, Tokenised, EndToEnd, RightKinds, Behind
<1>5. InDate /\ AfterEscape
  BY DEF ParseInit, InDate, AfterEscape
<1>6. QED
  BY <1>2, <1>4, <1>5 DEF ParseInv

LEMMA SameEntries ==
  ASSUME EndToEnd, RightKinds, pattern' = pattern, patterns' = patterns
  PROVE  EndToEnd' /\ RightKinds' /\ Cut' = Cut /\ Last' = Last /\ Size' = Size
  BY DEF EndToEnd, RightKinds, TextAt, LetterAt, BracedAt, Cut, Last, Size

(* ParseTypeOK' of a step that changes neither the items nor dateformat. *)
LEMMA ParseTypes ==
  ASSUME ParseTypeOK, pattern' = pattern, Size' = Size,
         place' \in {"scan", "date", "braces", "build", "done"},
         i' \in 1 .. Size + 3, tmp' \in 0 .. Size,
         parsing' \in BOOLEAN, error' \in BOOLEAN, patterns' \in Seq(EntryType),
         dateformat' = dateformat, items' = items
  PROVE  ParseTypeOK'
  BY DEF ParseTypeOK, EntryType

LEMMA BeginEscapeStep == ASSUME ParseInv, BeginEscape PROVE ParseInv'
<1>1. /\ ParseTypeOK /\ EndToEnd /\ RightKinds /\ Behind /\ Size' = Size
      /\ place = "scan" /\ place' = "scan" /\ i <= Size /\ parsing /\ i' = i + 1 /\ tmp' = 0 /\ parsing' = FALSE
      /\ pattern[i] = "%" /\ pattern' = pattern
  BY DEF ParseInv, Tokenised, BeginEscape, Reads, Size
<1>2. Size \in Nat /\ i \in 1 .. Size /\ Cut \in 0 .. Size /\ tmp \in Nat
  BY <1>1, SizeNat, CutNat DEF ParseTypeOK
<1>3. EndToEnd' /\ RightKinds' /\ patterns' \in Seq(EntryType) /\ Cut' = i - 1
  <2>1. CASE tmp = 0
    <3>1. patterns' = patterns
      BY <2>1 DEF BeginEscape, Flushed
    <3>2. Cut = i - 1
      BY <1>1, <1>2, <2>1 DEF Behind
    <3>3. QED
      BY <3>1, <3>2, <1>1, SameEntries DEF ParseTypeOK, EntryType
  <2>2. CASE tmp # 0
    <3>1. patterns' = Append(patterns, Entry("text", tmp, i - 1))
      BY <2>2 DEF BeginEscape, Flushed
    <3>2. Fits(Entry("text", tmp, i - 1))
      BY <1>1, <2>2, TmpFits
    <3>3. QED
      BY <3>1, <3>2, <1>1, AppendFits DEF Entry
  <2>3. QED
    BY <2>1, <2>2
<1>4. ParseTypeOK'
  <2>1. dateformat' = dateformat /\ items' = items /\ error' = error
    BY DEF BeginEscape
  <2>2. parsing' \in BOOLEAN
    BY <1>1
  <2>3. error' \in BOOLEAN
    BY <1>1, <2>1 DEF ParseTypeOK
  <2>4. QED
    BY <1>1, <1>2, <1>3, <2>1, <2>2, <2>3, ParseTypes
<1>5. Behind' /\ InDate' /\ AfterEscape'
  BY <1>1, <1>2, <1>3 DEF Behind, InDate, AfterEscape
<1>6. QED
  BY <1>3, <1>4, <1>5 DEF ParseInv, Tokenised

LEMMA EscapeFits ==
  ASSUME ParseTypeOK, Behind, ~parsing, i <= Size
  PROVE  Fits(Entry(pattern[i], i - 1, i)) /\ i - 1 = Cut + 1 /\ i \in 1 .. Size
<1>1. i = Cut + 2 /\ Cut < Size /\ pattern[Cut + 1] = "%" /\ Cut \in 0 .. Size /\ Size \in Nat
  BY CutNat, SizeNat DEF Behind
<1>2. i \in 1 .. Size /\ i - 1 \in 1 .. Size /\ i - 1 = Cut + 1 /\ (i - 1) + 1 = i
  BY <1>1
<1>3. pattern[i] \in Char /\ pattern[i] # "text"
  BY <1>2, Character
<1>4. Entry(pattern[i], i - 1, i) \in EntryType
  BY <1>2, <1>3 DEF EntryType, Entry
<1>5. QED
  BY <1>1, <1>2, <1>3, <1>4 DEF Fits, Entry

LEMMA LetterOrPercentStep ==
  ASSUME ParseInv, Percent \/ Letter
  PROVE  ParseInv'
<1>1. /\ ParseTypeOK /\ EndToEnd /\ RightKinds /\ Behind /\ Size' = Size
      /\ place = "scan" /\ i <= Size /\ ~parsing /\ i' = i + 1 /\ tmp' = tmp /\ parsing' = TRUE
      /\ pattern' = pattern /\ patterns' = Append(patterns, Entry(pattern[i], i - 1, i))
      /\ place' \in {"scan", "date"} /\ (place' = "date" => pattern[i] = "d")
  BY DEF ParseInv, Tokenised, Percent, Letter, Reads, Push, Size
<1>2. Fits(Entry(pattern[i], i - 1, i)) /\ i \in 1 .. Size /\ Size \in Nat /\ tmp = 0
  BY <1>1, EscapeFits, SizeNat DEF Behind
<1>3. /\ EndToEnd' /\ RightKinds' /\ patterns' \in Seq(EntryType)
      /\ Cut' = i /\ Last' = Entry(pattern[i], i - 1, i) /\ patterns' # <<>>
  BY <1>1, <1>2, AppendFits DEF Entry
<1>4. ParseTypeOK'
  <2>1. dateformat' = dateformat /\ items' = items /\ error' = error
    BY DEF Percent, Letter
  <2>2. parsing' \in BOOLEAN
    BY <1>1
  <2>3. error' \in BOOLEAN
    BY <1>1, <2>1 DEF ParseTypeOK
  <2>4. QED
    BY <1>1, <1>2, <1>3, <2>1, <2>2, <2>3, ParseTypes
<1>5. Behind'
  BY <1>1, <1>2, <1>3 DEF Behind
<1>6. InDate' /\ AfterEscape'
  <2>1. Last'.kind # "text"
    BY <1>1, <1>2, <1>3, Character DEF Entry
  <2>2. QED
    BY <1>1, <1>2, <1>3, <2>1 DEF InDate, LastIsDate, Entry, AfterEscape
<1>7. QED
  BY <1>3, <1>4, <1>5, <1>6 DEF ParseInv, Tokenised

LEMMA TextStep == ASSUME ParseInv, Text PROVE ParseInv'
<1>1. /\ ParseTypeOK /\ EndToEnd /\ RightKinds /\ Behind /\ InDate
      /\ AfterEscape
      /\ place = "scan" /\ place' = "scan" /\ i <= Size /\ parsing /\ parsing' = parsing /\ i' = i + 1
      /\ tmp' = (IF tmp = 0 THEN i ELSE tmp) /\ pattern[i] # "%" /\ pattern' = pattern /\ patterns' = patterns
  BY DEF ParseInv, Tokenised, Text, Reads
<1>2. EndToEnd' /\ RightKinds' /\ Cut' = Cut /\ Last' = Last /\ Size' = Size
  BY <1>1, SameEntries
<1>3. Size \in Nat /\ i \in 1 .. Size /\ Cut \in 0 .. Size /\ tmp \in 0 .. Size
  BY <1>1, SizeNat, CutNat DEF ParseTypeOK
<1>4. ParseTypeOK'
  BY <1>1, <1>2, <1>3 DEF ParseTypeOK, Text
<1>5. Behind'
  <2>1. patterns # <<>> => patterns[Len(patterns)].kind # "text"
    BY <1>1 DEF Behind, AfterEscape, Last
  <2>2. QED
    BY <1>1, <1>2, <1>3, <2>1 DEF Behind
<1>6. InDate' /\ AfterEscape'
  BY <1>1, <1>3 DEF InDate, AfterEscape
<1>7. QED
  BY <1>2, <1>4, <1>5, <1>6 DEF ParseInv, Tokenised

LEMMA InDateSteps == ASSUME ParseInv, AfterDate \/ DateCharacter PROVE ParseInv'
<1>1. /\ ParseTypeOK /\ EndToEnd /\ RightKinds /\ Behind /\ InDate
      /\ pattern' = pattern /\ patterns' = patterns /\ tmp' = tmp /\ parsing' = parsing
      /\ items' = items /\ error' = error
      /\ place \in {"date", "braces"} /\ place' \in {"scan", "braces"}
      /\ parsing /\ tmp = 0 /\ LastIsDate
  BY DEF ParseInv, Tokenised, AfterDate, DateCharacter, InDate
<1>2. EndToEnd' /\ RightKinds' /\ Cut' = Cut /\ Last' = Last /\ Size' = Size
  BY <1>1, SameEntries
<1>3. Size \in Nat /\ i \in Nat /\ Cut \in 0 .. Size /\ tmp \in 0 .. Size
  BY <1>1, SizeNat, CutNat DEF ParseTypeOK
<1>4. CASE AfterDate
  <2>1. i = Cut + 1 /\ dateformat' = dateformat
    BY <1>1, <1>4 DEF AfterDate, Behind
  <2>2. \/ place' = "scan" /\ i' = i
        \/ place' = "braces" /\ i' = i + 1 /\ (i <= Size => pattern[i] = LBrace)
    BY <1>4 DEF AfterDate, NoBraces
  <2>3. ParseTypeOK'
    <3>1. parsing' \in BOOLEAN /\ error' \in BOOLEAN
      BY <1>1 DEF ParseTypeOK
    <3>2. patterns' \in Seq(EntryType)
      BY <1>1 DEF ParseTypeOK, EntryType
    <3>3. QED
      BY <1>1, <1>2, <1>3, <2>1, <2>2, <3>1, <3>2, ParseTypes
  <2>4. Behind'
    BY <1>1, <1>2, <1>3, <2>1, <2>2 DEF Behind
  <2>5. InDate'
    BY <1>1, <1>2, <1>3, <2>1, <2>2 DEF InDate, LastIsDate, BracesOpen
  <2>6. AfterEscape'
    BY <1>1, <1>2 DEF AfterEscape, LastIsDate
  <2>7. QED
    BY <1>2, <2>3, <2>4, <2>5, <2>6 DEF ParseInv, Tokenised
<1>5. CASE DateCharacter
  <2>1. /\ place = "braces" /\ place' = "braces" /\ BracesOpen /\ i' = i + 1 /\ dateformat' = dateformat \cup {i}
        /\ i <= Size /\ pattern[i] # RBrace
    BY <1>1, <1>5 DEF DateCharacter, InBraces, InDate
  <2>2. ParseTypeOK'
    <3>1. dateformat' \subseteq 1 .. Size
      BY <1>1, <1>3, <2>1 DEF ParseTypeOK
    <3>2. QED
      BY <1>1, <1>2, <1>3, <2>1, <3>1 DEF ParseTypeOK
  <2>3. BracesOpen'
    BY <1>1, <1>2, <1>3, <2>1 DEF BracesOpen
  <2>4. Behind' /\ InDate' /\ AfterEscape'
    BY <1>1, <1>2, <1>3, <2>1, <2>3 DEF Behind, InDate, LastIsDate, AfterEscape
  <2>5. QED
    BY <1>2, <2>2, <2>4 DEF ParseInv, Tokenised
<1>6. QED
  BY <1>4, <1>5

(* The brace that closes is the end of the last entry's span. *)
LEMMA CloseLast ==
  ASSUME ParseTypeOK, EndToEnd, RightKinds, LastIsDate, BracesOpen,
         i <= Size, pattern[i] = RBrace,
         pattern' = pattern, patterns' = LastSpans(i)
  PROVE  /\ EndToEnd' /\ RightKinds' /\ patterns' \in Seq(EntryType)
         /\ Cut' = i /\ Last'.kind = "d" /\ patterns' # <<>>
<1> DEFINE n == Len(patterns)
<1>1. /\ patterns \in Seq(EntryType) /\ n \in Nat /\ n > 0 /\ n \in 1 .. n /\ DOMAIN patterns = 1 .. n
      /\ Last = patterns[n] /\ Cut = Last.to /\ Last \in EntryType
  BY LastEntry DEF LastIsDate
<1>2. Last.kind = "d" /\ Last.to = Last.from + 1
  BY DEF LastIsDate
<1>3. /\ Size \in Nat /\ i \in 1 .. Size /\ Last.from \in 1 .. Size /\ Last.to \in 1 .. Size
      /\ Cut < Size
  <2>1. Last.from \in 1 .. Size /\ Last.to \in 1 .. Size
    BY <1>1 DEF EntryType
  <2>2. Size \in Nat /\ i \in 1 .. Size
    BY SizeNat DEF ParseTypeOK
  <2>3. Cut < Size
    BY <2>1, <2>2, <1>1 DEF BracesOpen
  <2>4. QED
    BY <2>1, <2>2, <2>3
<1>4. Last.from + 3 <= i /\ pattern[Last.from + 2] = LBrace /\ \A j \in Last.from + 3 .. i - 1 : pattern[j] # RBrace
  <2>1. Cut = Last.from + 1
    BY <1>1, <1>2
  <2>2. /\ Cut + 2 <= i /\ pattern[Cut + 1] = LBrace
        /\ \A j \in Cut + 2 .. i - 1 : pattern[j] # RBrace
    BY <1>3 DEF BracesOpen
  <2>3. Cut + 1 = Last.from + 2 /\ Cut + 2 = Last.from + 3
    BY <2>1, <1>3
  <2>4. QED
    BY <2>2, <2>3
<1>5. /\ patterns' = [patterns EXCEPT ![n] = [Last EXCEPT !.to = i]]
      /\ [Last EXCEPT !.to = i] \in EntryType
  <2>1. patterns' = [patterns EXCEPT ![n].to = i]
    BY DEF LastSpans
  <2>2. [Last EXCEPT !.to = i] \in EntryType
    BY <1>1, <1>3 DEF EntryType
  <2>3. QED
    BY <2>1, <2>2, <1>1
<1>6. /\ patterns' \in Seq(EntryType) /\ Len(patterns') = n /\ DOMAIN patterns' = 1 .. n
      /\ patterns'[n] = [Last EXCEPT !.to = i]
      /\ \A k \in 1 .. n : k # n => patterns'[k] = patterns[k]
  BY <1>1, <1>5
<1>7. /\ patterns'[n].kind = "d" /\ patterns'[n].from = Last.from /\ patterns'[n].to = i
  BY <1>2, <1>6 DEF EntryType
<1>8. patterns' # <<>> /\ Cut' = i /\ Last'.kind = "d"
  BY <1>1, <1>6, <1>7 DEF Cut, Last
<1>9. EndToEnd'
  <2> SUFFICES ASSUME NEW k \in 1 .. n
               PROVE  /\ patterns'[k].from = (IF k = 1 THEN 1 ELSE patterns'[k - 1].to + 1)
                      /\ patterns'[k].from <= patterns'[k].to
    BY <1>6 DEF EndToEnd
  <2>1. patterns'[k].from = patterns[k].from
    <3>1. CASE k = n
      BY <3>1, <1>1, <1>7
    <3>2. CASE k # n
      BY <3>2, <1>6
    <3>3. QED
      BY <3>1, <3>2
  <2>2. k # 1 => k - 1 \in 1 .. n /\ k - 1 # n /\ patterns'[k - 1] = patterns[k - 1]
    BY <1>1, <1>6
  <2>3. patterns[k].from = (IF k = 1 THEN 1 ELSE patterns[k - 1].to + 1) /\ patterns[k].from <= patterns[k].to
    BY <1>1 DEF EndToEnd
  <2>4. patterns'[k].from <= patterns'[k].to
    <3>1. CASE k = n
      BY <3>1, <1>3, <1>4, <1>7
    <3>2. CASE k # n
      BY <3>2, <1>6, <2>3
    <3>3. QED
      BY <3>1, <3>2
  <2>5. QED
    BY <2>1, <2>2, <2>3, <2>4
<1>10. RightKinds'
  <2> SUFFICES ASSUME NEW k \in 1 .. n
               PROVE  IF patterns'[k].kind = "text" THEN TextAt(k)' ELSE LetterAt(k)'
    BY <1>6 DEF RightKinds
  <2>1. IF patterns[k].kind = "text" THEN TextAt(k) ELSE LetterAt(k)
    BY <1>1 DEF RightKinds
  <2>2. CASE k = n
    <3>1. patterns[k] = Last /\ patterns[k].kind # "text"
      BY <2>2, <1>1, <1>2
    <3>2. LetterAt(k)
      BY <2>1, <3>1, Zenon
    <3>3. pattern[Last.from] = "%" /\ pattern[Last.from + 1] = "d"
      BY <3>1, <3>2, <1>2 DEF LetterAt
    <3>4. patterns'[k].kind = "d" /\ patterns'[k].from = Last.from /\ patterns'[k].to = i
      BY <2>2, <1>7
    <3>5. BracedAt(k)'
      <4>1. /\ patterns'[k].from + 3 <= patterns'[k].to
            /\ pattern[patterns'[k].from + 2] = LBrace /\ pattern[patterns'[k].to] = RBrace
            /\ \A j \in patterns'[k].from + 3 .. patterns'[k].to - 1 : pattern[j] # RBrace
        BY <1>4, <3>4
      <4>2. QED
        BY <4>1, <3>4, Zenon DEF BracedAt
    <3>6. pattern'[patterns'[k].from] = "%" /\ patterns'[k].kind = pattern'[patterns'[k].from + 1]
      BY <3>3, <3>4
    <3>7. LetterAt(k)'
      BY <3>5, <3>6, Zenon DEF LetterAt
    <3>8. patterns'[k].kind # "text"
      BY <3>4
    <3>9. QED
      BY <3>7, <3>8, Zenon
  <2>3. CASE k # n
    <3>1. patterns'[k] = patterns[k]
      BY <2>3, <1>6
    <3>2. k > 1 => patterns'[k - 1] = patterns[k - 1]
      BY <1>1, <1>6
    <3>3. QED
      BY <2>1, <3>1, <3>2 DEF TextAt, LetterAt, BracedAt
  <2>4. QED
    BY <2>2, <2>3
<1>11. QED
  BY <1>6, <1>8, <1>9, <1>10

LEMMA ClosedStep == ASSUME ParseInv, Closed PROVE ParseInv'
<1>1. /\ ParseTypeOK /\ EndToEnd /\ RightKinds /\ Behind /\ LastIsDate /\ BracesOpen
      /\ pattern' = pattern /\ tmp' = tmp /\ parsing' = parsing /\ Size' = Size
      /\ items' = items /\ error' = error /\ dateformat' = dateformat
      /\ place' = "scan" /\ i' = i + 1 /\ parsing /\ tmp = 0
      /\ patterns' = LastSpans(IF i <= Size THEN i ELSE Size)
      /\ ~InBraces /\ TRUE \in ClosedOutcomes
  BY DEF ParseInv, Tokenised, Closed, InDate, Size
<1>2. Size \in Nat /\ i \in Nat /\ Cut \in 0 .. Size
  BY <1>1, SizeNat, CutNat
<1>3. /\ EndToEnd' /\ RightKinds' /\ patterns' \in Seq(EntryType) /\ Last'.kind = "d" /\ patterns' # <<>>
      /\ i' = Cut' + 1 \/ (i' = Size + 3 /\ Cut' = Size)
  <2>1. CASE i <= Size
    BY <1>1, <1>2, <2>1, CloseLast DEF InBraces
  <2>2. CASE i > Size
    <3>1. i # Size + 1
      <4> SUFFICES ASSUME i = Size + 1 PROVE FALSE
        OBVIOUS
      <4>1. ~(i <= Size)
        BY <2>2, <1>2
      <4>2. ClosedOutcomes = {FALSE}
        BY <4>1, Zenon DEF ClosedOutcomes
      <4>3. QED
        BY <4>2, <1>1, Zenon
    <3>2. Cut = Size /\ i = Size + 2
      BY <1>1, <1>2, <2>2, <3>1 DEF BracesOpen
    <3>3. patterns' = patterns
      <4>1. /\ patterns \in Seq(EntryType) /\ Len(patterns) \in DOMAIN patterns
            /\ Last = patterns[Len(patterns)] /\ Last \in EntryType /\ Last.to = Size
        BY <1>1, <3>2, LastEntry DEF LastIsDate
      <4>2. Last = [Last EXCEPT !.to = Size]
        BY <4>1 DEF EntryType
      <4>3. patterns' = LastSpans(Size)
        BY <1>1, <1>2, <2>2
      <4>4. QED
        BY <4>1, <4>2, <4>3 DEF LastSpans
    <3>4. QED
      BY <1>1, <1>2, <3>2, <3>3, SameEntries DEF ParseTypeOK, EntryType, LastIsDate
  <2>3. QED
    BY <1>2, <2>1, <2>2
<1>4. ParseTypeOK'
  <2>1. parsing' \in BOOLEAN /\ error' \in BOOLEAN
    BY <1>1 DEF ParseTypeOK
  <2>2. i <= Size + 2
    BY <1>1, <1>2 DEF BracesOpen
  <2>3. QED
    BY <1>1, <1>2, <1>3, <2>1, <2>2, ParseTypes
<1>5. Behind'
  BY <1>1, <1>3 DEF Behind
<1>6. InDate' /\ AfterEscape'
  BY <1>1, <1>3 DEF InDate, AfterEscape
<1>7. QED
  BY <1>3, <1>4, <1>5, <1>6 DEF ParseInv, Tokenised

LEMMA EndOfPatternStep == ASSUME ParseInv, EndOfPattern PROVE ParseInv'
<1>1. /\ ParseTypeOK /\ EndToEnd /\ RightKinds /\ Behind /\ Size' = Size
      /\ place = "scan" /\ place' = "build" /\ i > Size /\ i' = i /\ tmp' = 0 /\ parsing' = parsing
      /\ pattern' = pattern /\ dateformat' = dateformat /\ items' = items /\ error' = error
      /\ patterns' = Flushed
  BY DEF ParseInv, Tokenised, EndOfPattern, Size
<1>2. Size \in Nat /\ i \in Nat /\ Cut \in 0 .. Size /\ tmp \in Nat
  BY <1>1, SizeNat, CutNat
<1>3. EndToEnd' /\ RightKinds' /\ patterns' \in Seq(EntryType) /\ (tmp = 0 => Cut' = Cut)
  <2>1. CASE tmp = 0
    BY <2>1, <1>1, SameEntries DEF Flushed, ParseTypeOK, EntryType
  <2>2. CASE tmp # 0
    <3>1. patterns' = Append(patterns, Entry("text", tmp, i - 1))
      BY <1>1, <2>2 DEF Flushed
    <3>2. QED
      BY <2>2, <3>1, <1>1, TmpFits, AppendFits
  <2>3. QED
    BY <2>1, <2>2
<1>4. ParseTypeOK'
  <2>1. parsing' \in BOOLEAN /\ error' \in BOOLEAN /\ i \in 1 .. Size + 3
    BY <1>1 DEF ParseTypeOK
  <2>2. QED
    BY <1>1, <1>2, <1>3, <2>1, ParseTypes
<1>5. Behind' /\ InDate' /\ AfterEscape'
  BY <1>1, <1>2, <1>3 DEF Behind, InDate, AfterEscape
<1>6. QED
  BY <1>3, <1>4, <1>5 DEF ParseInv, Tokenised

(* The steps that leave the entries as they are. *)
LEMMA BuildSteps ==
  ASSUME ParseInv, NotClosed \/ UnknownItem \/ MakeItem \/ Built
  PROVE  ParseInv'
<1>1. /\ ParseTypeOK /\ EndToEnd /\ RightKinds /\ Behind
      /\ pattern' = pattern /\ patterns' = patterns /\ tmp' = tmp /\ parsing' = parsing /\ i' = i
      /\ dateformat' = dateformat /\ place' \in {"build", "done"}
      /\ tmp # 0 => place = "scan"
      /\ place \in {"build", "braces"}
  BY DEF ParseInv, Tokenised, Behind, NotClosed, UnknownItem, MakeItem, Built, Building
<1>2. EndToEnd' /\ RightKinds' /\ Cut' = Cut /\ Size' = Size
  BY <1>1, SameEntries
<1>3. items' \in Seq([kind : Known \cup {"text", "d"}, of : SUBSET (1 .. Size)])
  <2>1. CASE MakeItem
    <3>1. IsKnown(NextEntry.kind) /\ items' = Append(items, Item(NextEntry))
      BY <2>1 DEF MakeItem
    <3>2. Item(NextEntry).of \subseteq 1 .. Size
      BY <1>1 DEF Item, Span, ParseTypeOK
    <3>3. Item(NextEntry) \in [kind : Known \cup {"text", "d"}, of : SUBSET (1 .. Size)]
      BY <3>1, <3>2 DEF Item, IsKnown
    <3>4. QED
      BY <1>1, <3>1, <3>3 DEF ParseTypeOK
  <2>2. CASE ~MakeItem
    BY <1>1, <2>2 DEF NotClosed, UnknownItem, Built, ParseTypeOK
  <2>3. QED
    BY <2>1, <2>2
<1>4. error' \in BOOLEAN
  BY <1>1 DEF NotClosed, UnknownItem, MakeItem, Built, ParseTypeOK
<1>5. ParseTypeOK'
  BY <1>1, <1>2, <1>3, <1>4 DEF ParseTypeOK
<1>6. Behind' /\ InDate' /\ AfterEscape'
  BY <1>1, <1>2 DEF Behind, InDate, AfterEscape
<1>7. QED
  BY <1>2, <1>5, <1>6 DEF ParseInv, Tokenised

LEMMA ParseInvNext == ParseInv /\ [ParseNext]_parseVars => ParseInv'
<1> SUFFICES ASSUME ParseInv, [ParseNext]_parseVars PROVE ParseInv'
  OBVIOUS
<1>1. CASE Parse
  BY <1>1, BeginEscapeStep, LetterOrPercentStep, TextStep, InDateSteps, ClosedStep, EndOfPatternStep,
     BuildSteps DEF Parse
<1>2. CASE Build
  BY <1>2, BuildSteps DEF Build
<1>3. CASE UNCHANGED parseVars
  <2>1. /\ pattern' = pattern /\ patterns' = patterns /\ tmp' = tmp /\ parsing' = parsing /\ i' = i
        /\ dateformat' = dateformat /\ place' = place /\ items' = items /\ error' = error
    BY <1>3 DEF parseVars
  <2>2. QED
    BY <2>1 DEF ParseInv, ParseTypeOK, Tokenised, EndToEnd, RightKinds, TextAt, LetterAt, BracedAt, Behind,
                InDate, LastIsDate, BracesOpen, AfterEscape, Cut, Last, Size
<1>4. QED
  BY <1>1, <1>2, <1>3 DEF ParseNext, Over

(* Where init() is in a pattern, and what it has made of it, at each step. *)
THEOREM LogFormatInvariant == ParseSpec => []ParseInv
<1>1. QED
  BY ParseInvInit, ParseInvNext, PTL DEF ParseSpec

(* Every variable of init() keeps its type: no character that is not of    *)
(* the pattern gets into an item.                                          *)
THEOREM LogFormatTypes == ParseSpec => []ParseTypeOK
<1>1. ParseInv => ParseTypeOK
  BY DEF ParseInv
<1>2. QED
  BY <1>1, LogFormatInvariant, PTL

(* At every step of init() the entries are a tokenisation of what has been *)
(* read, for every pattern.                                                *)
THEOREM LogFormatTokens == ParseSpec => []Tokenised
<1>1. ParseInv => Tokenised
  BY DEF ParseInv
<1>2. QED
  BY <1>1, LogFormatInvariant, PTL

(* init() reads no further than the terminating zero of the pattern unless *)
(* it ends in %d, and then one character further.                          *)
THEOREM LogFormatReadsInside == ParseSpec => []ReadsInside
<1>1. ParseInv => ReadsInside
  <2> SUFFICES ASSUME ParseInv, place = "braces", i > Size + 1
               PROVE  i = Size + 2 /\ patterns[Len(patterns)] = Entry("d", Size - 1, Size)
    BY DEF ReadsInside
  <2>1. ParseTypeOK /\ LastIsDate /\ BracesOpen
    BY DEF ParseInv, InDate
  <2>2. Size \in Nat /\ i \in Nat /\ Cut \in 0 .. Size
    BY <2>1, SizeNat, CutNat
  <2>3. i = Size + 2 /\ Cut = Size
    BY <2>1, <2>2 DEF BracesOpen
  <2>4. Last \in EntryType
    <3>1. patterns \in Seq(EntryType) /\ Len(patterns) \in DOMAIN patterns
      BY <2>1 DEF ParseTypeOK, EntryType, LastIsDate
    <3>2. QED
      BY <3>1 DEF Last
  <2>5. Last.to = Size /\ Last.from = Size - 1 /\ Last.kind = "d"
    BY <2>1, <2>2, <2>3, <2>4 DEF Cut, Last, LastIsDate, EntryType
  <2>6. QED
    BY <2>3, <2>4, <2>5 DEF Last, Entry, EntryType
<1>2. QED
  BY <1>1, LogFormatInvariant, PTL

-----------------------------------------------------------------------------
(* What the loop over the entries makes of them.                           *)

(* The positions inside the braces of an entry, and of all. *)
Inside(entry) == IF entry.kind = "d" THEN Span(entry.from + 3, entry.to - 1) ELSE {}
AllInside == UNION {Inside(patterns[k]) : k \in DOMAIN patterns}

(* Why init() refuses a pattern: behind a %d a brace is open that is not   *)
(* closed, or the pattern ends there; or an entry stands for nothing.      *)
Unfinished ==
  /\ items = <<>> /\ LastIsDate
  /\ Cut < Size => pattern[Cut + 1] = LBrace /\ \A j \in Cut + 2 .. Size : pattern[j] # RBrace

StandsForNothing == Len(items) < Len(patterns) /\ ~IsKnown(patterns[Len(items) + 1].kind)

(* The entries reach to the end, or to a sign behind which nothing comes.  *)
Complete == Cut = Size \/ (Cut = Size - 1 /\ pattern[Size] = "%")

(* dateformat is what stands in braces so far. *)
Collected ==
  /\ place \in {"scan", "date", "build"} \/ (place = "done" /\ (error => ~Unfinished)) =>
       dateformat = AllInside
  /\ place = "braces" => dateformat = AllInside \cup Span(Cut + 2, i - 1)

ItemsMade ==
  /\ place \in {"scan", "date", "braces"} => items = <<>>
  /\ place # "done" => ~error
  /\ \A k \in DOMAIN items : /\ k \in DOMAIN patterns /\ IsKnown(patterns[k].kind)
                             /\ items[k] = Item(patterns[k])
  /\ place = "build" \/ (place = "done" /\ (error => ~Unfinished)) => Complete
  /\ place = "done" => IF error THEN Unfinished \/ StandsForNothing
                                ELSE Len(items) = Len(patterns)

(* What an entry writes: the text of its span, the time in the format that *)
(* stands in all the braces together, or the field.                        *)
WrittenFor(entry) ==
  Written(entry.kind, IF entry.kind = "text" THEN Span(entry.from, entry.to)
                      ELSE IF entry.kind = "d" THEN AllInside ELSE {})

(* A formatter writes its entries in their order, all of them unless it is *)
(* refused, and it is refused for a cause only (log.cpp:244-364).          *)
WritesEntries ==
  place = "done" =>
    /\ \A k \in DOMAIN Format : k \in DOMAIN patterns /\ Format[k] = WrittenFor(patterns[k])
    /\ ~error => Len(Format) = Len(patterns) /\ Complete
    /\ error => Unfinished \/ StandsForNothing

MadeInv == ParseInv /\ Collected /\ ItemsMade

LEMMA NothingInside ==
  ASSUME ParseTypeOK, NEW entry \in EntryType, entry.to = entry.from + 1 \/ entry.kind = "text"
  PROVE  Inside(entry) = {}
<1>1. entry.from \in Nat /\ entry.to \in Nat
  BY SizeNat DEF EntryType
<1>2. CASE entry.kind = "text"
  BY <1>2 DEF Inside
<1>3. CASE entry.to = entry.from + 1
  <2>1. \A k \in 1 .. Size : ~(entry.from + 3 <= k /\ k <= entry.to - 1)
    BY <1>1, <1>3, SizeNat
  <2>2. QED BY <2>1 DEF Inside, Span
<1>4. QED BY <1>2, <1>3

(* An entry without braces, appended, brings nothing to dateformat. *)
LEMMA AppendInside ==
  ASSUME ParseTypeOK, NEW entry \in EntryType, Inside(entry) = {},
         pattern' = pattern, patterns' = Append(patterns, entry)
  PROVE  AllInside' = AllInside
<1> DEFINE n == Len(patterns)
<1>1. patterns \in Seq(EntryType) /\ n \in Nat /\ DOMAIN patterns = 1 .. n
  BY DEF ParseTypeOK, EntryType
<1>2. /\ DOMAIN patterns' = 1 .. n + 1 /\ patterns'[n + 1] = entry
      /\ \A k \in 1 .. n : patterns'[k] = patterns[k]
  BY <1>1
<1>3. \A e : Inside(e)' = Inside(e)
  BY DEF Inside, Span, Size
<1>4. AllInside' = UNION {Inside(patterns'[k]) : k \in 1 .. n + 1}
  BY <1>2, <1>3 DEF AllInside
<1>5. ASSUME NEW x \in AllInside' PROVE x \in AllInside
  <2>1. PICK k \in 1 .. n + 1 : x \in Inside(patterns'[k])
    BY <1>4, <1>5
  <2>2. k \in 1 .. n
    BY <1>1, <1>2, <2>1
  <2>3. QED BY <1>1, <1>2, <2>1, <2>2 DEF AllInside
<1>6. ASSUME NEW x \in AllInside PROVE x \in AllInside'
  <2>1. PICK k \in 1 .. n : x \in Inside(patterns[k])
    BY <1>1, <1>6 DEF AllInside
  <2>2. k \in 1 .. n + 1
    BY <1>1, <2>1
  <2>3. QED BY <1>2, <1>4, <2>1, <2>2
<1>7. QED BY <1>5, <1>6

(* The brace that closes brings what has been read since the one that opened. *)
LEMMA CloseInside ==
  ASSUME ParseTypeOK, LastIsDate, BracesOpen, i <= Size,
         pattern' = pattern, patterns' = LastSpans(i)
  PROVE  AllInside' = AllInside \cup Span(Cut + 2, i - 1)
<1> DEFINE n == Len(patterns)
<1>1. /\ patterns \in Seq(EntryType) /\ n \in Nat /\ n > 0 /\ n \in 1 .. n /\ DOMAIN patterns = 1 .. n
      /\ Last = patterns[n] /\ Cut = Last.to /\ Last \in EntryType
  BY LastEntry DEF LastIsDate
<1>2. Last.kind = "d" /\ Last.to = Last.from + 1 /\ Last.from \in Nat
  BY <1>1, SizeNat DEF LastIsDate, EntryType
<1>3. patterns' = [patterns EXCEPT ![n].to = i]
  BY DEF LastSpans
<1>4. /\ DOMAIN patterns' = 1 .. n
      /\ patterns'[n].kind = "d" /\ patterns'[n].from = Last.from /\ patterns'[n].to = i
      /\ \A k \in 1 .. n : k # n => patterns'[k] = patterns[k]
  BY <1>1, <1>2, <1>3 DEF EntryType
<1>5. \A e : Inside(e)' = Inside(e)
  BY DEF Inside, Span, Size
<1>6. AllInside' = UNION {Inside(patterns'[k]) : k \in 1 .. n}
  BY <1>4, <1>5 DEF AllInside
<1>7. Inside(patterns[n]) = {}
  BY <1>1, <1>2, NothingInside
<1>8. Inside(patterns'[n]) = Span(Cut + 2, i - 1)
  <2>1. Last.from + 3 = Cut + 2
    BY <1>1, <1>2
  <2>2. QED BY <1>4, <2>1 DEF Inside
<1>9. ASSUME NEW x \in AllInside' PROVE x \in AllInside \cup Span(Cut + 2, i - 1)
  <2>1. PICK k \in 1 .. n : x \in Inside(patterns'[k])
    BY <1>6, <1>9
  <2>2. QED BY <1>1, <1>4, <1>8, <2>1 DEF AllInside
<1>10. ASSUME NEW x \in AllInside PROVE x \in AllInside'
  <2>1. PICK k \in 1 .. n : x \in Inside(patterns[k])
    BY <1>1, <1>10 DEF AllInside
  <2>2. k # n
    BY <1>7, <2>1
  <2>3. QED BY <1>4, <1>6, <2>1, <2>2
<1>11. ASSUME NEW x \in Span(Cut + 2, i - 1) PROVE x \in AllInside'
  BY <1>1, <1>6, <1>8, <1>11
<1>12. QED BY <1>9, <1>10, <1>11

LEMMA MadeInit == ParseInit => Collected /\ ItemsMade
<1> SUFFICES ASSUME ParseInit PROVE Collected /\ ItemsMade
  OBVIOUS
<1>1. AllInside = {}
  BY DEF ParseInit, AllInside
<1>2. QED BY <1>1 DEF ParseInit, Collected, ItemsMade

(* A step of the loop over the pattern that stays in it and outside braces. *)
LEMMA MadeOutside ==
  ASSUME ItemsMade, Collected, place = "scan", place' \in {"scan", "date"},
         UNCHANGED <<items, error, dateformat>>, AllInside' = AllInside
  PROVE  Collected' /\ ItemsMade'
BY DEF Collected, ItemsMade

LEMMA MadeScan ==
  ASSUME MadeInv, BeginEscape \/ Percent \/ Text \/ Letter
  PROVE  Collected' /\ ItemsMade'
<1>1. /\ ParseTypeOK /\ Behind /\ Collected /\ ItemsMade /\ i \in Nat /\ Size \in Nat
      /\ UNCHANGED <<pattern, items, error, dateformat>>
      /\ place = "scan" /\ place' \in {"scan", "date"} /\ i <= Size
  BY SizeNat DEF MadeInv, ParseInv, Tokenised, BeginEscape, Percent, Text, Letter, Reads
<1>2. AllInside' = AllInside
  <2>1. ASSUME patterns' = patterns PROVE AllInside' = AllInside
    BY <1>1, <2>1 DEF AllInside, Inside, Span, Size
  <2>2. CASE BeginEscape
    <3>1. CASE tmp = 0
      BY <2>1, <2>2, <3>1 DEF BeginEscape, Flushed
    <3>2. CASE tmp # 0
      <4>1. patterns' = Append(patterns, Entry("text", tmp, i - 1))
        BY <2>2, <3>2 DEF BeginEscape, Flushed
      <4>2. /\ Entry("text", tmp, i - 1) \in EntryType
            /\ Entry("text", tmp, i - 1).kind = "text"
        BY <1>1, <3>2, TmpFits DEF Fits, Entry
      <4>3. QED BY <1>1, <4>1, <4>2, NothingInside, AppendInside
    <3>3. QED BY <3>1, <3>2
  <2>3. CASE Text
    BY <2>1, <2>3 DEF Text
  <2>4. CASE Percent \/ Letter
    <3>1. /\ pattern[i] \in Char /\ "%" \in Char /\ ~parsing
          /\ i \in 1 .. Size /\ i - 1 \in 1 .. Size
      <4>1. ~parsing
        BY <2>4 DEF Percent, Letter
      <4>2. i = Cut + 2 /\ Cut \in 0 .. Size
        BY <1>1, <4>1, CutNat DEF Behind
      <4>3. i \in 1 .. Size /\ i - 1 \in 1 .. Size
        BY <1>1, <4>2
      <4>4. QED BY <1>1, <4>1, <4>3, Character, LogFormatAssumption
    <3>2. PICK kind \in Char : patterns' = Append(patterns, Entry(kind, i - 1, i))
      BY <2>4, <3>1 DEF Percent, Letter, Push
    <3>3. Entry(kind, i - 1, i) \in EntryType
      BY <3>1 DEF Entry, EntryType
    <3>4. Entry(kind, i - 1, i).to = Entry(kind, i - 1, i).from + 1
      BY <1>1 DEF Entry
    <3>5. QED BY <1>1, <3>2, <3>3, <3>4, NothingInside, AppendInside
  <2>5. QED BY <2>2, <2>3, <2>4
<1>3. QED BY <1>1, <1>2, MadeOutside

LEMMA MadeDate ==
  ASSUME MadeInv, AfterDate \/ DateCharacter
  PROVE  Collected' /\ ItemsMade'
<1>1. /\ ParseTypeOK /\ Behind /\ InDate /\ Collected /\ ItemsMade /\ i \in Nat /\ Size \in Nat
      /\ Cut \in 0 .. Size
      /\ UNCHANGED <<pattern, patterns, items, error>>
      /\ place \in {"date", "braces"} /\ place' \in {"scan", "braces"}
  BY SizeNat, CutNat DEF MadeInv, ParseInv, Tokenised, AfterDate, DateCharacter
<1>2. AllInside' = AllInside /\ Cut' = Cut /\ Size' = Size
  BY <1>1 DEF AllInside, Inside, Span, Size, Cut
<1>3. ItemsMade'
  BY <1>1 DEF ItemsMade
<1>4. CASE AfterDate
  <2>1. i = Cut + 1 /\ dateformat' = dateformat /\ dateformat = AllInside
    BY <1>1, <1>4 DEF AfterDate, Behind, Collected
  <2>2. place' = "braces" => i' = i + 1
    BY <1>4 DEF AfterDate
  <2>3. place' = "braces" => Span(Cut + 2, i - 1)' = {}
    <3>1. place' = "braces" => i' - 1 < Cut + 2
      BY <1>1, <2>1, <2>2
    <3>2. QED BY <1>1, <1>2, <2>1, <2>2, <3>1 DEF Span
  <2>4. QED BY <1>1, <1>2, <1>3, <2>1, <2>3 DEF Collected
<1>5. CASE DateCharacter
  <2>1. /\ place = "braces" /\ place' = "braces" /\ i' = i + 1 /\ i <= Size
        /\ dateformat' = dateformat \cup {i} /\ Cut + 2 <= i
        /\ dateformat = AllInside \cup Span(Cut + 2, i - 1)
    BY <1>1, <1>5 DEF DateCharacter, InBraces, InDate, BracesOpen, Collected
  <2>2. Span(Cut + 2, i) = Span(Cut + 2, i - 1) \cup {i}
    BY <1>1, <2>1 DEF Span
  <2>3. i' - 1 = i
    BY <1>1, <2>1
  <2>4. Span(Cut + 2, i - 1)' = Span(Cut + 2, i)
    BY <1>2, <2>3 DEF Span
  <2>5. QED BY <1>2, <1>3, <2>1, <2>2, <2>4 DEF Collected
<1>6. QED BY <1>4, <1>5

LEMMA MadeClosed ==
  ASSUME MadeInv, Closed
  PROVE  Collected' /\ ItemsMade'
<1>1. /\ ParseTypeOK /\ LastIsDate /\ BracesOpen /\ Collected /\ ItemsMade
      /\ UNCHANGED <<pattern, items, error, dateformat>>
      /\ place = "braces" /\ place' = "scan"
      /\ patterns' = LastSpans(IF i <= Size THEN i ELSE Size)
      /\ TRUE \in ClosedOutcomes
  BY DEF MadeInv, ParseInv, InDate, Closed
<1>2. Size \in Nat /\ i \in Nat /\ Cut \in 0 .. Size
  BY <1>1, SizeNat, CutNat
<1>3. AllInside' = AllInside \cup Span(Cut + 2, i - 1)
  <2>1. CASE i <= Size
    BY <1>1, <2>1, CloseInside
  <2>2. CASE i > Size
    <3>1. i # Size + 1
      <4> SUFFICES ASSUME i = Size + 1 PROVE FALSE
        OBVIOUS
      <4>1. ~(i <= Size)
        BY <2>2, <1>2
      <4>2. ClosedOutcomes = {FALSE}
        BY <4>1, Zenon DEF ClosedOutcomes
      <4>3. QED BY <4>2, <1>1, Zenon
    <3>2. Cut = Size
      BY <1>1, <1>2, <2>2, <3>1 DEF BracesOpen
    <3>3. patterns' = patterns
      <4>1. /\ patterns \in Seq(EntryType) /\ Len(patterns) \in DOMAIN patterns
            /\ Last = patterns[Len(patterns)] /\ Last \in EntryType /\ Last.to = Size
        BY <1>1, <3>2, LastEntry DEF LastIsDate
      <4>2. Last = [Last EXCEPT !.to = Size]
        BY <4>1 DEF EntryType
      <4>3. patterns' = LastSpans(Size)
        BY <1>1, <1>2, <2>2
      <4>4. QED BY <4>1, <4>2, <4>3 DEF LastSpans
    <3>4. Span(Cut + 2, i - 1) = {}
      BY <1>2, <3>2 DEF Span
    <3>5. AllInside' = AllInside
      BY <1>1, <3>3 DEF AllInside, Inside, Span, Size
    <3>6. QED BY <3>4, <3>5
  <2>3. QED BY <1>2, <2>1, <2>2
<1>4. QED BY <1>1, <1>3 DEF Collected, ItemsMade

(* The braces of a refused date are not closed, or the pattern ends in it. *)
LEMMA LeavesUnfinished ==
  ASSUME MadeInv, NotClosed
  PROVE  Unfinished /\ Unfinished'
<1>1. /\ ParseTypeOK /\ LastIsDate /\ BracesOpen /\ ItemsMade /\ place = "braces"
      /\ UNCHANGED <<pattern, patterns, items>>
      /\ ~InBraces /\ FALSE \in ClosedOutcomes
  BY DEF MadeInv, ParseInv, InDate, NotClosed
<1>2. Size \in Nat /\ i \in Nat /\ Cut \in 0 .. Size
  BY <1>1, SizeNat, CutNat
<1>3. i > Size
  <2> SUFFICES ASSUME i <= Size PROVE FALSE
    BY <1>2
  <2>1. ClosedOutcomes = {TRUE}
    BY Zenon DEF ClosedOutcomes
  <2>2. QED BY <1>1, <2>1, Zenon
<1>4. Cut < Size => /\ pattern[Cut + 1] = LBrace
                    /\ \A j \in Cut + 2 .. Size : pattern[j] # RBrace
  BY <1>1, <1>2, <1>3 DEF BracesOpen
<1>5. Unfinished
  BY <1>1, <1>4 DEF Unfinished, ItemsMade
<1>6. QED BY <1>1, <1>5 DEF Unfinished, LastIsDate, Last, Cut, Size

LEMMA MadeNotClosed ==
  ASSUME MadeInv, NotClosed
  PROVE  Collected' /\ ItemsMade'
<1>1. /\ ItemsMade /\ place = "braces" /\ place' = "done" /\ error' = TRUE /\ items' = items
  BY DEF MadeInv, NotClosed
<1>2. Unfinished'
  BY LeavesUnfinished
<1>3. items = <<>>
  BY <1>1 DEF ItemsMade
<1>4. QED BY <1>1, <1>2, <1>3 DEF Collected, ItemsMade

LEMMA MadeEnd ==
  ASSUME MadeInv, EndOfPattern
  PROVE  Collected' /\ ItemsMade'
<1>1. /\ ParseTypeOK /\ EndToEnd /\ RightKinds /\ Behind /\ Collected /\ ItemsMade /\ Size' = Size
      /\ UNCHANGED <<pattern, items, error, dateformat>>
      /\ place = "scan" /\ place' = "build" /\ i > Size /\ patterns' = Flushed
  BY DEF MadeInv, ParseInv, Tokenised, EndOfPattern, Size
<1>2. Size \in Nat /\ i \in Nat /\ Cut \in 0 .. Size /\ tmp \in Nat
  BY <1>1, SizeNat, CutNat
<1>3. AllInside' = AllInside /\ Complete'
  <2>1. CASE tmp = 0
    <3>1. patterns' = patterns
      BY <1>1, <2>1 DEF Flushed
    <3>2. AllInside' = AllInside
      BY <1>1, <3>1 DEF AllInside, Inside, Span
    <3>3. Complete
      <4>1. CASE parsing
        BY <1>1, <1>2, <2>1, <4>1 DEF Behind, Complete
      <4>2. CASE ~parsing
        <5>1. i = Cut + 2 /\ Cut < Size /\ pattern[Cut + 1] = "%"
          BY <1>1, <4>2 DEF Behind
        <5>2. Cut = Size - 1 /\ Cut + 1 = Size
          BY <1>1, <1>2, <5>1
        <5>3. QED BY <5>1, <5>2 DEF Complete
      <4>3. QED BY <4>1, <4>2
    <3>4. QED BY <1>1, <3>1, <3>2, <3>3 DEF Complete, Cut
  <2>2. CASE tmp # 0
    <3>1. patterns' = Append(patterns, Entry("text", tmp, i - 1))
      BY <1>1, <2>2 DEF Flushed
    <3>2. Fits(Entry("text", tmp, i - 1))
      BY <1>1, <2>2, TmpFits
    <3>3. AllInside' = AllInside
      BY <1>1, <3>1, <3>2, NothingInside, AppendInside DEF Fits, Entry
    <3>4. Cut' = i - 1
      BY <1>1, <3>1, <3>2, AppendFits DEF Entry
    <3>5. i - 1 = Size
      <4>1. \A j \in tmp .. i - 1 : j <= Size
        BY <1>1, <2>2 DEF Behind
      <4>2. tmp < i
        BY <1>1, <2>2 DEF Behind
      <4>3. i - 1 \in tmp .. i - 1
        BY <1>2, <4>2
      <4>4. i - 1 <= Size
        BY <4>1, <4>3
      <4>5. QED BY <1>1, <1>2, <4>4
    <3>6. QED BY <1>1, <3>3, <3>4, <3>5 DEF Complete
  <2>3. QED BY <2>1, <2>2
<1>4. items = <<>>
  BY <1>1 DEF ItemsMade
<1>5. QED BY <1>1, <1>3, <1>4 DEF Collected, ItemsMade

LEMMA MadeBuild ==
  ASSUME MadeInv, Build
  PROVE  Collected' /\ ItemsMade'
<1>1. /\ ParseTypeOK /\ Collected /\ ItemsMade /\ place = "build" /\ ~error
      /\ UNCHANGED <<pattern, patterns, dateformat>>
  BY DEF MadeInv, ParseInv, Build, UnknownItem, MakeItem, Built, Building, ItemsMade
<1>2. /\ Size' = Size /\ Cut' = Cut /\ AllInside' = AllInside
      /\ Complete' <=> Complete
      /\ \A k : Item(patterns[k])' = Item(patterns[k])
  BY <1>1 DEF Size, Cut, AllInside, Inside, Span, Complete, Item
<1>3. Complete /\ dateformat = AllInside
  BY <1>1 DEF Collected, ItemsMade
<1>4. Collected'
  BY <1>1, <1>2, <1>3, Zenon DEF Collected, Build, UnknownItem, MakeItem, Built
<1>5. CASE UnknownItem
  <2>1. place' = "done" /\ error' = TRUE /\ items' = items /\ StandsForNothing
    BY <1>5 DEF UnknownItem, Building, NextEntry, StandsForNothing
  <2>2. StandsForNothing'
    BY <1>1, <2>1 DEF StandsForNothing, IsKnown
  <2>3. \A k \in DOMAIN items' : /\ k \in (DOMAIN patterns)' /\ IsKnown(patterns[k].kind)'
                                 /\ items'[k] = Item(patterns[k])'
    BY <1>1, <1>2, <2>1 DEF ItemsMade, IsKnown
  <2>4. QED BY <1>2, <1>3, <1>4, <2>1, <2>2, <2>3 DEF ItemsMade
<1>6. CASE MakeItem
  <2>1. /\ place' = "build" /\ error' = error /\ items' = Append(items, Item(NextEntry))
        /\ IsKnown(NextEntry.kind) /\ Len(items) < Len(patterns)
        /\ NextEntry = patterns[Len(items) + 1]
    BY <1>1, <1>6 DEF MakeItem, Building, NextEntry
  <2>2. Len(items) \in Nat /\ DOMAIN items = 1 .. Len(items) /\ Len(patterns) \in Nat
        /\ DOMAIN patterns = 1 .. Len(patterns)
    BY <1>1 DEF ParseTypeOK
  <2>3. /\ DOMAIN items' = 1 .. Len(items) + 1
        /\ items'[Len(items) + 1] = Item(patterns[Len(items) + 1])
        /\ \A k \in 1 .. Len(items) : items'[k] = items[k]
    BY <1>1, <2>1, <2>2 DEF ParseTypeOK
  <2>4. ASSUME NEW k \in DOMAIN items'
        PROVE  /\ k \in (DOMAIN patterns)' /\ IsKnown(patterns[k].kind)'
               /\ items'[k] = Item(patterns[k])'
    <3>1. CASE k = Len(items) + 1
      BY <1>1, <1>2, <2>1, <2>2, <2>3, <3>1 DEF IsKnown
    <3>2. CASE k \in 1 .. Len(items)
      BY <1>1, <1>2, <2>2, <2>3, <3>2 DEF ItemsMade, IsKnown
    <3>3. QED BY <2>2, <2>3, <2>4, <3>1, <3>2
  <2>5. QED BY <1>1, <1>2, <1>3, <1>4, <2>1, <2>4 DEF ItemsMade
<1>7. CASE Built
  <2>1. place' = "done" /\ error' = error /\ items' = items /\ Len(items) = Len(patterns)
    BY <1>7 DEF Built
  <2>2. \A k \in DOMAIN items' : /\ k \in (DOMAIN patterns)' /\ IsKnown(patterns[k].kind)'
                                 /\ items'[k] = Item(patterns[k])'
    BY <1>1, <1>2, <2>1 DEF ItemsMade, IsKnown
  <2>3. QED BY <1>1, <1>2, <1>3, <1>4, <2>1, <2>2 DEF ItemsMade
<1>8. QED BY <1>5, <1>6, <1>7 DEF Build

LEMMA MadeNext == MadeInv /\ [ParseNext]_parseVars => MadeInv'
<1> SUFFICES ASSUME MadeInv, [ParseNext]_parseVars PROVE Collected' /\ ItemsMade'
  BY ParseInvNext DEF MadeInv
<1>1. CASE Parse
  BY <1>1, MadeScan, MadeDate, MadeClosed, MadeNotClosed, MadeEnd DEF Parse
<1>2. CASE Build
  BY <1>2, MadeBuild
<1>3. CASE UNCHANGED parseVars
  BY <1>3 DEF parseVars, MadeInv, Collected, ItemsMade, AllInside, Inside, Span, Unfinished, LastIsDate, Last,
     StandsForNothing, IsKnown, Complete, Cut, Size, Item
<1>4. QED BY <1>1, <1>2, <1>3 DEF ParseNext, Over

(* For every pattern: a formatter writes its entries and nothing else, all *)
(* of them unless it is refused, every date in what stands in the braces   *)
(* of all; it is refused only for a date that is not finished or a letter  *)
(* that stands for nothing (log.cpp:244-364).                              *)
THEOREM LogFormatWrites == ParseSpec => []WritesEntries
<1>1. MadeInv => WritesEntries
  <2> SUFFICES ASSUME MadeInv, place = "done"
               PROVE  /\ \A k \in DOMAIN Format :
                           k \in DOMAIN patterns /\ Format[k] = WrittenFor(patterns[k])
                      /\ ~error => Len(Format) = Len(patterns) /\ Complete
                      /\ error => Unfinished \/ StandsForNothing
    BY DEF WritesEntries
  <2>1. ItemsMade /\ Collected /\ ParseTypeOK
    BY DEF MadeInv, ParseInv
  <2>2. /\ DOMAIN Format = DOMAIN items /\ DOMAIN items = 1 .. Len(items) /\ Len(items) \in Nat
        /\ \A k \in DOMAIN items : Format[k] = Written(items[k].kind, items[k].of)
    BY <2>1 DEF Format, ParseTypeOK
  <2>3. ASSUME NEW k \in DOMAIN Format
        PROVE  k \in DOMAIN patterns /\ Format[k] = WrittenFor(patterns[k])
    <3>1. k \in DOMAIN patterns /\ items[k] = Item(patterns[k])
      BY <2>1, <2>2, <2>3 DEF ItemsMade
    <3>2. dateformat = AllInside
      <4>1. items # <<>>
        BY <2>2, <2>3
      <4>2. ~Unfinished
        BY <4>1 DEF Unfinished
      <4>3. QED BY <2>1, <4>2 DEF Collected
    <3>3. QED BY <2>2, <2>3, <3>1, <3>2 DEF Item, WrittenFor
  <2>4. Len(Format) = Len(items)
    BY <2>2
  <2>5. QED BY <2>1, <2>3, <2>4 DEF ItemsMade
<1>2. ParseInit => MadeInv
  BY ParseInvInit, MadeInit DEF MadeInv
<1>3. QED BY <1>1, <1>2, MadeNext, PTL DEF ParseSpec

-----------------------------------------------------------------------------
(* The recursion of Meaning is a function: a set of positions that has each *)
(* of which it has all that follow has every position.                      *)

Below == {ss \in Nat \X Nat : ss[1] < ss[2]}

LEMMA Least ==
  ASSUME NEW S, S \subseteq Nat, S # {}
  PROVE  \E n \in S : \A m \in S : n <= m
<1>1. IsWellFoundedOn(Below, Nat)
  BY NatLessThanWellFounded, Zenon DEF OpToRel, Below
<1>2. PICK n \in S : \A m \in S : <<m, n>> \notin Below
  BY <1>1, WFMin, Zenon
<1>3. ASSUME NEW m \in S PROVE n <= m
  <2>1. m \in Nat /\ n \in Nat
    OBVIOUS
  <2>2. ASSUME m < n PROVE FALSE
    <3>1. <<m, n>> \in Nat \X Nat /\ <<m, n>>[1] < <<m, n>>[2]
      BY <2>1, <2>2
    <3>2. <<m, n>> \in Below
      BY <3>1, Zenon DEF Below
    <3>3. QED BY <1>2, <3>2
  <2>3. QED BY <2>1, <2>2
<1>4. QED BY <1>3

LEMMA Downward ==
  ASSUME NEW n \in Nat, NEW S, \A k \in 1 .. n : (\A j \in k + 1 .. n : j \in S) => k \in S
  PROVE  \A k \in 1 .. n : k \in S
<1> DEFINE Missing == {d \in 0 .. n - 1 : n - d \notin S}
<1> SUFFICES ASSUME NEW k \in 1 .. n, k \notin S PROVE FALSE
  OBVIOUS
<1>1. n - k \in 0 .. n - 1 /\ n - (n - k) = k
  OBVIOUS
<1>2. Missing # {} /\ Missing \subseteq Nat
  <2>1. n - k \in Missing
    BY <1>1
  <2>2. \A d \in 0 .. n - 1 : d \in Nat
    OBVIOUS
  <2>3. QED BY <2>1, <2>2
<1>3. PICK d \in Missing : \A m \in Missing : d <= m
  BY <1>2, Least, Zenon
<1>4. d \in 0 .. n - 1 /\ n - d \notin S /\ n - d \in 1 .. n
  BY <1>3
<1>5. ASSUME NEW j \in n - d + 1 .. n PROVE j \in S
  <2>1. n - j \in 0 .. n - 1 /\ n - (n - j) = j /\ ~(d <= n - j)
    BY <1>4
  <2>2. n - j \notin Missing
    BY <1>3, <2>1
  <2>3. QED BY <2>1, <2>2
<1>6. QED BY <1>4, <1>5

(* TextEnd is the one position where text ends, NextBrace where braces do. *)
LEMMA TextEndIs ==
  ASSUME ParseTypeOK, NEW k \in 1 .. Size, pattern[k] # "%"
  PROVE  /\ TextEnd(k) \in k .. Size
         /\ \A e \in k .. Size :
              (e = Size \/ pattern[e + 1] = "%") /\ (\A j \in k .. e : pattern[j] # "%") => e = TextEnd(k)
<1> DEFINE Ends(e) == /\ e = Size \/ pattern[e + 1] = "%"
                      /\ \A j \in k .. e : pattern[j] # "%"
<1> DEFINE S == {e \in k .. Size : e = Size \/ pattern[e + 1] = "%"}
<1>1. Size \in Nat /\ k \in Nat /\ Size \in S /\ S \subseteq Nat
  BY SizeNat
<1>2. PICK e \in S : \A m \in S : e <= m
  BY <1>1, Least
<1>3. e \in k .. Size /\ Ends(e)
  <2>1. ASSUME NEW j \in k .. e PROVE pattern[j] # "%"
    <3>1. CASE j = k
      BY <3>1
    <3>2. CASE j # k
      <4>1. j - 1 \in k .. Size /\ ~(e <= j - 1) /\ j - 1 + 1 = j
        BY <1>1, <1>2, <3>2
      <4>2. j - 1 \notin S
        BY <1>2, <4>1
      <4>3. QED BY <4>1, <4>2
    <3>3. QED BY <3>1, <3>2
  <2>2. QED BY <1>2, <2>1
<1>4. TextEnd(k) = CHOOSE x \in k .. Size : Ends(x)
  BY Zenon DEF TextEnd
<1>5. TextEnd(k) \in k .. Size /\ Ends(TextEnd(k))
  <2> HIDE DEF Ends
  <2>1. QED BY <1>3, <1>4
<1>6. ASSUME NEW x \in k .. Size, Ends(x) PROVE x = TextEnd(k)
  <2>1. ASSUME x < TextEnd(k) PROVE FALSE
    <3>1. x + 1 \in k .. TextEnd(k) /\ x # Size
      BY <1>1, <1>5, <2>1
    <3>2. QED BY <1>5, <1>6, <3>1
  <2>2. ASSUME TextEnd(k) < x PROVE FALSE
    <3>1. TextEnd(k) + 1 \in k .. x /\ TextEnd(k) # Size
      BY <1>1, <1>5, <2>2
    <3>2. QED BY <1>5, <1>6, <3>1
  <2>3. QED BY <1>1, <1>5, <2>1, <2>2
<1>7. QED BY <1>5, <1>6

LEMMA NextBraceIs ==
  ASSUME ParseTypeOK, NEW k \in 1 .. Size + 1
  PROVE  /\ NextBrace(k) \in k .. Size + 1
         /\ \A c \in k .. Size + 1 :
              /\ c = Size + 1 \/ pattern[c] = RBrace
              /\ \A j \in k .. c - 1 : pattern[j] # RBrace
              => c = NextBrace(k)
<1> DEFINE Ends(c) == /\ c = Size + 1 \/ pattern[c] = RBrace
                      /\ \A j \in k .. c - 1 : pattern[j] # RBrace
<1> DEFINE S == {c \in k .. Size + 1 : c = Size + 1 \/ pattern[c] = RBrace}
<1>1. Size \in Nat /\ k \in Nat /\ Size + 1 \in S /\ S \subseteq Nat
  BY SizeNat
<1>2. PICK c \in S : \A m \in S : c <= m
  BY <1>1, Least
<1>3. c \in k .. Size + 1 /\ Ends(c)
  <2>1. ASSUME NEW j \in k .. c - 1 PROVE pattern[j] # RBrace
    <3>1. j \in k .. Size + 1 /\ ~(c <= j)
      BY <1>1, <1>2
    <3>2. j \notin S
      BY <1>2, <3>1
    <3>3. QED BY <3>1, <3>2
  <2>2. QED BY <1>2, <2>1
<1>4. NextBrace(k) = CHOOSE x \in k .. Size + 1 : Ends(x)
  BY Zenon DEF NextBrace
<1>5. NextBrace(k) \in k .. Size + 1 /\ Ends(NextBrace(k))
  <2> HIDE DEF Ends
  <2>1. QED BY <1>3, <1>4
<1>6. ASSUME NEW x \in k .. Size + 1, Ends(x) PROVE x = NextBrace(k)
  <2>1. ASSUME x < NextBrace(k) PROVE FALSE
    <3>1. x \in k .. NextBrace(k) - 1 /\ x # Size + 1
      BY <1>1, <1>5, <2>1
    <3>2. QED BY <1>5, <1>6, <3>1
  <2>2. ASSUME NextBrace(k) < x PROVE FALSE
    <3>1. NextBrace(k) \in k .. x - 1 /\ NextBrace(k) # Size + 1
      BY <1>1, <1>5, <2>2
    <3>2. QED BY <1>5, <1>6, <3>1
  <2>3. QED BY <1>1, <1>5, <2>1, <2>2
<1>7. QED BY <1>5, <1>6

(* What MeaningAt reads of the rest is behind k. *)
LEMMA MeaningGoesOn ==
  ASSUME ParseTypeOK, NEW k \in 1 .. Size + 1
  PROVE  /\ k # Size + 1 /\ pattern[k] # "%" => TextEnd(k) + 1 \in k + 1 .. Size + 1
         /\ k < Size => k + 2 \in k + 1 .. Size + 1
         /\ k + 2 <= Size /\ NextBrace(k + 3) <= Size => NextBrace(k + 3) + 1 \in k + 1 .. Size + 1
<1>1. Size \in Nat /\ k \in Nat
  BY SizeNat
<1>2. ASSUME k # Size + 1, pattern[k] # "%" PROVE TextEnd(k) + 1 \in k + 1 .. Size + 1
  <2>1. k \in 1 .. Size
    BY <1>1, <1>2
  <2>2. TextEnd(k) \in k .. Size
    BY <1>2, <2>1, TextEndIs
  <2>3. QED BY <1>1, <2>2
<1>3. ASSUME k + 2 <= Size, NextBrace(k + 3) <= Size PROVE NextBrace(k + 3) + 1 \in k + 1 .. Size + 1
  <2>1. k + 3 \in 1 .. Size + 1
    BY <1>1, <1>3
  <2>2. NextBrace(k + 3) \in k + 3 .. Size + 1
    BY <2>1, NextBraceIs
  <2>3. QED BY <1>1, <1>3, <2>2
<1>4. QED BY <1>1, <1>2, <1>3

LEMMA MeaningOfRest ==
  ASSUME ParseTypeOK, NEW k \in 1 .. Size + 1, NEW f, NEW g,
         \A j \in k + 1 .. Size + 1 : f[j] = g[j]
  PROVE  MeaningAt(f, k) = MeaningAt(g, k)
<1>1. Size \in Nat /\ k \in Nat
  BY SizeNat
<1>2. k # Size + 1 /\ pattern[k] # "%" => f[TextEnd(k) + 1] = g[TextEnd(k) + 1]
  BY MeaningGoesOn
<1>3. ~(k = Size + 1) /\ ~(k = Size) => f[k + 2] = g[k + 2]
  <2>1. ~(k = Size + 1) /\ ~(k = Size) => k < Size
    BY <1>1
  <2>2. QED BY <2>1, MeaningGoesOn
<1>4. ~(k + 2 > Size \/ pattern[k + 2] # LBrace) /\ ~(NextBrace(k + 3) > Size) =>
        f[NextBrace(k + 3) + 1] = g[NextBrace(k + 3) + 1]
  <2> SUFFICES ASSUME ~(k + 2 > Size), ~(NextBrace(k + 3) > Size)
               PROVE  f[NextBrace(k + 3) + 1] = g[NextBrace(k + 3) + 1]
    OBVIOUS
  <2>1. k + 2 <= Size /\ k + 3 \in 1 .. Size + 1
    BY <1>1
  <2>2. NextBrace(k + 3) \in k + 3 .. Size + 1
    BY <2>1, NextBraceIs
  <2>3. NextBrace(k + 3) <= Size
    BY <1>1, <2>2
  <2>4. QED BY <2>1, <2>3, MeaningGoesOn
<1>5. CASE k = Size + 1 \/ pattern[k] # "%"
  BY <1>2, <1>5, Zenon DEF MeaningAt
<1>6. CASE ~(k = Size + 1) /\ ~(pattern[k] # "%")
  <2>1. CASE k = Size \/ pattern[k + 1] # "d"
    BY <1>3, <1>6, <2>1, Zenon DEF MeaningAt
  <2>2. CASE ~(k = Size) /\ ~(pattern[k + 1] # "d")
    <3>1. CASE k + 2 > Size \/ pattern[k + 2] # LBrace
      BY <1>3, <1>6, <2>2, <3>1, Zenon DEF MeaningAt
    <3>2. CASE ~(k + 2 > Size \/ pattern[k + 2] # LBrace)
      BY <1>4, <1>6, <2>2, <3>2, Zenon DEF MeaningAt
    <3>3. QED BY <3>1, <3>2
  <2>3. QED BY <2>1, <2>2
<1>7. QED BY <1>5, <1>6

LEMMA MeaningDefined ==
  ASSUME ParseTypeOK
  PROVE  \A k \in 1 .. Size + 1 : MeaningFrom[k] = MeaningAt(MeaningFrom, k)
<1> DEFINE S == {k \in 1 .. Size + 1 : \E f : \A j \in k .. Size + 1 : f[j] = MeaningAt(f, j)}
<1>1. Size \in Nat /\ Size + 1 \in Nat /\ 1 \in 1 .. Size + 1
  BY SizeNat
<1>2. ASSUME NEW k \in 1 .. Size + 1, \A j \in k + 1 .. Size + 1 : j \in S PROVE k \in S
  <2>1. PICK f : \A j \in k + 1 .. Size + 1 : f[j] = MeaningAt(f, j)
    <3>1. CASE k = Size + 1
      <4>1. k + 1 .. Size + 1 = {}
        BY <1>1, <3>1
      <4>2. QED BY <4>1
    <3>2. CASE k # Size + 1
      <4>1. k + 1 \in k + 1 .. Size + 1
        BY <1>1, <3>2
      <4>2. QED BY <1>2, <4>1
    <3>3. QED BY <3>1, <3>2
  <2> DEFINE h == [j \in 1 .. Size + 1 |-> IF j = k THEN MeaningAt(f, k) ELSE f[j]]
  <2>2. h[k] = MeaningAt(f, k) /\ \A j \in k + 1 .. Size + 1 : h[j] = f[j]
    BY <1>1
  <2>3. ASSUME NEW j \in k .. Size + 1 PROVE h[j] = MeaningAt(h, j)
    <3> HIDE DEF h
    <3>1. j \in 1 .. Size + 1 /\ \A x \in j + 1 .. Size + 1 : x \in k + 1 .. Size + 1
      BY <1>1
    <3>2. MeaningAt(h, j) = MeaningAt(f, j)
      BY <2>2, <3>1, MeaningOfRest
    <3>3. CASE j = k
      BY <2>2, <3>2, <3>3
    <3>4. CASE j # k
      <4>1. j \in k + 1 .. Size + 1
        BY <1>1, <3>4
      <4>2. QED BY <2>1, <2>2, <3>2, <4>1
    <3>5. QED BY <3>3, <3>4
  <2>4. QED
    <3> HIDE DEF h
    <3>1. QED BY <2>3
<1>3. 1 \in S
  <2> HIDE DEF S
  <2>1. QED BY <1>1, <1>2, Downward
<1>4. PICK f : \A j \in 1 .. Size + 1 : f[j] = MeaningAt(f, j)
  BY <1>3
<1> DEFINE h == [k \in 1 .. Size + 1 |-> f[k]]
<1>5. h = [k \in 1 .. Size + 1 |-> MeaningAt(h, k)]
  <2>1. ASSUME NEW k \in 1 .. Size + 1 PROVE h[k] = MeaningAt(h, k)
    <3>1. h[k] = f[k] /\ \A j \in k + 1 .. Size + 1 : h[j] = f[j]
      BY <1>1
    <3>2. MeaningAt(h, k) = MeaningAt(f, k)
      <4> HIDE DEF h
      <4>1. QED BY <3>1, MeaningOfRest
    <3>3. QED BY <1>4, <3>1, <3>2
  <2>2. QED BY <2>1
<1>6. MeaningFrom = [k \in 1 .. Size + 1 |-> MeaningAt(MeaningFrom, k)]
  <2> HIDE DEF h
  <2>1. QED BY <1>5 DEF MeaningFrom
<1>7. QED BY <1>6

(* What a pattern means is a sequence. *)
Parts == [kind : Char \cup {"text", "d", "default", "open", "lone"}, of : SUBSET (1 .. Size)]

LEMMA WrittenPart ==
  ASSUME NEW kind \in Char \cup {"text", "d", "open", "lone"}, NEW from, NEW to
  PROVE  Written(kind, {}) \in Parts /\ Written(kind, Span(from, to)) \in Parts
BY DEF Written, Parts, Span

LEMMA MeaningTyped ==
  ASSUME ParseTypeOK
  PROVE  \A k \in 1 .. Size + 1 : MeaningFrom[k] \in Seq(Parts)
<1> DEFINE S == {k \in 1 .. Size + 1 : MeaningFrom[k] \in Seq(Parts)}
<1>1. Size \in Nat /\ Size + 1 \in Nat
  BY SizeNat
<1>2. ASSUME NEW k \in 1 .. Size + 1, \A j \in k + 1 .. Size + 1 : j \in S PROVE k \in S
  <2>1. \A j \in k + 1 .. Size + 1 : MeaningFrom[j] \in Seq(Parts)
    BY <1>2
  <2>2. MeaningFrom[k] = MeaningAt(MeaningFrom, k)
    BY MeaningDefined
  <2>3. \A part \in Parts : \A rest \in Seq(Parts) : <<part>> \in Seq(Parts) /\ <<part>> \o rest \in Seq(Parts)
    OBVIOUS
  <2>4. MeaningAt(MeaningFrom, k) \in Seq(Parts)
    <3>1. CASE k = Size + 1
      BY <3>1 DEF MeaningAt
    <3>2. CASE k # Size + 1 /\ pattern[k] # "%"
      <4>1. MeaningFrom[TextEnd(k) + 1] \in Seq(Parts)
        BY <2>1, <3>2, MeaningGoesOn
      <4>2. Written("text", Span(k, TextEnd(k))) \in Parts
        BY WrittenPart
      <4>3. QED BY <2>3, <3>2, <4>1, <4>2 DEF MeaningAt
    <3>3. CASE k = Size /\ pattern[k] = "%"
      <4>1. MeaningAt(MeaningFrom, k) = <<Written("lone", {})>>
        BY <1>1, <3>3 DEF MeaningAt
      <4>2. Written("lone", {}) \in Parts
        BY WrittenPart
      <4>3. QED BY <2>3, <4>1, <4>2
    <3>4. CASE k < Size /\ pattern[k] = "%"
      <4>1. MeaningFrom[k + 2] \in Seq(Parts)
        BY <2>1, <3>4, MeaningGoesOn
      <4>2. k + 1 \in 1 .. Size
        BY <1>1, <3>4
      <4>3. pattern[k + 1] \in Char
        BY <4>2, Character
      <4>4. /\ Written(pattern[k + 1], {}) \in Parts /\ Written("d", {}) \in Parts
            /\ Written("open", {}) \in Parts
            /\ Written("d", Span(k + 3, NextBrace(k + 3) - 1)) \in Parts
        BY <4>3, WrittenPart
      <4>5. k + 2 <= Size /\ NextBrace(k + 3) <= Size => MeaningFrom[NextBrace(k + 3) + 1] \in Seq(Parts)
        BY <2>1, MeaningGoesOn
      <4>6. k # Size + 1 /\ k # Size /\ ~(pattern[k] # "%")
        BY <1>1, <3>4
      <4>7. CASE pattern[k + 1] # "d"
        BY <2>3, <4>1, <4>4, <4>6, <4>7, Zenon DEF MeaningAt
      <4>8. CASE pattern[k + 1] = "d" /\ (k + 2 > Size \/ pattern[k + 2] # LBrace)
        <5>1. MeaningAt(MeaningFrom, k) = <<Written("d", {})>> \o MeaningFrom[k + 2]
          BY <4>6, <4>8, Zenon DEF MeaningAt
        <5>2. QED BY <2>3, <4>1, <4>4, <5>1
      <4>9. CASE pattern[k + 1] = "d" /\ ~(k + 2 > Size \/ pattern[k + 2] # LBrace) /\ NextBrace(k + 3) > Size
        <5>1. MeaningAt(MeaningFrom, k) = <<Written("open", {})>>
          BY <4>6, <4>9, Zenon DEF MeaningAt
        <5>2. QED BY <2>3, <4>4, <5>1
      <4>10. CASE pattern[k + 1] = "d" /\ ~(k + 2 > Size \/ pattern[k + 2] # LBrace) /\ ~(NextBrace(k + 3) > Size)
        <5>1. MeaningAt(MeaningFrom, k) =
                <<Written("d", Span(k + 3, NextBrace(k + 3) - 1))>> \o MeaningFrom[NextBrace(k + 3) + 1]
          BY <4>6, <4>10, Zenon DEF MeaningAt
        <5>2. k + 2 <= Size /\ k + 3 \in 1 .. Size + 1
          BY <1>1, <4>10
        <5>3. NextBrace(k + 3) \in k + 3 .. Size + 1
          BY <5>2, NextBraceIs
        <5>4. NextBrace(k + 3) <= Size
          BY <1>1, <4>10, <5>3
        <5>5. QED BY <2>3, <4>4, <4>5, <5>1, <5>2, <5>4
      <4>11. QED BY <4>7, <4>8, <4>9, <4>10
    <3>5. QED BY <1>1, <3>1, <3>2, <3>3, <3>4
  <2>5. QED BY <2>2, <2>4
<1>3. \A k \in 1 .. Size + 1 : k \in S
  <2> HIDE DEF S
  <2>1. QED BY <1>1, <1>2, Downward
<1>4. QED BY <1>3

-----------------------------------------------------------------------------
(* What the comments say of the pattern, and what init() has read.         *)

MeaningOf(entry) ==
  Written(entry.kind, IF entry.kind = "text" THEN Span(entry.from, entry.to) ELSE Inside(entry))

(* The first m entries are the meaning of the pattern before p, and the    *)
(* rest of its meaning is what is read from p on.                          *)
ReadBy(entries, m, p) ==
  /\ p \in 1 .. Size + 1
  /\ Len(Meaning) = m + Len(MeaningFrom[p])
  /\ \A k \in 1 .. m : Meaning[k] = MeaningOf(entries[k])
  /\ \A j \in DOMAIN MeaningFrom[p] : Meaning[m + j] = MeaningFrom[p][j]

(* The entries are the meaning of what they span, but for a date that is   *)
(* not finished.                                                           *)
AllRead  == ReadBy(patterns, Len(patterns), Cut + 1)
DateLeft == ReadBy(patterns, Len(patterns) - 1, Last.from)

Meant ==
  /\ place \in {"scan", "build"} => AllRead
  /\ place \in {"date", "braces"} => DateLeft
  /\ place = "done" => \/ Complete /\ AllRead /\ (error => StandsForNothing)
                       \/ error /\ Unfinished /\ DateLeft

(* What the comments read at a position, and then on from another. *)
ReadsFirst(k, part, next) ==
  /\ Len(MeaningFrom[k]) = 1 + Len(MeaningFrom[next])
  /\ MeaningFrom[k][1] = part
  /\ \A j \in DOMAIN MeaningFrom[next] : MeaningFrom[k][1 + j] = MeaningFrom[next][j]

LEMMA FirstOf ==
  ASSUME ParseTypeOK, NEW k, NEW next \in 1 .. Size + 1, NEW part \in Parts,
         MeaningFrom[k] = <<part>> \o MeaningFrom[next]
  PROVE  ReadsFirst(k, part, next)
<1>1. MeaningFrom[next] \in Seq(Parts)
  BY MeaningTyped
<1>2. ASSUME NEW rest \in Seq(Parts)
      PROVE  /\ Len(<<part>> \o rest) = 1 + Len(rest) /\ (<<part>> \o rest)[1] = part
             /\ \A j \in DOMAIN rest : (<<part>> \o rest)[1 + j] = rest[j]
  OBVIOUS
<1>3. QED BY <1>1, <1>2 DEF ReadsFirst

LEMMA ReadsText ==
  ASSUME ParseTypeOK, NEW k \in 1 .. Size, NEW e \in k .. Size,
         e = Size \/ pattern[e + 1] = "%", \A j \in k .. e : pattern[j] # "%"
  PROVE  ReadsFirst(k, Written("text", Span(k, e)), e + 1)
<1>1. Size \in Nat /\ k \in 1 .. Size + 1 /\ k # Size + 1 /\ k \in k .. e /\ e + 1 \in 1 .. Size + 1
  BY SizeNat
<1>2. pattern[k] # "%"
  BY <1>1
<1>3. e = TextEnd(k)
  BY <1>2, TextEndIs
<1>4. MeaningFrom[k] = MeaningAt(MeaningFrom, k)
  BY <1>1, MeaningDefined
<1>5. MeaningFrom[k] = <<Written("text", Span(k, e))>> \o MeaningFrom[e + 1]
  BY <1>1, <1>2, <1>3, <1>4, Zenon DEF MeaningAt
<1>6. QED BY <1>1, <1>5, WrittenPart, FirstOf

(* A letter behind a sign, but for a %d that braces follow. *)
LEMMA ReadsLetter ==
  ASSUME ParseTypeOK, NEW k \in 1 .. Size, k < Size, pattern[k] = "%",
         pattern[k + 1] # "d" \/ k + 2 > Size \/ pattern[k + 2] # LBrace
  PROVE  ReadsFirst(k, Written(pattern[k + 1], {}), k + 2)
<1>1. /\ Size \in Nat /\ k \in 1 .. Size + 1 /\ ~(k = Size + 1) /\ ~(k = Size) /\ ~(pattern[k] # "%")
      /\ k + 2 \in 1 .. Size + 1 /\ k + 1 \in 1 .. Size
  BY SizeNat
<1>2. pattern[k + 1] \in Char
  BY <1>1, Character
<1>3. MeaningFrom[k] = MeaningAt(MeaningFrom, k)
  BY <1>1, MeaningDefined
<1>4. MeaningFrom[k] = <<Written(pattern[k + 1], {})>> \o MeaningFrom[k + 2]
  <2>1. CASE pattern[k + 1] # "d"
    BY <1>1, <1>3, <2>1, Zenon DEF MeaningAt
  <2>2. CASE ~(pattern[k + 1] # "d")
    <3>1. k + 2 > Size \/ pattern[k + 2] # LBrace
      BY <2>2
    <3>2. pattern[k + 1] = "d"
      BY <2>2
    <3>3. MeaningFrom[k] = <<Written("d", {})>> \o MeaningFrom[k + 2]
      BY <1>1, <1>3, <2>2, <3>1, Zenon DEF MeaningAt
    <3>4. QED BY <3>2, <3>3
  <2>3. QED BY <2>1, <2>2
<1>5. QED BY <1>1, <1>2, <1>4, WrittenPart, FirstOf

(* A %d with braces, and one whose brace is not closed. *)
LEMMA ReadsBraces ==
  ASSUME ParseTypeOK, NEW k \in 1 .. Size, pattern[k] = "%", pattern[k + 1] = "d",
         k + 2 <= Size, pattern[k + 2] = LBrace
  PROVE  /\ \A c \in k + 3 .. Size :
              pattern[c] = RBrace /\ (\A j \in k + 3 .. c - 1 : pattern[j] # RBrace) =>
                ReadsFirst(k, Written("d", Span(k + 3, c - 1)), c + 1)
         /\ (\A j \in k + 3 .. Size : pattern[j] # RBrace) =>
              MeaningFrom[k] = <<Written("open", {})>>
<1>1. /\ Size \in Nat /\ k \in 1 .. Size + 1 /\ ~(k = Size + 1) /\ ~(k = Size) /\ ~(pattern[k] # "%")
      /\ ~(pattern[k + 1] # "d") /\ ~(k + 2 > Size \/ pattern[k + 2] # LBrace)
      /\ k + 3 \in 1 .. Size + 1
  BY SizeNat
<1>2. MeaningFrom[k] = MeaningAt(MeaningFrom, k)
  BY <1>1, MeaningDefined
<1>3. ASSUME NEW c \in k + 3 .. Size, pattern[c] = RBrace, \A j \in k + 3 .. c - 1 : pattern[j] # RBrace
      PROVE  ReadsFirst(k, Written("d", Span(k + 3, c - 1)), c + 1)
  <2>1. c \in k + 3 .. Size + 1 /\ c + 1 \in 1 .. Size + 1 /\ ~(c > Size)
    BY <1>1
  <2>2. c = NextBrace(k + 3)
    BY <1>1, <1>3, <2>1, NextBraceIs
  <2>3. MeaningFrom[k] = <<Written("d", Span(k + 3, c - 1))>> \o MeaningFrom[c + 1]
    BY <1>1, <1>2, <2>1, <2>2, Zenon DEF MeaningAt
  <2>4. QED BY <2>1, <2>3, WrittenPart, FirstOf
<1>4. ASSUME \A j \in k + 3 .. Size : pattern[j] # RBrace
      PROVE  MeaningFrom[k] = <<Written("open", {})>>
  <2>1. Size + 1 \in k + 3 .. Size + 1 /\ Size + 1 > Size /\ \A j \in k + 3 .. Size + 1 - 1 : pattern[j] # RBrace
    BY <1>1, <1>4
  <2>2. NextBrace(k + 3) = Size + 1
    BY <1>1, <2>1, NextBraceIs
  <2>3. NextBrace(k + 3) > Size
    BY <2>1, <2>2
  <2>4. QED BY <1>1, <1>2, <2>3, Zenon DEF MeaningAt
<1>5. QED BY <1>3, <1>4

(* Nothing is read behind the end, and nothing but itself at a sign that   *)
(* ends the pattern.                                                       *)
LEMMA ReadsNothing ==
  ASSUME ParseTypeOK, Complete
  PROVE  /\ Cut + 1 \in 1 .. Size + 1
         /\ MeaningFrom[Cut + 1] = <<>> \/ MeaningFrom[Cut + 1] = <<Written("lone", {})>>
         /\ Cut = Size => MeaningFrom[Cut + 1] = <<>>
<1>1. Size \in Nat /\ Cut \in 0 .. Size
  BY SizeNat, CutNat
<1>2. Cut + 1 \in 1 .. Size + 1
  BY <1>1
<1>3. MeaningFrom[Cut + 1] = MeaningAt(MeaningFrom, Cut + 1)
  BY <1>2, MeaningDefined
<1>4. CASE Cut = Size
  <2>1. Cut + 1 = Size + 1
    BY <1>4
  <2>2. MeaningAt(MeaningFrom, Cut + 1) = <<>>
    BY <2>1, Zenon DEF MeaningAt
  <2>3. QED BY <1>2, <1>3, <2>2
<1>5. CASE Cut = Size - 1 /\ pattern[Size] = "%"
  <2>1. Cut + 1 = Size /\ ~(Cut + 1 = Size + 1) /\ ~(pattern[Cut + 1] # "%") /\ Cut # Size
    BY <1>1, <1>2, <1>5
  <2>2. MeaningAt(MeaningFrom, Cut + 1) = <<Written("lone", {})>>
    BY <2>1, Zenon DEF MeaningAt
  <2>3. QED BY <1>2, <1>3, <2>1, <2>2
<1>6. QED BY <1>4, <1>5 DEF Complete

LEMMA ReadsOn ==
  ASSUME ParseTypeOK, NEW m \in Nat, NEW k, NEW next \in 1 .. Size + 1, NEW entries, NEW more,
         ReadBy(entries, m, k), ReadsFirst(k, MeaningOf(more[m + 1]), next),
         \A x \in 1 .. m : more[x] = entries[x]
  PROVE  ReadBy(more, m + 1, next)
<1>1. k \in 1 .. Size + 1
  BY DEF ReadBy
<1>2. /\ MeaningFrom[k] \in Seq(Parts) /\ MeaningFrom[next] \in Seq(Parts)
  BY <1>1, MeaningTyped
<1>3. /\ Len(MeaningFrom[k]) \in Nat /\ Len(MeaningFrom[next]) \in Nat
      /\ DOMAIN MeaningFrom[k] = 1 .. Len(MeaningFrom[k])
      /\ DOMAIN MeaningFrom[next] = 1 .. Len(MeaningFrom[next])
  BY <1>2
<1>4. Len(MeaningFrom[k]) = 1 + Len(MeaningFrom[next]) /\ Len(Meaning) = m + 1 + Len(MeaningFrom[next])
  <2>1. Len(Meaning) = m + Len(MeaningFrom[k])
    BY DEF ReadBy
  <2>2. Len(MeaningFrom[k]) = 1 + Len(MeaningFrom[next])
    BY DEF ReadsFirst
  <2>3. \A a \in Nat : m + (1 + a) = m + 1 + a
    OBVIOUS
  <2>4. QED BY <1>3, <2>1, <2>2, <2>3, Zenon
<1>5. Meaning[m + 1] = MeaningOf(more[m + 1])
  <2>1. 1 \in DOMAIN MeaningFrom[k]
    BY <1>3, <1>4
  <2>2. QED BY <2>1 DEF ReadBy, ReadsFirst
<1>6. ASSUME NEW x \in 1 .. m + 1 PROVE Meaning[x] = MeaningOf(more[x])
  <2>1. CASE x = m + 1
    BY <1>5, <2>1
  <2>2. CASE x # m + 1
    <3>1. x \in 1 .. m
      BY <2>2
    <3>2. QED BY <3>1 DEF ReadBy
  <2>3. QED BY <2>1, <2>2
<1>7. ASSUME NEW j \in DOMAIN MeaningFrom[next] PROVE Meaning[m + 1 + j] = MeaningFrom[next][j]
  <2>1. 1 + j \in DOMAIN MeaningFrom[k] /\ m + (1 + j) = m + 1 + j
    BY <1>3, <1>4
  <2>2. Meaning[m + (1 + j)] = MeaningFrom[k][1 + j]
    BY <2>1 DEF ReadBy
  <2>3. QED BY <2>1, <2>2 DEF ReadsFirst
<1>8. QED BY <1>4, <1>6, <1>7 DEF ReadBy

LEMMA SameMeaning ==
  ASSUME pattern' = pattern
  PROVE  /\ Size' = Size /\ \A entries, m, k : ReadBy(entries, m, k)' <=> ReadBy(entries, m, k)
         /\ \A x : Inside(x)' = Inside(x) /\ MeaningOf(x)' = MeaningOf(x)
<1>1. Size' = Size
  BY DEF Size
<1>2. ASSUME NEW k PROVE TextEnd(k)' = TextEnd(k)
  BY <1>1, Zenon DEF TextEnd
<1>3. ASSUME NEW k PROVE NextBrace(k)' = NextBrace(k)
  BY <1>1 DEF NextBrace
<1>4. \A x, y : Span(x, y)' = Span(x, y) /\ Written(x, y)' = Written(x, y)
  BY <1>1 DEF Span, Written
<1>5. ASSUME NEW f, NEW k PROVE MeaningAt(f, k)' = MeaningAt(f, k)
  BY <1>1, <1>2, <1>3, <1>4 DEF MeaningAt
<1>6. MeaningFrom' = MeaningFrom
  BY <1>1, <1>5 DEF MeaningFrom
<1>7. Meaning' = Meaning
  BY <1>6 DEF Meaning
<1>8. \A x : Inside(x)' = Inside(x)
  BY <1>4 DEF Inside
<1>9. \A x : MeaningOf(x)' = MeaningOf(x)
  BY <1>4, <1>8 DEF MeaningOf
<1>10. QED BY <1>1, <1>6, <1>7, <1>8, <1>9 DEF ReadBy

MeantInv == MadeInv /\ Meant

LEMMA DateAt ==
  ASSUME ParseTypeOK, RightKinds, LastIsDate
  PROVE  /\ Len(patterns) \in Nat /\ Len(patterns) - 1 \in Nat /\ Len(patterns) - 1 + 1 = Len(patterns)
         /\ DOMAIN patterns = 1 .. Len(patterns) /\ Last = patterns[Len(patterns)]
         /\ Last.from \in 1 .. Size /\ Last.from < Size /\ Cut = Last.from + 1
         /\ pattern[Last.from] = "%" /\ pattern[Last.from + 1] = "d"
         /\ MeaningOf(Last) = Written("d", {})
<1>1. /\ Len(patterns) \in Nat /\ Len(patterns) > 0 /\ Len(patterns) \in 1 .. Len(patterns)
      /\ DOMAIN patterns = 1 .. Len(patterns)
      /\ Last = patterns[Len(patterns)] /\ Cut = Last.to /\ Last \in EntryType
      /\ Last.kind = "d" /\ Last.to = Last.from + 1
  BY LastEntry DEF LastIsDate
<1>2. Last.from \in 1 .. Size /\ Last.to \in 1 .. Size /\ Size \in Nat
  BY <1>1, SizeNat DEF EntryType
<1>3. LetterAt(Len(patterns))
  <2>1. "d" # "text"
    OBVIOUS
  <2>2. QED BY <1>1, <2>1, Zenon DEF RightKinds
<1>4. pattern[Last.from] = "%" /\ pattern[Last.from + 1] = "d"
  BY <1>1, <1>3, Zenon DEF LetterAt
<1>5. Inside(Last) = {}
  BY <1>1, NothingInside
<1>6. MeaningOf(Last) = Written("d", {})
  BY <1>1, <1>5 DEF MeaningOf
<1>7. QED BY <1>1, <1>2, <1>4, <1>6

LEMMA MeantInit == ParseInit => Meant
<1> SUFFICES ASSUME ParseInit PROVE AllRead
  BY DEF ParseInit, Meant
<1>1. ParseTypeOK /\ Size \in Nat
  BY ParseInvInit, SizeNat DEF ParseInv
<1>2. Cut = 0 /\ Len(patterns) = 0
  BY DEF ParseInit, Cut
<1>3. MeaningFrom[1] \in Seq(Parts)
  <2>1. 1 \in 1 .. Size + 1
    BY <1>1
  <2>2. QED BY <1>1, <2>1, MeaningTyped
<1>4. Meaning = MeaningFrom[1]
  BY DEF Meaning
<1>5. Len(Meaning) = 0 + Len(MeaningFrom[1]) /\ \A j \in DOMAIN MeaningFrom[1] : 0 + j = j
  BY <1>3, <1>4
<1>6. ReadBy(patterns, 0, 1)
  BY <1>1, <1>4, <1>5 DEF ReadBy
<1>7. QED BY <1>2, <1>6 DEF AllRead

(* The entries, or what they mean, are not touched. *)
LEMMA MeantSame ==
  ASSUME pattern' = pattern, patterns' = patterns
  PROVE  /\ AllRead' <=> AllRead
         /\ DateLeft' <=> DateLeft
         /\ Complete' <=> Complete
<1>1. Cut' = Cut /\ Last' = Last
  BY DEF Cut, Last
<1>2. QED BY <1>1, SameMeaning DEF AllRead, DateLeft, Complete

(* An entry that fits is appended, and is what is read there first. *)
LEMMA MeantAppend ==
  ASSUME ParseTypeOK, EndToEnd, RightKinds, AllRead, NEW entry, Fits(entry),
         pattern' = pattern, patterns' = Append(patterns, entry)
  PROVE  /\ ReadsFirst(Cut + 1, MeaningOf(entry), entry.to + 1) => AllRead'
         /\ DateLeft'
<1> DEFINE n == Len(patterns)
<1>1. patterns \in Seq(EntryType) /\ n \in Nat /\ DOMAIN patterns = 1 .. n
  BY DEF ParseTypeOK, EntryType
<1>2. /\ Len(patterns') = n + 1 /\ patterns'[n + 1] = entry
      /\ \A k \in 1 .. n : patterns'[k] = patterns[k]
  BY <1>1
<1>3. Cut' = entry.to /\ Last' = entry
  BY AppendFits
<1>4. entry.from = Cut + 1 /\ entry.to + 1 \in 1 .. Size + 1
  BY SizeNat DEF Fits, EntryType
<1>5. ReadBy(patterns, n, Cut + 1)
  BY DEF AllRead
<1>6. ASSUME ReadsFirst(Cut + 1, MeaningOf(entry), entry.to + 1) PROVE AllRead'
  <2>1. ReadsFirst(Cut + 1, MeaningOf(patterns'[n + 1]), entry.to + 1)
    BY <1>2, <1>6, Zenon
  <2>2. ReadBy(patterns', n + 1, entry.to + 1)
    BY <1>1, <1>2, <1>4, <1>5, <2>1, ReadsOn
  <2>3. QED BY <1>2, <1>3, <2>2, SameMeaning DEF AllRead
<1>7. DateLeft'
  <2>1. ReadBy(patterns', n, entry.from)
    BY <1>2, <1>4, <1>5 DEF ReadBy
  <2>2. Len(patterns') - 1 = n
    BY <1>1, <1>2
  <2>3. QED BY <1>3, <2>1, <2>2, SameMeaning DEF DateLeft
<1>8. QED BY <1>6, <1>7

(* The text in tmp is what is read behind the entries. *)
LEMMA ReadsTmp ==
  ASSUME ParseTypeOK, Behind, tmp # 0, i = Size + 1 \/ (i <= Size /\ pattern[i] = "%")
  PROVE  ReadsFirst(Cut + 1, MeaningOf(Entry("text", tmp, i - 1)), Entry("text", tmp, i - 1).to + 1)
<1>1. /\ tmp = Cut + 1 /\ tmp < i /\ \A j \in tmp .. i - 1 : j <= Size /\ pattern[j] # "%"
  BY DEF Behind
<1>2. Size \in Nat /\ i \in Nat /\ tmp \in Nat /\ tmp > 0 /\ Cut \in 0 .. Size
  BY SizeNat, CutNat
<1>3. tmp \in 1 .. Size /\ i - 1 \in tmp .. Size /\ i - 1 + 1 = i
  <2>1. i - 1 \in tmp .. i - 1 /\ tmp \in tmp .. i - 1
    BY <1>1, <1>2
  <2>2. i - 1 <= Size /\ tmp <= Size
    BY <1>1, <2>1
  <2>3. QED BY <1>2, <2>1, <2>2
<1>4. i - 1 = Size \/ pattern[i - 1 + 1] = "%"
  BY <1>2, <1>3
<1>5. ReadsFirst(tmp, Written("text", Span(tmp, i - 1)), i - 1 + 1)
  BY <1>1, <1>3, <1>4, ReadsText
<1>6. /\ MeaningOf(Entry("text", tmp, i - 1)) = Written("text", Span(tmp, i - 1))
      /\ Entry("text", tmp, i - 1).to = i - 1
  BY DEF MeaningOf, Entry
<1>7. QED BY <1>1, <1>5, <1>6

LEMMA MeantFlushed ==
  ASSUME MeantInv, place = "scan", parsing,
         pattern' = pattern, patterns' = Flushed,
         i = Size + 1 \/ (i <= Size /\ pattern[i] = "%") \/ tmp = 0
  PROVE  AllRead'
<1>1. /\ ParseTypeOK /\ EndToEnd /\ RightKinds /\ Behind /\ AllRead
  BY DEF MeantInv, MadeInv, ParseInv, Tokenised, Meant
<1>2. CASE tmp = 0
  BY <1>1, <1>2, MeantSame DEF Flushed
<1>3. CASE tmp # 0
  <2>1. patterns' = Append(patterns, Entry("text", tmp, i - 1))
    BY <1>3 DEF Flushed
  <2>2. Fits(Entry("text", tmp, i - 1))
    BY <1>1, <1>3, TmpFits
  <2>3. ReadsFirst(Cut + 1, MeaningOf(Entry("text", tmp, i - 1)), Entry("text", tmp, i - 1).to + 1)
    BY <1>1, <1>3, ReadsTmp
  <2>4. QED BY <1>1, <2>1, <2>2, <2>3, MeantAppend
<1>4. QED BY <1>2, <1>3

LEMMA MeantScan ==
  ASSUME MeantInv, BeginEscape \/ Percent \/ Text \/ Letter
  PROVE  Meant'
<1>1. /\ ParseTypeOK /\ EndToEnd /\ RightKinds /\ Behind /\ AllRead /\ pattern' = pattern
      /\ place = "scan" /\ i <= Size /\ Size \in Nat /\ i \in Nat /\ Cut \in 0 .. Size
  BY SizeNat, CutNat DEF MeantInv, MadeInv, ParseInv, Tokenised, Meant, BeginEscape, Percent, Text, Letter, Reads
<1>2. CASE BeginEscape
  <2>1. place' = "scan" /\ parsing /\ pattern[i] = "%" /\ patterns' = Flushed
    BY <1>2 DEF BeginEscape, Reads
  <2>2. AllRead'
    BY <1>1, <2>1, MeantFlushed
  <2>3. QED BY <2>1, <2>2 DEF Meant
<1>3. CASE Text
  <2>1. place' = "scan" /\ patterns' = patterns
    BY <1>1, <1>3 DEF Text
  <2>2. QED BY <1>1, <2>1, MeantSame DEF Meant
<1>4. CASE Percent \/ Letter
  <2>1. /\ ~parsing /\ patterns' = Append(patterns, Entry(pattern[i], i - 1, i))
        /\ place' = IF pattern[i] = "d" THEN "date" ELSE "scan"
    BY <1>1, <1>4 DEF Percent, Letter, Push, Reads
  <2>2. Fits(Entry(pattern[i], i - 1, i)) /\ i - 1 = Cut + 1 /\ i \in 1 .. Size
    BY <1>1, <2>1, EscapeFits
  <2>3. Cut < Size /\ pattern[Cut + 1] = "%"
    BY <1>1, <2>1 DEF Behind
  <2>4. CASE pattern[i] = "d"
    <3>1. place' = "date" /\ DateLeft'
      BY <1>1, <2>1, <2>2, <2>4, MeantAppend
    <3>2. QED BY <3>1 DEF Meant
  <2>5. CASE pattern[i] # "d"
    <3>1. Cut + 1 \in 1 .. Size /\ Cut + 1 < Size /\ Cut + 1 + 1 = i /\ Cut + 1 + 2 = i + 1
      BY <1>1, <2>2
    <3>2. ReadsFirst(Cut + 1, Written(pattern[i], {}), i + 1)
      <4>1. ReadsFirst(Cut + 1, Written(pattern[Cut + 1 + 1], {}), Cut + 1 + 2)
        BY <1>1, <2>3, <2>5, <3>1, ReadsLetter
      <4>2. QED BY <3>1, <4>1
    <3>3. MeaningOf(Entry(pattern[i], i - 1, i)) = Written(pattern[i], {})
      <4>1. pattern[i] # "text"
        BY <1>1, <2>2, Character
      <4>2. QED BY <2>5, <4>1 DEF MeaningOf, Inside, Entry
    <3>4. Entry(pattern[i], i - 1, i).to = i
      BY DEF Entry
    <3>5. AllRead'
      BY <1>1, <2>1, <2>2, <3>2, <3>3, <3>4, MeantAppend
    <3>6. place' = "scan"
      BY <2>1, <2>5
    <3>7. QED BY <3>5, <3>6 DEF Meant
  <2>6. QED BY <2>4, <2>5
<1>5. QED BY <1>2, <1>3, <1>4

LEMMA MeantDate ==
  ASSUME MeantInv, AfterDate \/ DateCharacter \/ Closed
  PROVE  Meant'
<1>1. /\ ParseTypeOK /\ RightKinds /\ Behind /\ LastIsDate /\ DateLeft /\ pattern' = pattern
      /\ place = "braces" => BracesOpen
      /\ Size \in Nat /\ i \in Nat /\ Cut \in 0 .. Size
  BY SizeNat, CutNat DEF MeantInv, MadeInv, ParseInv, Tokenised, InDate, Meant, AfterDate, DateCharacter, Closed
<1> DEFINE n == Len(patterns)
<1>2. /\ n \in Nat /\ n - 1 \in Nat /\ n - 1 + 1 = n /\ DOMAIN patterns = 1 .. n /\ Last = patterns[n]
      /\ Last.from \in 1 .. Size /\ Last.from < Size /\ Cut = Last.from + 1
      /\ pattern[Last.from] = "%" /\ pattern[Last.from + 1] = "d"
      /\ MeaningOf(Last) = Written("d", {})
  BY <1>1, DateAt
<1>3. ReadBy(patterns, n - 1, Last.from)
  BY <1>1 DEF DateLeft
<1>4. Cut + 1 \in 1 .. Size + 1 /\ Last.from + 2 = Cut + 1
  BY <1>1, <1>2
<1>5. ASSUME Cut = Size \/ pattern[Cut + 1] # LBrace PROVE AllRead
  <2>1. Last.from + 2 > Size \/ pattern[Last.from + 2] # LBrace
    BY <1>1, <1>4, <1>5
  <2>2. ReadsFirst(Last.from, Written("d", {}), Cut + 1)
    <3>1. ReadsFirst(Last.from, Written(pattern[Last.from + 1], {}), Last.from + 2)
      BY <1>1, <1>2, <2>1, ReadsLetter
    <3>2. QED BY <1>2, <1>4, <3>1
  <2>3. ReadsFirst(Last.from, MeaningOf(patterns[n - 1 + 1]), Cut + 1)
    BY <1>2, <2>2
  <2>4. ReadBy(patterns, n - 1 + 1, Cut + 1)
    BY <1>1, <1>2, <1>3, <1>4, <2>3, ReadsOn
  <2>5. QED BY <1>2, <2>4 DEF AllRead
<1>6. CASE AfterDate
  <2>1. i = Cut + 1 /\ patterns' = patterns
    BY <1>1, <1>6 DEF AfterDate, Behind
  <2>2. CASE NoBraces
    <3>1. place' = "scan" /\ AllRead
      BY <1>5, <1>6, <2>1, <2>2 DEF AfterDate, NoBraces
    <3>2. QED BY <1>1, <2>1, <3>1, MeantSame DEF Meant
  <2>3. CASE ~NoBraces
    <3>1. place' = "braces"
      BY <1>6, <2>3 DEF AfterDate
    <3>2. QED BY <1>1, <2>1, <3>1, MeantSame DEF Meant
  <2>4. QED BY <2>2, <2>3
<1>7. CASE DateCharacter
  <2>1. patterns' = patterns /\ place' = "braces"
    BY <1>7 DEF DateCharacter
  <2>2. QED BY <1>1, <2>1, MeantSame DEF Meant
<1>8. CASE Closed
  <2>1. /\ BracesOpen /\ place' = "scan" /\ ~InBraces /\ TRUE \in ClosedOutcomes
        /\ patterns' = LastSpans(IF i <= Size THEN i ELSE Size)
    BY <1>1, <1>8 DEF Closed
  <2>2. CASE i <= Size
    <3>1. pattern[i] = RBrace /\ patterns' = LastSpans(i)
      BY <2>1, <2>2 DEF InBraces
    <3>2. /\ Cut + 2 <= i /\ Cut < Size /\ pattern[Cut + 1] = LBrace
          /\ \A j \in Cut + 2 .. i - 1 : pattern[j] # RBrace
      BY <1>1, <2>1, <2>2 DEF BracesOpen
    <3>3. /\ Last.from + 3 = Cut + 2 /\ i \in Last.from + 3 .. Size /\ Last.from + 2 <= Size
          /\ pattern[Last.from + 2] = LBrace /\ i + 1 \in 1 .. Size + 1
      BY <1>1, <1>2, <1>4, <2>2, <3>2
    <3>4. ReadsFirst(Last.from, Written("d", Span(Last.from + 3, i - 1)), i + 1)
      <4>1. \A j \in Last.from + 3 .. i - 1 : pattern[j] # RBrace
        BY <3>2, <3>3
      <4>2. QED BY <1>1, <1>2, <3>1, <3>3, <4>1, ReadsBraces
    <3>5. /\ n \in 1 .. n /\ Last \in EntryType /\ Last.kind = "d" /\ patterns \in Seq(EntryType)
      BY <1>1, LastEntry DEF LastIsDate
    <3>6. patterns' = [patterns EXCEPT ![n].to = i]
      BY <3>1 DEF LastSpans
    <3>7. /\ Len(patterns') = n /\ patterns'[n].kind = "d" /\ patterns'[n].from = Last.from
          /\ patterns'[n].to = i /\ \A k \in 1 .. n - 1 : patterns'[k] = patterns[k]
      <4>1. Len(patterns') = n
        BY <1>2, <3>5, <3>6
      <4>2. patterns'[n] = [Last EXCEPT !.to = i]
        BY <1>2, <3>5, <3>6
      <4>3. QED BY <1>2, <3>5, <3>6, <4>1, <4>2 DEF EntryType
    <3>8. MeaningOf(patterns'[n]) = Written("d", Span(Last.from + 3, i - 1))
      <4>1. "d" # "text"
        OBVIOUS
      <4>2. QED BY <3>7, <4>1, Zenon DEF MeaningOf, Inside
    <3>9. ReadsFirst(Last.from, MeaningOf(patterns'[n - 1 + 1]), i + 1)
      BY <1>2, <3>4, <3>8
    <3>10. ReadBy(patterns', n - 1 + 1, i + 1)
      BY <1>1, <1>2, <1>3, <3>3, <3>7, <3>9, ReadsOn
    <3>11. Cut' = i
      BY <1>2, <3>5, <3>7 DEF Cut
    <3>12. AllRead'
      BY <1>1, <1>2, <3>7, <3>10, <3>11, SameMeaning DEF AllRead
    <3>13. QED BY <2>1, <3>12 DEF Meant
  <2>3. CASE i > Size
    <3>1. i # Size + 1
      <4> SUFFICES ASSUME i = Size + 1 PROVE FALSE
        OBVIOUS
      <4>1. ~(i <= Size)
        BY <1>1, <2>3
      <4>2. ClosedOutcomes = {FALSE}
        BY <4>1, Zenon DEF ClosedOutcomes
      <4>3. QED BY <2>1, <4>2, Zenon
    <3>2. Cut = Size
      BY <1>1, <2>1, <2>3, <3>1 DEF BracesOpen
    <3>3. patterns' = patterns
      <4>1. /\ patterns \in Seq(EntryType) /\ n \in DOMAIN patterns
            /\ Last = patterns[n] /\ Last \in EntryType /\ Last.to = Size
        BY <1>1, <3>2, LastEntry DEF LastIsDate
      <4>2. Last = [Last EXCEPT !.to = Size]
        BY <4>1 DEF EntryType
      <4>3. patterns' = LastSpans(Size)
        BY <1>1, <2>1, <2>3
      <4>4. QED BY <4>1, <4>2, <4>3 DEF LastSpans
    <3>4. AllRead
      BY <1>5, <3>2
    <3>5. QED BY <1>1, <2>1, <3>3, <3>4, MeantSame DEF Meant
  <2>4. QED BY <1>1, <2>2, <2>3
<1>9. QED BY <1>6, <1>7, <1>8

LEMMA MeantNotClosed ==
  ASSUME MeantInv, NotClosed
  PROVE  Meant'
<1>1. /\ DateLeft /\ pattern' = pattern /\ patterns' = patterns
      /\ place' = "done" /\ error' = TRUE
  BY DEF MeantInv, Meant, NotClosed
<1>2. Unfinished'
  BY LeavesUnfinished DEF MeantInv
<1>3. DateLeft'
  BY <1>1, MeantSame
<1>4. QED BY <1>1, <1>2, <1>3 DEF Meant

LEMMA MeantEnd ==
  ASSUME MeantInv, EndOfPattern
  PROVE  Meant'
<1>1. /\ ParseTypeOK /\ Behind /\ place = "scan" /\ place' = "build" /\ i > Size
      /\ pattern' = pattern /\ patterns' = Flushed /\ AllRead
  BY DEF MeantInv, MadeInv, ParseInv, Tokenised, Meant, EndOfPattern
<1>2. Size \in Nat /\ i \in Nat /\ tmp \in Nat /\ Cut \in 0 .. Size
  BY <1>1, SizeNat, CutNat
<1>3. CASE tmp = 0
  <2>1. patterns' = patterns
    BY <1>1, <1>3 DEF Flushed
  <2>2. QED BY <1>1, <2>1, MeantSame DEF Meant
<1>4. CASE tmp # 0
  <2>1. /\ parsing /\ tmp = Cut + 1 /\ tmp < i /\ \A j \in tmp .. i - 1 : j <= Size
    BY <1>1, <1>4 DEF Behind
  <2>2. i - 1 \in tmp .. i - 1
    BY <1>2, <2>1
  <2>3. i = Size + 1
    <3>1. i - 1 <= Size
      BY <2>1, <2>2
    <3>2. QED BY <1>1, <1>2, <3>1
  <2>4. AllRead'
    BY <1>1, <2>1, <2>3, MeantFlushed
  <2>5. QED BY <1>1, <2>4 DEF Meant
<1>5. QED BY <1>3, <1>4

LEMMA MeantBuild ==
  ASSUME MeantInv, Build
  PROVE  Meant'
<1>1. /\ AllRead /\ Complete /\ ~error /\ pattern' = pattern /\ patterns' = patterns
  BY DEF MeantInv, MadeInv, ItemsMade, Meant, Build, UnknownItem, MakeItem, Built, Building
<1>2. AllRead' /\ Complete'
  BY <1>1, MeantSame
<1>3. CASE UnknownItem
  <2>1. place' = "done" /\ items' = items /\ StandsForNothing
    BY <1>3 DEF UnknownItem, Building, NextEntry, StandsForNothing
  <2>2. StandsForNothing'
    BY <1>1, <2>1 DEF StandsForNothing, IsKnown
  <2>3. QED BY <1>2, <2>1, <2>2 DEF Meant
<1>4. CASE MakeItem
  <2>1. place' = "build"
    BY <1>4 DEF MakeItem, Building
  <2>2. QED BY <1>2, <2>1 DEF Meant
<1>5. CASE Built
  <2>1. place' = "done" /\ ~error'
    BY <1>1, <1>5 DEF Built
  <2>2. QED BY <1>2, <2>1 DEF Meant
<1>6. QED BY <1>3, <1>4, <1>5 DEF Build

LEMMA MeantNext == MeantInv /\ [ParseNext]_parseVars => MeantInv'
<1> SUFFICES ASSUME MeantInv, [ParseNext]_parseVars PROVE Meant'
  BY MadeNext DEF MeantInv
<1>1. CASE Parse
  BY <1>1, MeantScan, MeantDate, MeantNotClosed, MeantEnd DEF Parse
<1>2. CASE Build
  BY <1>2, MeantBuild
<1>3. CASE UNCHANGED parseVars
  <2>1. /\ pattern' = pattern /\ patterns' = patterns /\ place' = place /\ error' = error /\ items' = items
    BY <1>3 DEF parseVars
  <2>2. Unfinished' = Unfinished /\ StandsForNothing' = StandsForNothing
    BY <2>1 DEF Unfinished, StandsForNothing, LastIsDate, Last, Cut, Size, IsKnown
  <2>3. Meant
    BY DEF MeantInv
  <2>4. QED BY <2>1, <2>2, <2>3, MeantSame DEF Meant
<1>4. QED BY <1>1, <1>2, <1>3 DEF ParseNext, Over

(* Where the entries are the whole meaning of the pattern, but for a sign  *)
(* that ends it.                                                           *)
LEMMA WholeMeaning ==
  ASSUME ParseTypeOK, Complete, AllRead
  PROVE  /\ Meaning \in Seq(Parts)
         /\ DOMAIN patterns \subseteq DOMAIN Meaning /\ DOMAIN Meaning \ Lone = DOMAIN patterns
         /\ \A k \in DOMAIN Meaning : k \in DOMAIN patterns \/ Meaning[k] = Written("lone", {})
         /\ \A k \in DOMAIN patterns :
              /\ Meaning[k] = MeaningOf(patterns[k]) /\ patterns[k] \in EntryType
              /\ Meaning[k].kind = "text" <=> patterns[k].kind = "text"
              /\ Meaning[k].kind \in {"d", "default"} <=> patterns[k].kind = "d"
              /\ patterns[k].kind # "d" => Meaning[k].kind = patterns[k].kind
              /\ Meaning[k].kind # "open" /\ Meaning[k].kind # "lone"
              /\ patterns[k].kind # "text" => Meaning[k].of = Inside(patterns[k])
<1> DEFINE rest == MeaningFrom[Cut + 1]
<1>1. /\ 1 \in 1 .. Size + 1
      /\ rest = <<>> \/ rest = <<Written("lone", {})>>
  BY SizeNat, ReadsNothing
<1>2. Meaning \in Seq(Parts)
  BY <1>1, MeaningTyped DEF Meaning
<1>3. patterns \in Seq(EntryType) /\ Len(patterns) \in Nat /\ DOMAIN patterns = 1 .. Len(patterns)
  BY DEF ParseTypeOK, EntryType
<1>4. /\ Len(Meaning) = Len(patterns) + Len(rest)
      /\ \A k \in DOMAIN patterns : Meaning[k] = MeaningOf(patterns[k])
      /\ \A j \in DOMAIN rest : Meaning[Len(patterns) + j] = rest[j]
  BY <1>3 DEF AllRead, ReadBy
<1>5. /\ DOMAIN patterns \subseteq DOMAIN Meaning
      /\ \A k \in DOMAIN Meaning : k \in DOMAIN patterns \/ Meaning[k] = Written("lone", {})
  <2>1. DOMAIN Meaning = 1 .. Len(Meaning)
    BY <1>2
  <2>2. CASE rest = <<>>
    <3>1. Len(rest) = 0
      BY <2>2
    <3>2. Len(Meaning) = Len(patterns)
      BY <1>3, <1>4, <3>1
    <3>3. QED BY <1>3, <2>1, <3>2
  <2>3. CASE rest = <<Written("lone", {})>>
    <3>1. Len(rest) = 1 /\ 1 \in DOMAIN rest /\ rest[1] = Written("lone", {})
      BY <2>3
    <3>2. Len(Meaning) = Len(patterns) + 1 /\ Meaning[Len(patterns) + 1] = Written("lone", {})
      BY <1>4, <3>1
    <3>3. ASSUME NEW k \in DOMAIN Meaning, k \notin DOMAIN patterns PROVE Meaning[k] = Written("lone", {})
      <4>1. k = Len(patterns) + 1
        BY <1>3, <2>1, <3>2, <3>3
      <4>2. QED BY <3>2, <4>1
    <3>4. QED BY <1>3, <2>1, <3>2, <3>3
  <2>4. QED BY <1>1, <2>2, <2>3
<1>6. ASSUME NEW k \in DOMAIN patterns
      PROVE  /\ patterns[k] \in EntryType
             /\ Meaning[k].kind = "text" <=> patterns[k].kind = "text"
             /\ Meaning[k].kind \in {"d", "default"} <=> patterns[k].kind = "d"
             /\ patterns[k].kind # "d" => Meaning[k].kind = patterns[k].kind
             /\ Meaning[k].kind # "open" /\ Meaning[k].kind # "lone"
             /\ patterns[k].kind # "text" => Meaning[k].of = Inside(patterns[k])
  <2>1. patterns[k] \in EntryType
    BY <1>3
  <2>2. patterns[k].kind \in Char \cup {"text"} /\ patterns[k].kind \notin {"default", "open", "lone"}
    BY <2>1, LogFormatAssumption DEF EntryType
  <2>3. /\ \/ patterns[k].kind = "d" /\ Meaning[k].kind \in {"d", "default"}
           \/ patterns[k].kind # "d" /\ Meaning[k].kind = patterns[k].kind
        /\ patterns[k].kind # "text" => Meaning[k].of = Inside(patterns[k])
    <3>1. Meaning[k] = MeaningOf(patterns[k])
      BY <1>4, <1>6
    <3>2. QED BY <3>1 DEF MeaningOf, Written
  <2>4. QED BY <2>1, <2>2, <2>3
<1>7. DOMAIN Meaning \ Lone = DOMAIN patterns
  <2>1. Written("lone", {}).kind = "lone"
    BY DEF Written
  <2>2. QED BY <1>5, <1>6, <2>1 DEF Lone, Means
<1>8. QED BY <1>2, <1>4, <1>5, <1>6, <1>7

LEMMA WholeDates ==
  ASSUME ParseTypeOK, Complete, AllRead
  PROVE  /\ Dates = {k \in DOMAIN patterns : patterns[k].kind = "d"}
         /\ AllBraces = AllInside /\ ~Unclosed
         /\ Noticed <=> \E k \in DOMAIN patterns : ~IsKnown(patterns[k].kind)
<1>0. \A k \in DOMAIN Meaning : k \in DOMAIN patterns \/ Meaning[k].kind = "lone"
  <2>1. Written("lone", {}).kind = "lone"
    BY DEF Written
  <2>2. QED BY <2>1, WholeMeaning
<1>1. Dates = {k \in DOMAIN patterns : patterns[k].kind = "d"}
  BY <1>0, WholeMeaning DEF Dates, Means
<1>2. ~Unclosed
  BY <1>0, WholeMeaning DEF Unclosed, Means
<1>3. AllBraces = AllInside
  <2>1. \A k \in Dates : Meaning[k].of = Inside(patterns[k])
    <3>1. \A k \in Dates : patterns[k].kind = "d" /\ k \in DOMAIN patterns
      BY <1>1
    <3>2. "d" # "text"
      OBVIOUS
    <3>3. QED BY <3>1, <3>2, WholeMeaning
  <2>2. \A k \in DOMAIN patterns : k \notin Dates => Inside(patterns[k]) = {}
    BY <1>1 DEF Inside
  <2>3. AllBraces = UNION {Inside(patterns[k]) : k \in Dates}
    BY <2>1 DEF AllBraces
  <2>4. Dates \subseteq DOMAIN patterns
    BY <1>1
  <2>5. QED BY <2>2, <2>3, <2>4 DEF AllInside
<1>4. Noticed <=> \E k \in DOMAIN patterns : ~IsKnown(patterns[k].kind)
  <2>1. ASSUME NEW k \in DOMAIN patterns
        PROVE  Meaning[k].kind \in Known \cup {"text", "d", "default", "lone"} <=> IsKnown(patterns[k].kind)
    <3>1. patterns[k].kind \in Char \cup {"text"} /\ "default" \notin Char /\ "lone" \notin Char
      BY <2>1, WholeMeaning, LogFormatAssumption DEF EntryType
    <3>2. CASE patterns[k].kind = "d"
      BY <2>1, <3>2, WholeMeaning DEF IsKnown
    <3>3. CASE patterns[k].kind # "d"
      <4>1. Meaning[k].kind = patterns[k].kind
        BY <2>1, <3>3, WholeMeaning
      <4>2. patterns[k].kind # "default" /\ patterns[k].kind # "lone"
        BY <3>1
      <4>3. QED BY <4>1, <4>2 DEF IsKnown
    <3>4. QED BY <3>2, <3>3
  <2>2. DOMAIN patterns \subseteq DOMAIN Meaning
    BY WholeMeaning
  <2>3. QED BY <1>0, <2>1, <2>2 DEF Noticed, Means
<1>5. QED BY <1>1, <1>2, <1>3, <1>4

(* What is written for an entry is what the comments mean by it, but that  *)
(* a date has the format of all dates.                                     *)
LEMMA WritesMeaning ==
  ASSUME ParseTypeOK, Complete, AllRead, NEW k \in DOMAIN patterns
  PROVE  WrittenFor(patterns[k]) = IF k \in Dates THEN Written("d", AllBraces) ELSE Meaning[k]
<1>1. Meaning[k] = MeaningOf(patterns[k])
  BY WholeMeaning
<1>2. CASE patterns[k].kind = "d"
  <2>1. k \in Dates /\ AllBraces = AllInside
    BY <1>2, WholeDates
  <2>2. "d" # "text"
    OBVIOUS
  <2>3. QED BY <1>2, <2>1, <2>2, Zenon DEF WrittenFor
<1>3. CASE patterns[k].kind # "d"
  <2>1. k \notin Dates
    BY <1>3, WholeDates
  <2>2. Inside(patterns[k]) = {}
    BY <1>3 DEF Inside
  <2>3. QED BY <1>1, <1>3, <2>1, <2>2, Zenon DEF WrittenFor, MeaningOf
<1>4. QED BY <1>2, <1>3

LEMMA WholeFaithful ==
  ASSUME MeantInv, WritesEntries, place = "done", Complete, AllRead, error => StandsForNothing
  PROVE  ReadsAsMeant /\ ErrorMeansMalformed
<1>1. ParseTypeOK /\ ItemsMade
  BY DEF MeantInv, MadeInv, ParseInv
<1>2. /\ \A k \in DOMAIN Format : k \in DOMAIN patterns /\ Format[k] = WrittenFor(patterns[k])
      /\ ~error => Len(Format) = Len(patterns)
  BY DEF WritesEntries
<1>3. /\ Len(patterns) \in Nat /\ DOMAIN patterns = 1 .. Len(patterns)
      /\ Len(items) \in Nat /\ DOMAIN items = 1 .. Len(items)
      /\ DOMAIN Format = DOMAIN items /\ Len(Format) = Len(items)
      /\ DOMAIN Meaning \ Lone = DOMAIN patterns
  <2>1. /\ Len(patterns) \in Nat /\ DOMAIN patterns = 1 .. Len(patterns)
        /\ Len(items) \in Nat /\ DOMAIN items = 1 .. Len(items)
    BY <1>1 DEF ParseTypeOK
  <2>2. DOMAIN Format = DOMAIN items /\ Len(Format) = Len(items)
    BY <2>1 DEF Format
  <2>3. QED BY <1>1, <2>1, <2>2, WholeMeaning
<1>4. \A k \in DOMAIN patterns :
        WrittenFor(patterns[k]) = IF k \in Dates THEN Written("d", AllBraces) ELSE Meaning[k]
  BY <1>1, WritesMeaning
<1>5. ReadsAsMeant
  <2> SUFFICES ASSUME ~error
               PROVE  Format = [k \in DOMAIN Meaning \ Lone |->
                                  IF k \in Dates THEN Written("d", AllBraces) ELSE Meaning[k]]
    BY DEF ReadsAsMeant
  <2>1. DOMAIN Format = DOMAIN Meaning \ Lone
    BY <1>2, <1>3
  <2>2. Format = [k \in DOMAIN items |-> Format[k]]
    BY DEF Format
  <2>3. \A k \in DOMAIN Format : Format[k] = IF k \in Dates THEN Written("d", AllBraces) ELSE Meaning[k]
    BY <1>2, <1>4
  <2>4. QED BY <1>3, <2>1, <2>2, <2>3
<1>6. Noticed => error
  <2>1. ASSUME ~error, NEW k \in DOMAIN patterns PROVE IsKnown(patterns[k].kind)
    <3>1. k \in DOMAIN items
      BY <1>2, <1>3, <2>1
    <3>2. QED BY <1>1, <3>1 DEF ItemsMade
  <2>2. QED BY <1>1, <2>1, WholeDates
<1>7. error => Noticed
  <2>1. ASSUME error PROVE Noticed
    <3>1. Len(items) < Len(patterns) /\ ~IsKnown(patterns[Len(items) + 1].kind)
      BY <2>1 DEF StandsForNothing
    <3>2. Len(items) + 1 \in DOMAIN patterns
      BY <1>3, <3>1
    <3>3. QED BY <1>1, <3>1, <3>2, WholeDates
  <2>2. QED BY <2>1
<1>8. \A k \in DOMAIN Format : k \in Dates \/ Format[k] = Meaning[k]
  BY <1>2, <1>4
<1>9. ~Unclosed
  BY <1>1, WholeDates
<1>10. QED BY <1>5, <1>6, <1>7, <1>8, <1>9 DEF ErrorMeansMalformed

LEMMA RefusedFaithful ==
  ASSUME MeantInv, place = "done", error, Unfinished, DateLeft
  PROVE  ReadsAsMeant /\ ErrorMeansMalformed
<1>1. /\ ParseTypeOK /\ RightKinds /\ LastIsDate /\ items = <<>>
  BY DEF MeantInv, MadeInv, ParseInv, Tokenised, Unfinished
<1> DEFINE n == Len(patterns)
<1>2. /\ n \in Nat /\ n - 1 \in Nat /\ n - 1 + 1 = n
      /\ Last.from \in 1 .. Size /\ Last.from < Size /\ Cut = Last.from + 1
      /\ pattern[Last.from] = "%" /\ pattern[Last.from + 1] = "d"
      /\ Size \in Nat
  BY <1>1, DateAt, SizeNat
<1>3. Format = <<>> /\ DOMAIN Format = {}
  BY <1>1 DEF Format
<1>4. /\ Len(Meaning) = n - 1 + Len(MeaningFrom[Last.from])
      /\ \A j \in DOMAIN MeaningFrom[Last.from] : Meaning[n - 1 + j] = MeaningFrom[Last.from][j]
  BY DEF DateLeft, ReadBy
<1>5. /\ MeaningFrom[Last.from] \in Seq(Parts) /\ Meaning \in Seq(Parts)
  <2>1. Last.from \in 1 .. Size + 1 /\ 1 \in 1 .. Size + 1
    BY <1>2
  <2>2. QED BY <1>1, <2>1, MeaningTyped DEF Meaning
<1>6. ASSUME NEW part, Len(MeaningFrom[Last.from]) = 1, MeaningFrom[Last.from][1] = part
      PROVE  Len(Meaning) = n /\ n \in DOMAIN Meaning /\ Meaning[n] = part
  <2>1. 1 \in DOMAIN MeaningFrom[Last.from]
    BY <1>5, <1>6
  <2>2. Meaning[n - 1 + 1] = part
    BY <1>4, <1>6, <2>1
  <2>3. Len(Meaning) = n
    BY <1>2, <1>4, <1>6
  <2>4. n \in DOMAIN Meaning
    <3>1. n \in 1 .. n
      BY <1>2
    <3>2. QED BY <1>5, <2>3, <3>1
  <2>5. QED BY <1>2, <2>2, <2>3, <2>4
<1>7. Noticed \/ EndsInDate
  <2>1. CASE Cut = Size
    <3>1. Last.from + 2 = Size + 1 /\ Last.from + 1 = Size /\ Complete
      BY <1>2, <2>1 DEF Complete
    <3>2. ReadsFirst(Last.from, Written("d", {}), Size + 1)
      <4>1. ReadsFirst(Last.from, Written(pattern[Last.from + 1], {}), Last.from + 2)
        <5>1. Last.from + 2 > Size
          BY <1>2, <3>1
        <5>2. QED BY <1>1, <1>2, <5>1, ReadsLetter
      <4>2. QED BY <1>2, <3>1, <4>1
    <3>3. MeaningFrom[Size + 1] = <<>>
      <4>1. MeaningFrom[Cut + 1] = <<>>
        BY <1>1, <2>1, <3>1, ReadsNothing
      <4>2. QED BY <2>1, <4>1
    <3>4. Len(MeaningFrom[Last.from]) = 1 /\ MeaningFrom[Last.from][1] = Written("d", {})
      BY <3>2, <3>3 DEF ReadsFirst
    <3>5. Len(Meaning) = n /\ n \in DOMAIN Meaning /\ Meaning[n] = Written("d", {})
      BY <1>6, <3>4
    <3>6. Written("d", {}).kind = "default"
      BY DEF Written
    <3>7. Len(Meaning) \in Dates
      BY <3>5, <3>6 DEF Dates, Means
    <3>8. pattern[Size] = "d"
      BY <1>2, <3>1
    <3>9. QED BY <3>7, <3>8 DEF EndsInDate
  <2>2. CASE Cut # Size
    <3>1. Cut < Size
      BY <1>1, <1>2, <2>2, CutNat
    <3>2. pattern[Cut + 1] = LBrace /\ \A j \in Cut + 2 .. Size : pattern[j] # RBrace
      BY <3>1 DEF Unfinished
    <3>3. /\ Last.from + 2 <= Size /\ Last.from + 2 = Cut + 1 /\ Last.from + 3 = Cut + 2
      BY <1>2, <3>1
    <3>4. MeaningFrom[Last.from] = <<Written("open", {})>>
      <4>1. \A j \in Last.from + 3 .. Size : pattern[j] # RBrace
        BY <3>2, <3>3
      <4>2. QED BY <1>1, <1>2, <3>2, <3>3, <4>1, ReadsBraces
    <3>5. n \in DOMAIN Meaning /\ Meaning[n] = Written("open", {})
      <4>1. Len(MeaningFrom[Last.from]) = 1 /\ MeaningFrom[Last.from][1] = Written("open", {})
        BY <3>4
      <4>2. QED BY <1>6, <4>1
    <3>6. Written("open", {}).kind \notin Known \cup {"text", "d", "default", "lone"}
      BY LogFormatAssumption DEF Written
    <3>7. QED BY <3>5, <3>6 DEF Noticed, Means
  <2>3. QED BY <2>1, <2>2
<1>8. QED BY <1>3, <1>7 DEF ReadsAsMeant, ErrorMeansMalformed

(* For every pattern, however long: a formatter that is not refused writes *)
(* a record as the comments of the code read its pattern, but for two      *)
(* things: all dates have the format of all, and a sign that ends the      *)
(* pattern is dropped and does not refuse the formatter.  One that is      *)
(* refused has a pattern with a brace that is not closed or a letter that  *)
(* stands for nothing, or that ends in %d, and writes what comes before    *)
(* that letter, or nothing (log.cpp:244-364).                              *)
THEOREM LogFormatFaithful == ParseSpec => []Faithful
<1>1. MeantInv /\ WritesEntries => Faithful
  <2> SUFFICES ASSUME MeantInv, WritesEntries PROVE ReadsAsMeant /\ ErrorMeansMalformed
    BY DEF Faithful
  <2>1. CASE place # "done"
    BY <2>1 DEF ReadsAsMeant, ErrorMeansMalformed
  <2>2. CASE place = "done" /\ Complete /\ AllRead /\ (error => StandsForNothing)
    BY <2>2, WholeFaithful
  <2>3. CASE place = "done" /\ error /\ Unfinished /\ DateLeft
    BY <2>3, RefusedFaithful
  <2>4. QED BY <2>1, <2>2, <2>3 DEF MeantInv, Meant
<1>2. ParseInit => MeantInv
  BY ParseInvInit, MadeInit, MeantInit DEF MeantInv, MadeInv
<1>3. QED BY <1>1, <1>2, MeantNext, LogFormatWrites, PTL DEF ParseSpec
=============================================================================

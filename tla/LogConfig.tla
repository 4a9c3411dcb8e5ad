----------------------------- MODULE LogConfig -----------------------------
(***************************************************************************)
(* A configuration variable and the listener that the logger hangs on it:  *)
(* ConfigVar<std::set<LogDefine>> "logs" (config/config.cpp), LogIniter    *)
(* and LoggerManager (log.cpp).  setValue() tells the listeners in one     *)
(* section under m_mutex and stores the value in a second one; the         *)
(* listener brings the loggers to the new definitions one call at a time.  *)
(*                                                                         *)
(* Both kinds of lock of an RWMutex are exclusive: ReadScopedLockImpl too  *)
(* calls wrlock() (mutex.h:72-80).  Nothing waits while it holds the mutex *)
(* of one logger, so a section under that is one step.                     *)
(***************************************************************************)
EXTENDS Naturals, FiniteSets

CONSTANTS
  Thread,      \* threads that use the configuration and the loggers
  Name,        \* names of loggers
  Level,       \* LogLevel::Level without NOTSET
  NotSet,      \* LogLevel::NOTSET
  Info,        \* LogLevel::INFO, the level of a new logger
  Output,      \* what a LogAppenderDefine can ask for
  Stdout,      \* those that are StdoutLogAppenders
  Daemon,      \* the program was started with -d
  Input,       \* the values setValue is called with
  MaxCall,     \* bound: calls of the threads
  None         \* no thread

(* How many appenders of each kind: their order is left out. *)
Appenders == [Output -> Nat]
NoAppender == [a \in Output |-> 0]

Define == [level : Level \cup {NotSet}, appenders : Appenders]

(* A std::set<LogDefine> is ordered by name: it has one definition of each. *)
Defines(v) == DOMAIN v \subseteq Name /\ \A n \in DOMAIN v : v[n] \in Define

NoDefine == [n \in {} |-> None]

ASSUME LogConfigAssumption ==
  /\ IsFiniteSet(Thread) /\ None \notin Thread
  /\ NotSet \notin Level /\ Info \in Level
  /\ Stdout \subseteq Output /\ Daemon \in BOOLEAN
  /\ (\A v \in Input : Defines(v)) /\ MaxCall \in Nat

VARIABLES
  val,      \* m_val of the variable
  varLock,  \* the thread that holds m_mutex of the variable
  mapLock,  \* the thread that holds Config::GetMutex()
  mgrLock,  \* the thread that holds LoggerManager::m_mutex
  loggers,  \* m_loggers: level and appenders of each logger
  pc,       \* pc[t]: where thread t is
  new,      \* new[t]: the argument of setValue
  todo,     \* todo[t]: names the loop t is in has yet to visit
  logger,   \* logger[t]: the logger t is bringing up to date
  left,     \* left[t]: appenders t has yet to give to it
  died,     \* a null logger was called
  calls,    \* calls made so far
  last,     \* history: last[n] is what was last begun to be made of logger n
  overlap   \* history: listeners were told of a value before the one told
            \* to them earlier was stored

lockVars == <<varLock, mapLock, mgrLock>>
callVars == <<new, todo, logger, left>>
historyVars == <<calls, last, overlap>>
vars == <<val, lockVars, loggers, pc, callVars, died, historyVars>>

(* A logger as getLogger makes it; one that is not in m_loggers yet is     *)
(* written so too.                                                         *)
Fresh == [level |-> Info, appenders |-> NoAppender]

Init ==
  /\ val = NoDefine
  /\ varLock = None /\ mapLock = None /\ mgrLock = None
  /\ loggers = [n \in Name |-> Fresh]
  /\ pc = [t \in Thread |-> "out"]
  /\ new = [t \in Thread |-> NoDefine]
  /\ todo = [t \in Thread |-> {}]
  /\ logger = [t \in Thread |-> None]
  /\ left = [t \in Thread |-> NoAppender]
  /\ died = FALSE /\ calls = 0
  /\ last = [n \in Name |-> Fresh]
  /\ overlap = FALSE

At(t, place) == pc[t] = place
Goto(t, place) == pc' = [pc EXCEPT ![t] = place]
Set(f, t, x) == [f EXCEPT ![t] = x]

Call(t) == At(t, "out") /\ calls < MaxCall /\ calls' = calls + 1

-----------------------------------------------------------------------------
(* ConfigVar::setValue *)

(* LogDefine::operator== on definitions of one name.  It compares the      *)
(* appenders of one side with themselves.                                  *)
Equal(d, e) == d.level = e.level

Same(v, w) == DOMAIN v = DOMAIN w /\ \A n \in DOMAIN v : Equal(v[n], w[n])

Return(t) == Goto(t, "out") /\ new' = Set(new, t, NoDefine)

CallSetValue(t) ==
  /\ Call(t)
  /\ \E v \in Input : new' = Set(new, t, v)
  /\ Goto(t, "compare")
  /\ UNCHANGED <<val, lockVars, loggers, todo, logger, left, died, last, overlap>>

(* Fault: the lock of the listeners is one that readers share. *)
CompareShared(t) ==
  /\ At(t, "compare")
  /\ IF Same(new[t], val)
     THEN Return(t) /\ UNCHANGED <<varLock, todo, overlap>>
     ELSE /\ varLock' = t
          /\ todo' = Set(todo, t, DOMAIN new[t])
          /\ overlap' = (overlap \/ \E u \in Thread : At(u, "store"))
          /\ Goto(t, "apply") /\ UNCHANGED new
  /\ UNCHANGED <<val, mapLock, mgrLock, loggers, logger, left, died, calls, last>>

(* The first section: return if nothing changes, else call the listener. *)
Compare(t) ==
  /\ At(t, "compare") /\ varLock = None
  /\ IF Same(new[t], val)
     THEN Return(t) /\ UNCHANGED <<varLock, todo, overlap>>
     ELSE /\ varLock' = t
          /\ todo' = Set(todo, t, DOMAIN new[t])
          /\ overlap' = (overlap \/ \E u \in Thread : At(u, "store"))
          /\ Goto(t, "apply") /\ UNCHANGED new
  /\ UNCHANGED <<val, mapLock, mgrLock, loggers, logger, left, died, calls, last>>

(* Fault: the first lock is still held when the second one is taken. *)
ToldKeepsLock(t) ==
  /\ At(t, "retire") /\ todo[t] = {}
  /\ Goto(t, "store")
  /\ UNCHANGED <<val, lockVars, loggers, callVars, died, historyVars>>

(* The listeners have returned and the first lock is gone. *)
Told(t) ==
  /\ At(t, "retire") /\ todo[t] = {}
  /\ varLock' = None
  /\ Goto(t, "store")
  /\ UNCHANGED <<val, mapLock, mgrLock, loggers, callVars, died, historyVars>>

(* The second section. *)
Store(t) ==
  /\ At(t, "store") /\ varLock = None
  /\ val' = new[t]
  /\ Return(t)
  /\ UNCHANGED <<lockVars, loggers, todo, logger, left, died, historyVars>>

-----------------------------------------------------------------------------
(* The listener of LogIniter.  It is called with m_val and the new value.  *)

(* Fault: a StdoutLogAppender is made with -d too. *)
WantedAlways(d) == d.appenders

Muted == IF Daemon THEN Stdout ELSE {}

(* The appenders that are made: with -d there is no StdoutLogAppender. *)
Wanted(d) == [a \in Output |-> IF a \in Muted THEN 0 ELSE d.appenders[a]]

Made(d) == [level |-> d.level, appenders |-> Wanted(d)]

(* A definition that is not new and is the same is passed over. *)
PassOver(t, n) ==
  /\ At(t, "apply") /\ n \in todo[t] \cap DOMAIN val
  /\ Equal(new[t][n], val[n])
  /\ todo' = [todo EXCEPT ![t] = @ \ {n}]
  /\ UNCHANGED <<val, lockVars, loggers, pc, new, logger, left, died, historyVars>>

(* getLogger for a definition that is new. *)
Add(t, n) ==
  /\ At(t, "apply") /\ n \in todo[t] \ DOMAIN val
  /\ mgrLock = None
  /\ todo' = [todo EXCEPT ![t] = @ \ {n}]
  /\ logger' = Set(logger, t, n)
  /\ left' = Set(left, t, Wanted(new[t][n]))
  /\ last' = Set(last, n, Made(new[t][n]))
  /\ Goto(t, "setLevel")
  /\ UNCHANGED <<val, lockVars, loggers, new, died, calls, overlap>>

(* getLogger for one that was changed: what it returns is compared with    *)
(* logger and not assigned to it (`==`), and setLevel is called on null.   *)
Change(t, n) ==
  /\ At(t, "apply") /\ n \in todo[t] \cap DOMAIN val
  /\ ~Equal(new[t][n], val[n])
  /\ mgrLock = None
  /\ died' = TRUE
  /\ UNCHANGED <<val, lockVars, loggers, pc, callVars, historyVars>>

SetLevel(t) ==
  /\ At(t, "setLevel")
  /\ loggers' = [loggers EXCEPT ![logger[t]].level = new[t][logger[t]].level]
  /\ Goto(t, "clear")
  /\ UNCHANGED <<val, lockVars, callVars, died, historyVars>>

ClearAppenders(t) ==
  /\ At(t, "clear")
  /\ loggers' = [loggers EXCEPT ![logger[t]].appenders = NoAppender]
  /\ Goto(t, "addAppender")
  /\ UNCHANGED <<val, lockVars, callVars, died, historyVars>>

AddAppender(t, a) ==
  /\ At(t, "addAppender") /\ left[t][a] > 0
  /\ loggers' = [loggers EXCEPT ![logger[t]].appenders[a] = @ + 1]
  /\ left' = [left EXCEPT ![t][a] = @ - 1]
  /\ UNCHANGED <<val, lockVars, pc, new, todo, logger, died, historyVars>>

Added(t) ==
  /\ At(t, "addAppender") /\ left[t] = NoAppender
  /\ Goto(t, "apply")
  /\ logger' = Set(logger, t, None)
  /\ UNCHANGED <<val, lockVars, loggers, new, todo, left, died, historyVars>>

(* Fault: loggers that are no longer defined stay as they are. *)
GoneNever(t) == {}

Gone(t) == DOMAIN val \ DOMAIN new[t]

(* The second loop is over the old value. *)
AllApplied(t) ==
  /\ At(t, "apply") /\ todo[t] = {}
  /\ todo' = Set(todo, t, Gone(t))
  /\ Goto(t, "retire")
  /\ UNCHANGED <<val, lockVars, loggers, new, logger, left, died, historyVars>>

Retired == [level |-> NotSet, appenders |-> NoAppender]

Retire(t, n) ==
  /\ At(t, "retire") /\ n \in todo[t]
  /\ mgrLock = None
  /\ todo' = [todo EXCEPT ![t] = @ \ {n}]
  /\ logger' = Set(logger, t, n)
  /\ loggers' = [loggers EXCEPT ![n].level = NotSet]
  /\ last' = Set(last, n, Retired)
  /\ Goto(t, "clearRetired")
  /\ UNCHANGED <<val, lockVars, new, left, died, calls, overlap>>

ClearRetired(t) ==
  /\ At(t, "clearRetired")
  /\ loggers' = [loggers EXCEPT ![logger[t]].appenders = NoAppender]
  /\ logger' = Set(logger, t, None)
  /\ Goto(t, "retire")
  /\ UNCHANGED <<val, lockVars, new, todo, left, died, historyVars>>

Listener(t) ==
  \/ \E n \in Name : PassOver(t, n) \/ Add(t, n) \/ Change(t, n) \/ Retire(t, n)
  \/ SetLevel(t) \/ ClearAppenders(t) \/ Added(t) \/ AllApplied(t) \/ ClearRetired(t)
  \/ \E a \in Output : AddAppender(t, a)

-----------------------------------------------------------------------------
(* Calls that take other locks in other orders.                            *)

(* Config::Lookup of "logs" with another type: an error that is reported   *)
(* with toString() of the variable, while the map is locked.               *)
CallLookup(t) ==
  /\ Call(t)
  /\ Goto(t, "lookup")
  /\ UNCHANGED <<val, lockVars, loggers, callVars, died, last, overlap>>

Find(t) ==
  /\ At(t, "lookup") /\ mapLock = None
  /\ mapLock' = t
  /\ Goto(t, "toString")
  /\ UNCHANGED <<val, varLock, mgrLock, loggers, callVars, died, historyVars>>

Mismatch(t) ==
  /\ At(t, "toString") /\ varLock = None
  /\ mapLock' = None
  /\ Goto(t, "out")
  /\ UNCHANGED <<val, varLock, mgrLock, loggers, callVars, died, historyVars>>

(* LoggerManager::toYamlString: each logger in turn. *)
CallToYaml(t) ==
  /\ Call(t) /\ mgrLock = None
  /\ mgrLock' = t
  /\ todo' = Set(todo, t, Name)
  /\ Goto(t, "toYaml")
  /\ UNCHANGED <<val, varLock, mapLock, loggers, new, logger, left, died, last, overlap>>

LoggerToYaml(t, n) ==
  /\ At(t, "toYaml") /\ n \in todo[t]
  /\ todo' = [todo EXCEPT ![t] = @ \ {n}]
  /\ UNCHANGED <<val, lockVars, loggers, pc, new, logger, left, died, historyVars>>

ToYamlReturns(t) ==
  /\ At(t, "toYaml") /\ todo[t] = {}
  /\ mgrLock' = None
  /\ Goto(t, "out")
  /\ UNCHANGED <<val, varLock, mapLock, loggers, callVars, died, historyVars>>

-----------------------------------------------------------------------------
SetValue(t) == Compare(t) \/ Listener(t) \/ Told(t) \/ Store(t)
Lookup(t) == Find(t) \/ Mismatch(t)
ToYaml(t) == (\E n \in Name : LoggerToYaml(t, n)) \/ ToYamlReturns(t)

Step(t) == ~died /\ (SetValue(t) \/ Lookup(t) \/ ToYaml(t))
Begin(t) == ~died /\ (CallSetValue(t) \/ CallLookup(t) \/ CallToYaml(t))

Next == \E t \in Thread : Step(t) \/ Begin(t)

Idle == \A t \in Thread : At(t, "out")

Spec == Init /\ [][Next]_vars

(* A thread in a call is run. *)
FairSpec == Spec /\ \A t \in Thread : WF_vars(Step(t))

-----------------------------------------------------------------------------
(* Properties. *)

LoggerState ==
  {d \in Define : \A a \in Muted : d.appenders[a] = 0}

(* Every variable keeps its type; of a daemon no logger writes to stdout,  *)
(* whatever it is told and by whom.                                        *)
TypeOK ==
  /\ val \in Input \cup {NoDefine}
  /\ loggers \in [Name -> LoggerState] /\ last \in [Name -> LoggerState]
  /\ varLock \in Thread \cup {None} /\ mapLock \in Thread \cup {None}
  /\ mgrLock \in Thread \cup {None}
  /\ pc \in [Thread -> {"out", "compare", "apply", "setLevel", "clear", "addAppender",
                        "retire", "clearRetired", "store", "lookup", "toString", "toYaml"}]
  /\ new \in [Thread -> Input \cup {NoDefine}] /\ todo \in [Thread -> SUBSET Name]
  /\ logger \in [Thread -> Name \cup {None}]
  /\ left \in [Thread -> Appenders]
  /\ died \in BOOLEAN /\ overlap \in BOOLEAN /\ calls \in 0 .. MaxCall

(* When no listener is at work every logger is what the last definition    *)
(* applied to it says, level and appenders alike, whoever called setValue  *)
(* meanwhile: two listeners never mix in one logger, although its mutex is *)
(* let go after each call (log.cpp:697-719).                               *)
Whole == varLock = None /\ ~died => loggers = last

(* The loggers agree with the configuration when nobody is changing it:    *)
(* the defined ones have their level, all others no appender               *)
(* (config.cpp:393-395: the callbacks are told when the value changed).    *)
Applied ==
  Idle /\ ~died =>
    \A n \in Name : IF n \in DOMAIN val THEN loggers[n].level = val[n].level
                                        ELSE loggers[n].appenders = NoAppender

(* The only way to lose that agreement is the window between the two       *)
(* sections of setValue: listeners told of a second value before the first *)
(* one is stored.                                                          *)
AppliedUnlessOverlap == overlap \/ Applied

(* No call waits for ever, although setValue holds the variable's lock     *)
(* while its listener wants that of the LoggerManager, and Lookup wants    *)
(* the variable's while it holds that of the map.                          *)
EveryCallReturns == \A t \in Thread : pc[t] # "out" ~> pc[t] = "out" \/ died
=============================================================================

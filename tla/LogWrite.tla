------------------------------ MODULE LogWrite ------------------------------
(***************************************************************************)
(* Writing a record (log.cpp, log.h): the macros and Logger::log, which    *)
(* walks m_appenders without the mutex under which the list is changed,    *)
(* and FileLogAppender::log, which reopens its file at most every Window.  *)
(*                                                                         *)
(* A step is what runs between two points where another thread can be seen *)
(* or can see: a test or an assignment without a lock, a section with one. *)
(***************************************************************************)
EXTENDS Naturals, Sequences, FiniteSets

CONSTANTS
  Thread,
  Console, File,   \* StdoutLogAppenders and FileLogAppenders
  Level,           \* LogLevel::Level
  Window,          \* the 3 seconds of log.cpp:432
  MaxClock,        \* bound: time(0) stops there
  End              \* end() of the list

ASSUME LogWriteAssumption ==
  /\ Window \in Nat \ {0} /\ MaxClock \in Nat /\ Window <= MaxClock
  /\ Level \subseteq Nat
  /\ Console \cap File = {} /\ End \notin Console \cup File

Appender == Console \cup File

VARIABLES
  clock,      \* time(0)
  level,      \* m_level of the logger
  appenders,  \* m_appenders
  unused,     \* the appenders nobody has constructed yet
  clearing,   \* clearAppenders has freed the nodes and not yet reset the list
  broken,     \* a freed node was used: nothing is known of what follows
  stream,     \* m_filestream: is the file open, is failbit or badbit set
  error,      \* m_reopenError
  lastTime,   \* m_lastTime
  pc, record, at  \* of a thread: where it is, its event, its iterator

list == <<appenders, unused, clearing>>
files == <<stream, error, lastTime>>

(* History: the appenders a walk has done and those that were in the list  *)
(* ever since it began; the files whose last open or write failed; the     *)
(* clock at a file's last reopening.                                       *)
VARIABLES done, through, failing, tried

history == <<done, through, failing, tried>>

None == [level |-> 0, time |-> 0]   \* no event

vars == <<clock, level, list, broken, files, pc, record, at, history>>

Init ==
  /\ clock = Window /\ level \in Level
  /\ appenders = <<>> /\ unused = Appender /\ clearing = FALSE /\ broken = FALSE
  /\ stream = [f \in File |-> [open |-> FALSE, fail |-> FALSE]]
  /\ error = [f \in File |-> FALSE] /\ lastTime = [f \in File |-> 0]
  /\ pc = [t \in Thread |-> "idle"]
  /\ record = [t \in Thread |-> None]
  /\ at = [t \in Thread |-> End]
  /\ done = [t \in Thread |-> {}] /\ through = [t \in Thread |-> {}]
  /\ failing = {} /\ tried = [f \in File |-> 0]

InList(a) == \E k \in DOMAIN appenders : appenders[k] = a
Position(a) ==
  IF a = End THEN Len(appenders) + 1 ELSE CHOOSE k \in DOMAIN appenders : appenders[k] = a

Walking(t) == pc[t] \notin {"idle", "wrap"}

-----------------------------------------------------------------------------
(* A FileLogAppender's stream.                                             *)

(* open(), and what the system says to it; a file that is open already is  *)
(* not opened again.                                                       *)
Opened(s, answer) ==
  IF s.open THEN [s EXCEPT !.fail = TRUE] ELSE [open |-> answer, fail |-> ~answer]

(* Fault: the stream is opened as it is. *)
ReopenedUnclosed(s, answer) == Opened(s, answer)

(* reopen(): a stream that has failed is not closed. *)
Reopened(s, answer) == Opened(IF s.fail THEN s ELSE [s EXCEPT !.open = FALSE], answer)

ReopenFile(f) ==
  \E answer \in BOOLEAN :
    /\ stream' = [stream EXCEPT ![f] = Reopened(@, answer)]
    /\ error' = [error EXCEPT ![f] = stream'[f].fail]
    /\ failing' = IF stream[f].open /\ stream[f].fail THEN failing
                  ELSE IF answer THEN failing \ {f} ELSE failing \cup {f}
    /\ tried' = [tried EXCEPT ![f] = clock]

-----------------------------------------------------------------------------
(* The list, changed by any thread under the logger's mutex.               *)

Changeable == ~broken /\ ~clearing

(* A new appender, its constructor and addAppender. *)
AddAppender(a) ==
  /\ Changeable /\ a \in unused
  /\ unused' = unused \ {a}
  /\ appenders' = Append(appenders, a)
  /\ IF a \in File THEN ReopenFile(a) ELSE UNCHANGED <<stream, error, failing, tried>>
  /\ UNCHANGED <<clock, level, clearing, broken, lastTime, pc, record, at, done, through>>

(* Nodes are freed: a walk that is at one of them is lost. *)
Free(as) ==
  /\ broken' = \E t \in Thread : Walking(t) /\ at[t] \in as
  /\ through' = [t \in Thread |-> through[t] \ as]
  /\ UNCHANGED <<clock, level, unused, files, pc, record, at, done, failing, tried>>

DelAppender(a) ==
  /\ Changeable /\ InList(a)
  /\ appenders' = [k \in 1 .. Len(appenders) - 1 |-> appenders[IF k < Position(a) THEN k ELSE k + 1]]
  /\ Free({a}) /\ UNCHANGED clearing

(* clearAppenders: the list's head leads to what is freed until the list   *)
(* is reset.                                                               *)
ClearAppenders ==
  /\ Changeable /\ appenders # <<>>
  /\ clearing' = TRUE
  /\ Free({a \in Appender : InList(a)}) /\ UNCHANGED appenders

Cleared ==
  /\ clearing /\ ~broken
  /\ clearing' = FALSE /\ appenders' = <<>>
  /\ UNCHANGED <<clock, level, unused, broken, files, pc, record, at, history>>

SetLevel(l) ==
  /\ ~broken /\ level' = l
  /\ UNCHANGED <<clock, list, broken, files, pc, record, at, done, through, failing, tried>>

Tick ==
  /\ ~broken /\ clock < MaxClock /\ clock' = clock + 1
  /\ UNCHANGED <<level, list, broken, files, pc, record, at, history>>

-----------------------------------------------------------------------------
(* A record.                                                               *)

From(t, here) == ~broken /\ pc[t] = here
Goto(t, there) == pc' = [pc EXCEPT ![t] = there]

(* SYLAR_LOG_LEVEL: the event is made if the level lets it. *)
Macro(t, l) ==
  /\ From(t, "idle") /\ level <= l
  /\ record' = [record EXCEPT ![t] = [level |-> l, time |-> clock]]
  /\ Goto(t, "wrap")
  /\ UNCHANGED <<clock, level, list, broken, files, at, done, through, failing, tried>>

(* The event is released. *)
Release(t) ==
  /\ Goto(t, "idle") /\ record' = [record EXCEPT ![t] = None]
  /\ done' = [done EXCEPT ![t] = {}] /\ through' = [through EXCEPT ![t] = {}]
  /\ UNCHANGED <<clock, level, list, broken, files, at, failing, tried>>

Passes(t) == record[t].level <= level

(* ~LogEventWrap calls Logger::log, whose test is the opposite of the        *)
(* macro's.                                                                  *)
Refused(t) == From(t, "wrap") /\ ~Passes(t) /\ Release(t)

Begin(t) ==
  /\ From(t, "wrap") /\ Passes(t) /\ Goto(t, "loop")
  /\ at' = [at EXCEPT ![t] = IF appenders = <<>> THEN End ELSE appenders[1]]
  /\ broken' = (clearing /\ appenders # <<>>)
  /\ through' = [through EXCEPT ![t] = {a \in Appender : InList(a)}]
  /\ UNCHANGED <<clock, level, list, files, record, done, failing, tried>>

Finish(t) == From(t, "loop") /\ at[t] = End /\ Release(t)

After(a) == IF Position(a) = Len(appenders) THEN End ELSE appenders[Position(a) + 1]

(* Fault: a record that is dropped is dropped for the rest of the list. *)
AdvanceUnlessMute(t) ==
  /\ at' = [at EXCEPT ![t] = IF at[t] \in File /\ error[at[t]] THEN End ELSE After(@)]
  /\ done' = [done EXCEPT ![t] = @ \cup {at[t]}]
  /\ Goto(t, "loop")

(* The appender is done and the iterator moves on. *)
Advance(t) ==
  /\ at' = [at EXCEPT ![t] = After(@)]
  /\ done' = [done EXCEPT ![t] = @ \cup {at[t]}]
  /\ Goto(t, "loop")

WriteConsole(t) ==
  /\ From(t, "loop") /\ at[t] \in Console /\ Advance(t)
  /\ UNCHANGED <<clock, level, list, broken, files, record, through, failing, tried>>

Due(t) == record[t].time >= lastTime[at[t]] + Window

TestWindow(t) ==
  /\ From(t, "loop") /\ at[t] \in File
  /\ Goto(t, IF Due(t) THEN "reopen" ELSE "check")
  /\ UNCHANGED <<clock, level, list, broken, files, record, at, history>>

Reopen(t) ==
  /\ From(t, "reopen") /\ ReopenFile(at[t]) /\ Goto(t, "stamp")
  /\ UNCHANGED <<clock, level, list, broken, lastTime, record, at, done, through>>

(* Fault: the clock of now, not that of the event. *)
StampNow(t) ==
  /\ From(t, "stamp") /\ Goto(t, "check")
  /\ lastTime' = [lastTime EXCEPT ![at[t]] = clock]
  /\ UNCHANGED <<clock, level, list, broken, stream, error, record, at, history>>

Stamp(t) ==
  /\ From(t, "stamp") /\ Goto(t, "check")
  /\ lastTime' = [lastTime EXCEPT ![at[t]] = record[t].time]
  /\ UNCHANGED <<clock, level, list, broken, stream, error, record, at, history>>

Drop(t) ==
  /\ From(t, "check") /\ error[at[t]] /\ Advance(t)
  /\ UNCHANGED <<clock, level, list, broken, files, record, through, failing, tried>>

Keep(t) ==
  /\ From(t, "check") /\ ~error[at[t]] /\ Goto(t, "write")
  /\ UNCHANGED <<clock, level, list, broken, files, record, at, history>>

(* Under the appender's mutex; a stream that has failed takes nothing. *)
WriteFile(t) ==
  /\ From(t, "write") /\ Advance(t)
  /\ \E answer \in BOOLEAN :
       LET fails == ~stream[at[t]].fail /\ ~answer
       IN  /\ stream' = [stream EXCEPT ![at[t]].fail = @ \/ fails]
           /\ failing' = IF fails THEN failing \cup {at[t]} ELSE failing
  /\ UNCHANGED <<clock, level, list, broken, error, lastTime, record, through, tried>>

-----------------------------------------------------------------------------
Log(t) ==
  \/ Refused(t) \/ Begin(t) \/ Finish(t) \/ WriteConsole(t)
  \/ TestWindow(t) \/ Reopen(t) \/ Stamp(t) \/ Drop(t) \/ Keep(t) \/ WriteFile(t)

Next ==
  \/ \E t \in Thread : Log(t) \/ \E l \in Level : Macro(t, l)
  \/ \E a \in Appender : AddAppender(a) \/ DelAppender(a)
  \/ ClearAppenders \/ Cleared
  \/ \E l \in Level : SetLevel(l)
  \/ Tick

Spec == Init /\ [][Next]_vars

-----------------------------------------------------------------------------
(* Properties.                                                             *)

(* Every variable of a logger and its appenders keeps its type; a thread   *)
(* that writes to a file is at a file of the list.                         *)
TypeOK ==
  /\ clock \in Nat /\ level \in Level
  /\ appenders \in Seq(Appender) /\ unused \subseteq Appender
  /\ clearing \in BOOLEAN /\ broken \in BOOLEAN
  /\ stream \in [File -> [open : BOOLEAN, fail : BOOLEAN]] /\ error \in [File -> BOOLEAN]
  /\ lastTime \in [File -> Nat] /\ tried \in [File -> Nat] /\ failing \subseteq File
  /\ pc \in [Thread -> {"idle", "wrap", "loop", "reopen", "stamp", "check", "write"}]
  /\ record \in [Thread -> [level : Nat, time : Nat]] /\ at \in [Thread -> Appender \cup {End}]
  /\ done \in [Thread -> SUBSET Appender] /\ through \in [Thread -> SUBSET Appender]
  /\ \A t \in Thread : pc[t] \in {"reopen", "stamp", "check", "write"} => at[t] \in File

(* A walk does every appender that stays in the list once, in its order,   *)
(* whatever is added and removed meanwhile (log.cpp:506): unless an        *)
(* appender goes while the walk is at it.                                  *)
VisitsEach ==
  \A t \in Thread : Walking(t) /\ ~broken =>
    /\ at[t] # End => InList(at[t]) /\ at[t] \notin done[t]
    /\ \A a \in through[t] : InList(a) /\ (a \in done[t] <=> Position(a) < Position(at[t]))

(* A record is dropped only while the last open or write of the file has   *)
(* failed; one that finds the file in order finds it open.                 *)
DroppedOnlyInFault ==
  \A f \in File \ unused :
    /\ stream[f].fail \/ error[f] => f \in failing
    /\ stream[f].open \/ stream[f].fail

(* A record goes to the file of that name, not to one that was moved away  *)
(* Window or more before the record was made: there was a reopening since, *)
(* whoever did it (log.cpp:427-438).                                       *)
FreshFile ==
  \A t \in Thread :
    pc[t] \in {"check", "write"} => record[t].time < tried[at[t]] + Window

(* A stream whose write has failed is neither closed nor opened again: the *)
(* reopening that log.cpp:427-429 promises never gives it back.            *)
Mute(f) == stream[f].open /\ stream[f].fail
StaysMuteStep == [][\A f \in File : Mute(f) => Mute(f)']_vars
=============================================================================

----------------------------- MODULE ConfigVar -----------------------------
(***************************************************************************)
(* ConfigVar<T> (config/config.cpp): a value, and the listeners that       *)
(* setValue() tells of a new one.  Each variable has a mutex of its own,   *)
(* but addListener() takes its ids from one s_fun_id, a static that all    *)
(* variables of a type share.                                              *)
(*                                                                         *)
(* Both kinds of lock of an RWMutex are exclusive (mutex.h:72-80), so a    *)
(* section under m_mutex is one step, except where it reads or writes      *)
(* s_fun_id or calls a listener.                                           *)
(***************************************************************************)
EXTENDS Naturals

CONSTANTS
  Thread,
  Var,        \* the variables of one type
  Listener,   \* the callbacks; each is added once
  Value,
  MaxStore,   \* bound: how often values are stored
  None        \* no thread; nothing heard

ASSUME ConfigVarAssumption ==
  /\ None \notin Thread \cup Value /\ MaxStore \in Nat

VARIABLES
  val, cbs,  \* m_val; m_cbs, a function from ids to listeners
  lock,      \* the thread that holds m_mutex
  funId,     \* s_fun_id
  call,      \* of a thread: where it is, and its arguments and locals
  unused,    \* callbacks nobody has added yet
  stores     \* values stored so far

(* History: the pairs of id and callback that addListener() has returned   *)
(* and nobody has removed; what each callback has heard last; whether two  *)
(* addListener() have ever run at a time; the variables of which two       *)
(* setValue() ran at a time, or to which a callback was added between the  *)
(* two sections of one.                                                    *)
VARIABLES given, heard, raced, overlap

config == <<val, cbs, lock, funId>>
history == <<given, heard, raced, overlap>>
vars == <<config, call, unused, stores, history>>

Out == [at |-> "out"]

Init ==
  /\ val \in [Var -> Value] /\ cbs = [v \in Var |-> <<>>] /\ lock = [v \in Var |-> None]
  /\ funId = 0 /\ call = [t \in Thread |-> Out]
  /\ unused = Listener /\ stores = 0
  /\ given = [v \in Var |-> {}] /\ heard = [l \in Listener |-> None]
  /\ raced = FALSE /\ overlap = {}

Free(v) == lock[v] = None
At(t, where) == call[t].at = where
Goes(t, there) == call' = [call EXCEPT ![t] = there]
Unlock(v) == lock' = [lock EXCEPT ![v] = None]

(* Between the two sections of setValue(v). *)
Storing(v) == \E t \in Thread : At(t, "store") /\ call[t].var = v
Adding == {t \in Thread : call[t].at \in {"written", "inserted", "read"}}

-----------------------------------------------------------------------------
(* addListener: `++s_fun_id; m_cbs[s_fun_id] = cb; return s_fun_id;'.  The *)
(* two uses of s_fun_id may be what was written or read it again.          *)

(* Fault: s_fun_id is read before m_mutex is held. *)
AddReadUnlocked(t, v, l) ==
  /\ At(t, "out") /\ l \in unused
  /\ Goes(t, [at |-> "read", var |-> v, adds |-> l, id |-> funId])
  /\ unused' = unused \ {l}
  /\ UNCHANGED <<config, stores, given, heard, raced, overlap>>

AddRead(t, v, l) ==
  /\ At(t, "out") /\ Free(v) /\ l \in unused
  /\ lock' = [lock EXCEPT ![v] = t]
  /\ Goes(t, [at |-> "read", var |-> v, adds |-> l, id |-> funId])
  /\ unused' = unused \ {l}
  /\ raced' = (raced \/ Adding # {})
  /\ UNCHANGED <<val, cbs, funId, stores, given, heard, overlap>>

(* Fault: the id is not counted up. *)
AddWriteSame(t) ==
  /\ At(t, "read")
  /\ Goes(t, [call[t] EXCEPT !.at = "written"])
  /\ UNCHANGED <<config, unused, stores, history>>

AddWrite(t) ==
  /\ At(t, "read")
  /\ funId' = call[t].id + 1
  /\ Goes(t, [call[t] EXCEPT !.at = "written", !.id = @ + 1])
  /\ UNCHANGED <<val, cbs, lock, unused, stores, history>>

Put(f, i, l) == [k \in DOMAIN f \cup {i} |-> IF k = i THEN l ELSE f[k]]

(* Fault: everything from the key on is erased. *)
WithoutFrom(f, i) == [k \in {j \in DOMAIN f : j < i} |-> f[k]]

Without(f, i) == [k \in DOMAIN f \ {i} |-> f[k]]

AddInsert(t) ==
  /\ At(t, "written")
  /\ LET v == call[t].var
     IN  /\ \E i \in {call[t].id, funId} :
              /\ cbs' = [cbs EXCEPT ![v] = Put(@, i, call[t].adds)]
              /\ Goes(t, [call[t] EXCEPT !.at = "inserted", !.id = i])
         /\ heard' = [heard EXCEPT ![call[t].adds] = val[v]]
         /\ overlap' = IF Storing(v) THEN overlap \cup {v} ELSE overlap
  /\ UNCHANGED <<val, lock, funId, unused, stores, given, raced>>

(* Fault: s_fun_id as it was before. *)
AddReturnOld(t) ==
  /\ At(t, "inserted")
  /\ given' = [given EXCEPT ![call[t].var] = @ \cup {<<call[t].id - 1, call[t].adds>>}]
  /\ Unlock(call[t].var) /\ Goes(t, Out)
  /\ UNCHANGED <<val, cbs, funId, unused, stores, heard, raced, overlap>>

AddReturn(t) ==
  /\ At(t, "inserted")
  /\ \E i \in {call[t].id, funId} :
       given' = [given EXCEPT ![call[t].var] = @ \cup {<<i, call[t].adds>>}]
  /\ Unlock(call[t].var) /\ Goes(t, Out)
  /\ UNCHANGED <<val, cbs, funId, unused, stores, heard, raced, overlap>>

-----------------------------------------------------------------------------
(* delListener, by a thread that knows the id; clearListener.              *)

(* Fault: without m_mutex. *)
DelListenerUnlocked(t, v, g) ==
  /\ At(t, "out") /\ g \in given[v]
  /\ cbs' = [cbs EXCEPT ![v] = Without(@, g[1])]
  /\ given' = [given EXCEPT ![v] = @ \ {g}]
  /\ UNCHANGED <<val, lock, funId, call, unused, stores, heard, raced, overlap>>

DelListener(t, v, g) ==
  /\ At(t, "out") /\ Free(v) /\ g \in given[v]
  /\ cbs' = [cbs EXCEPT ![v] = Without(@, g[1])]
  /\ given' = [given EXCEPT ![v] = @ \ {g}]
  /\ UNCHANGED <<val, lock, funId, call, unused, stores, heard, raced, overlap>>

ClearListener(t, v) ==
  /\ At(t, "out") /\ Free(v)
  /\ cbs' = [cbs EXCEPT ![v] = <<>>]
  /\ given' = [given EXCEPT ![v] = {}]
  /\ UNCHANGED <<val, lock, funId, call, unused, stores, heard, raced, overlap>>

-----------------------------------------------------------------------------
(* setValue: if the value is another, tells the listeners in the order of  *)
(* their ids, in one section, and stores it in a second.                   *)
SetValue(t, v, x) ==
  /\ At(t, "out") /\ Free(v) /\ x # val[v] /\ stores < MaxStore
  /\ lock' = [lock EXCEPT ![v] = t]
  /\ Goes(t, [at |-> "tell", var |-> v, new |-> x, todo |-> DOMAIN cbs[v]])
  /\ stores' = stores + 1
  /\ overlap' = IF Storing(v) THEN overlap \cup {v} ELSE overlap
  /\ UNCHANGED <<val, cbs, funId, unused, given, heard, raced>>

(* Fault: the first of the listeners only. *)
TellOne(t) ==
  /\ At(t, "tell") /\ call[t].todo # {}
  /\ LET i == CHOOSE j \in call[t].todo : \A k \in call[t].todo : j <= k
     IN  /\ heard' = [heard EXCEPT ![cbs[call[t].var][i]] = call[t].new]
         /\ Goes(t, [call[t] EXCEPT !.todo = {}])
  /\ UNCHANGED <<config, unused, stores, given, raced, overlap>>

Tell(t) ==
  /\ At(t, "tell") /\ call[t].todo # {}
  /\ LET i == CHOOSE j \in call[t].todo : \A k \in call[t].todo : j <= k
     IN  /\ heard' = [heard EXCEPT ![cbs[call[t].var][i]] = call[t].new]
         /\ Goes(t, [call[t] EXCEPT !.todo = @ \ {i}])
  /\ UNCHANGED <<config, unused, stores, given, raced, overlap>>

AllTold(t) ==
  /\ At(t, "tell") /\ call[t].todo = {}
  /\ Unlock(call[t].var)
  /\ Goes(t, [at |-> "store", var |-> call[t].var, new |-> call[t].new])
  /\ UNCHANGED <<val, cbs, funId, unused, stores, history>>

Store(t) ==
  /\ At(t, "store") /\ Free(call[t].var)
  /\ val' = [val EXCEPT ![call[t].var] = call[t].new]
  /\ Goes(t, Out)
  /\ UNCHANGED <<cbs, lock, funId, unused, stores, history>>

-----------------------------------------------------------------------------
Goon(t) == AddWrite(t) \/ AddInsert(t) \/ AddReturn(t) \/ Tell(t) \/ AllTold(t) \/ Store(t)

Next ==
  \E t \in Thread :
    \/ Goon(t)
    \/ \E v \in Var :
         \/ \E l \in Listener : AddRead(t, v, l) \/ \E g \in given[v] : DelListener(t, v, g)
         \/ ClearListener(t, v)
         \/ \E x \in Value : SetValue(t, v, x)

Spec == Init /\ [][Next]_vars

-----------------------------------------------------------------------------
(* Properties.                                                             *)

Calls ==
  {Out}
    \cup [at : {"read", "written", "inserted"}, var : Var, adds : Listener, id : Nat]
    \cup [at : {"tell"}, var : Var, new : Value, todo : SUBSET Nat]
    \cup [at : {"store"}, var : Var, new : Value]

Inside(t, v) == call[t].at \notin {"out", "store"} /\ call[t].var = v

(* The variables and the calls keep their types, and one thread at a time  *)
(* is in a section of a variable: the one its m_mutex is held by.          *)
TypeOK ==
  /\ val \in [Var -> Value] /\ lock \in [Var -> Thread \cup {None}] /\ funId \in Nat
  /\ DOMAIN cbs = Var
  /\ \A v \in Var : DOMAIN cbs[v] \subseteq Nat /\ \A i \in DOMAIN cbs[v] : cbs[v][i] \in Listener
  /\ call \in [Thread -> Calls] /\ unused \subseteq Listener /\ stores \in 0 .. MaxStore
  /\ given \in [Var -> SUBSET (Nat \X Listener)]
  /\ heard \in [Listener -> Value \cup {None}] /\ raced \in BOOLEAN /\ overlap \subseteq Var
  /\ \A t \in Thread, v \in Var : Inside(t, v) <=> lock[v] = t

(* A variable has the listeners that were added and not removed, under the *)
(* ids that addListener() returned for them, and no id is given out twice, *)
(* as its comment says (config.cpp:417-418): unless two addListener(), of  *)
(* different variables, ran at a time.                                     *)
UniqueIds ==
  \A v, w \in Var : \A g \in given[v], h \in given[w] : g[1] = h[1] => v = w /\ g = h

Settled(v) == \A t \in Adding : call[t].var # v

KeepsListeners ==
  ~raced => /\ UniqueIds
            /\ \A v \in Var :
                 Settled(v) => {<<i, cbs[v][i]>> : i \in DOMAIN cbs[v]} = given[v]

(* What a listener heard last is the value of its variable, whatever other *)
(* threads set, add and remove, once the value told is stored; unless      *)
(* another setValue() or addListener() came between the two sections of    *)
(* one (config.cpp:397-409).                                               *)
HeardIsValue ==
  \A v \in Var :
    Free(v) /\ ~Storing(v) /\ v \notin overlap => \A g \in given[v] : raced \/ heard[g[2]] = val[v]

(* The listeners of a variable do not change while they are told, though a *)
(* listener may run for long: the iterator of setValue() stays good.       *)
TellingKeepsListenersStep ==
  [][\A t \in Thread : At(t, "tell") => cbs'[call[t].var] = cbs[call[t].var]]_vars
=============================================================================

--------------------------- MODULE ConfigVarProofs ---------------------------
(***************************************************************************)
(* For any threads, variables, listeners and values: ids and listeners are *)
(* kept unless two addListener() raced, what a listener has heard is the   *)
(* value, and a list that is told does not change.                         *)
(***************************************************************************)
EXTENDS ConfigVar, WellFoundedInduction, TLAPS

-----------------------------------------------------------------------------
(* The inductive invariant.                                                *)

Adds(t)        == call[t].at \in {"read", "written", "inserted"}
Inserted(t, v) == At(t, "inserted") /\ call[t].var = v
Tells(t, v)    == At(t, "tell") /\ call[t].var = v
Stores(t, v)   == At(t, "store") /\ call[t].var = v
Sets(t, v)     == Tells(t, v) \/ Stores(t, v)

(* Who is yet to be told is on the list. *)
TodoListed == \A t \in Thread, v \in Var : Tells(t, v) => call[t].todo \subseteq DOMAIN cbs[v]

(* A callback is used once: nobody has added it yet, or one addListener()  *)
(* has it, or it was given out under one id of one variable.               *)
UsedOnce ==
  /\ \A l \in unused : (\A v \in Var : \A g \in given[v] : g[2] # l)
                       /\ \A t \in Thread : Adds(t) => call[t].adds # l
  /\ \A t \in Thread : Adds(t) => \A v \in Var : \A g \in given[v] : g[2] # call[t].adds
  /\ \A t, u \in Thread : Adds(t) /\ Adds(u) /\ call[t].adds = call[u].adds => t = u
  /\ \A v, w \in Var : \A g \in given[v], h \in given[w] : g[2] = h[2] => v = w /\ g = h

(* Ids go up with s_fun_id, and the newest is that of the call under way.  *)
Drawn ==
  ~raced =>
    /\ \A t, u \in Thread : Adds(t) /\ Adds(u) => t = u
    /\ \A t \in Thread : Adds(t) => call[t].id = funId
    /\ \A v \in Var : \A g \in given[v] :
         /\ g[1] <= funId
         /\ \A t \in Thread : At(t, "written") \/ At(t, "inserted") => g[1] # funId
    /\ UniqueIds

(* What is listed is what was given out, and what is about to be. *)
Listed ==
  ~raced =>
    \A v \in Var, i \in Nat, l \in Listener :
      (i \in DOMAIN cbs[v] /\ cbs[v][i] = l)
        <=> <<i, l>> \in given[v]
            \/ \E t \in Thread : Inserted(t, v) /\ call[t].id = i /\ call[t].adds = l

(* Where setValue() is, as long as nobody came between its sections.       *)
Told ==
  ~raced => \A v \in Var \ overlap :
    /\ \A t, u \in Thread : Sets(t, v) /\ Sets(u, v) => t = u
    /\ \A i \in DOMAIN cbs[v] :
         /\ (\A t \in Thread : ~Sets(t, v)) => heard[cbs[v][i]] = val[v]
         /\ \A t \in Thread :
              /\ Stores(t, v) => heard[cbs[v][i]] = call[t].new
              /\ Tells(t, v) /\ i \notin call[t].todo => heard[cbs[v][i]] = call[t].new

Inv == TypeOK /\ TodoListed /\ UsedOnce /\ Drawn /\ Listed /\ Told

-----------------------------------------------------------------------------
Places == {"out", "read", "written", "inserted", "tell", "store"}

LEMMA CallFields ==
  ASSUME NEW r \in Calls
  PROVE  /\ r.at \in Places
         /\ r.at \in {"read", "written", "inserted"} => r.var \in Var /\ r.adds \in Listener /\ r.id \in Nat
         /\ r.at = "tell" => r.var \in Var /\ r.new \in Value /\ r.todo \in SUBSET Nat
         /\ r.at = "store" => r.var \in Var /\ r.new \in Value
  BY DEF Calls, Out, Places

(* The call of one thread changes. *)
LEMMA Moves ==
  ASSUME call \in [Thread -> Calls], NEW t \in Thread, NEW r \in Calls, Goes(t, r)
  PROVE  /\ call' \in [Thread -> Calls] /\ call'[t] = r
         /\ \A u \in Thread : u # t => call'[u] = call[u]
  BY DEF Goes

Types ==
  /\ val \in [Var -> Value] /\ lock \in [Var -> Thread \cup {None}] /\ funId \in Nat
  /\ DOMAIN cbs = Var
  /\ \A v \in Var : DOMAIN cbs[v] \subseteq Nat /\ \A i \in DOMAIN cbs[v] : cbs[v][i] \in Listener
  /\ unused \subseteq Listener /\ stores \in 0 .. MaxStore
  /\ given \in [Var -> SUBSET (Nat \X Listener)]
  /\ heard \in [Listener -> Value \cup {None}] /\ raced \in BOOLEAN /\ overlap \subseteq Var

Exclusive == \A t \in Thread, v \in Var : Inside(t, v) <=> lock[v] = t

LEMMA TypeParts == TypeOK <=> Types /\ call \in [Thread -> Calls] /\ Exclusive
  BY DEF TypeOK, Types, Exclusive

LEMMA TypePartsNext == TypeOK' <=> Types' /\ call' \in [Thread -> Calls] /\ Exclusive'
  BY DEF TypeOK, Types, Exclusive

LEMMA InThread ==
  ASSUME Inv, NEW t \in Thread
  PROVE  /\ Types /\ Exclusive /\ call \in [Thread -> Calls]
         /\ call[t] \in Calls /\ call[t].at \in Places
         /\ Adds(t) => call[t].var \in Var /\ call[t].adds \in Listener /\ call[t].id \in Nat
         /\ At(t, "tell") => call[t].var \in Var /\ call[t].new \in Value /\ call[t].todo \in SUBSET Nat
         /\ At(t, "store") => call[t].var \in Var /\ call[t].new \in Value
<1>1. Types /\ Exclusive /\ call \in [Thread -> Calls] /\ call[t] \in Calls
  BY TypeParts DEF Inv
<1>2. QED
  BY <1>1, CallFields DEF Adds, At

(* Nobody is in a section of a variable that is free. *)
LEMMA FreeMeans ==
  ASSUME Inv, NEW v \in Var, Free(v), NEW t \in Thread
  PROVE  ~Inside(t, v) /\ ~Tells(t, v) /\ ~Inserted(t, v)
<1>1. lock[v] # t
  BY ConfigVarAssumption DEF Free
<1>2. ~Inside(t, v)
  BY <1>1, InThread DEF Exclusive
<1>3. QED
  BY <1>2 DEF Inside, Tells, Inserted, At

(* What is listed has been given out, or is about to be. *)
LEMMA OnList ==
  ASSUME Inv, ~raced, NEW v \in Var, NEW i \in DOMAIN cbs[v]
  PROVE  \/ <<i, cbs[v][i]>> \in given[v]
         \/ \E t \in Thread : Inserted(t, v) /\ call[t].id = i /\ call[t].adds = cbs[v][i]
<1>1. Types
  BY TypeParts DEF Inv
<1>2. i \in Nat /\ cbs[v][i] \in Listener
  BY <1>1 DEF Types
<1>3. QED
  BY <1>2 DEF Inv, Listed

(* A callback that one addListener() has not inserted yet is on no list. *)
LEMMA NotListed ==
  ASSUME Inv, ~raced, NEW t \in Thread, Adds(t), ~At(t, "inserted"), NEW v \in Var, NEW i \in DOMAIN cbs[v]
  PROVE  cbs[v][i] # call[t].adds
<1> SUFFICES ASSUME cbs[v][i] = call[t].adds PROVE FALSE
  OBVIOUS
<1>1. CASE <<i, cbs[v][i]>> \in given[v]
  BY <1>1 DEF Inv, UsedOnce
<1>2. CASE \E u \in Thread : Inserted(u, v) /\ call[u].adds = cbs[v][i]
  <2>1. PICK u \in Thread : Inserted(u, v) /\ call[u].adds = cbs[v][i]
    BY <1>2
  <2>2. Adds(u) /\ u # t
    BY <2>1 DEF Inserted, Adds, At
  <2>3. QED
    BY <2>1, <2>2 DEF Inv, UsedOnce
<1>3. QED
  BY <1>1, <1>2, OnList

(* A callback is on one list. *)
LEMMA OneList ==
  ASSUME Inv, ~raced, NEW v \in Var, NEW w \in Var, NEW i \in DOMAIN cbs[v], NEW j \in DOMAIN cbs[w],
         cbs[v][i] = cbs[w][j]
  PROVE  v = w
<1>1. CASE <<i, cbs[v][i]>> \in given[v] /\ <<j, cbs[w][j]>> \in given[w]
  BY <1>1 DEF Inv, UsedOnce
<1>2. ASSUME NEW t \in Thread, Inserted(t, v), call[t].adds = cbs[v][i] PROVE v = w
  <2>1. Adds(t)
    BY <1>2 DEF Inserted, Adds, At
  <2>2. <<j, cbs[w][j]>> \notin given[w]
    BY <1>2, <2>1 DEF Inv, UsedOnce
  <2>3. PICK u \in Thread : Inserted(u, w)
    BY <2>2, OnList
  <2>4. Adds(u)
    BY <2>3 DEF Inserted, Adds, At
  <2>5. u = t
    BY <2>1, <2>4 DEF Inv, Drawn
  <2>6. QED
    BY <1>2, <2>3, <2>5 DEF Inserted
<1>3. ASSUME NEW t \in Thread, Inserted(t, w), call[t].adds = cbs[w][j] PROVE v = w
  <2>1. Adds(t)
    BY <1>3 DEF Inserted, Adds, At
  <2>2. <<i, cbs[v][i]>> \notin given[v]
    BY <1>3, <2>1 DEF Inv, UsedOnce
  <2>3. PICK u \in Thread : Inserted(u, v)
    BY <2>2, OnList
  <2>4. Adds(u)
    BY <2>3 DEF Inserted, Adds, At
  <2>5. u = t
    BY <2>1, <2>4 DEF Inv, Drawn
  <2>6. QED
    BY <1>3, <2>3, <2>5 DEF Inserted
<1>4. QED
  BY <1>1, <1>2, <1>3, OnList

-----------------------------------------------------------------------------
(* addListener().                                                          *)

LEMMA AddReadKeeps ==
  ASSUME Inv, NEW t \in Thread, NEW v \in Var, NEW l \in Listener, AddRead(t, v, l)
  PROVE  Inv'
<1> DEFINE r == [at |-> "read", var |-> v, adds |-> l, id |-> funId]
<1>1. /\ Types /\ Exclusive /\ call \in [Thread -> Calls]
  BY InThread
<1>2. /\ At(t, "out") /\ Free(v) /\ l \in unused /\ lock' = [lock EXCEPT ![v] = t]
      /\ Goes(t, r) /\ unused' = unused \ {l} /\ raced' = (raced \/ Adding # {})
      /\ val' = val /\ cbs' = cbs /\ funId' = funId /\ stores' = stores /\ given' = given
      /\ heard' = heard /\ overlap' = overlap
  BY DEF AddRead
<1>3. r \in Calls /\ r.at = "read" /\ r.var = v /\ r.adds = l /\ r.id = funId
  BY <1>1 DEF Calls, Types
<1> HIDE DEF r
<1>4. /\ call' \in [Thread -> Calls] /\ call'[t] = r
      /\ \A u \in Thread : u # t => call'[u] = call[u]
  BY <1>1, <1>2, <1>3, Moves
<1>5. Types'
  BY <1>1, <1>2 DEF Types
<1>6. Exclusive'
  <2>1. \A u \in Thread : ~Inside(u, v)
    BY <1>2, FreeMeans
  <2>2. /\ lock'[v] = t
        /\ \A w \in Var : w # v => lock'[w] = lock[w]
        /\ \A w \in Var : lock[w] # t
    <3>1. \A w \in Var : ~Inside(t, w)
      BY <1>2 DEF Inside, At
    <3>2. QED
      BY <3>1, <1>1, <1>2 DEF Types, Exclusive
  <2>3. QED
    BY <1>1, <1>3, <1>4, <2>1, <2>2 DEF Exclusive, Inside
<1>7. TodoListed'
  BY <1>2, <1>3, <1>4 DEF Inv, TodoListed, Tells, At
<1>8. ~Adds(t) /\ \A u \in Thread : u # t => (Adds(u)' <=> Adds(u))
  BY <1>2, <1>4 DEF Adds, At
<1>9. UsedOnce'
  <2>1. \A u \in Thread : Adds(u) => call[u].adds # l
    BY <1>2 DEF Inv, UsedOnce
  <2>2. \A w \in Var : \A g \in given[w] : g[2] # l
    BY <1>2 DEF Inv, UsedOnce
  <2>3. QED
    BY <1>2, <1>3, <1>4, <1>8, <2>1, <2>2 DEF Inv, UsedOnce
<1>10. ASSUME ~raced' PROVE ~raced /\ \A u \in Thread : ~Adds(u)
  BY <1>10, <1>2 DEF Adding, Adds
<1>11. Drawn'
  <2> SUFFICES ASSUME ~raced'
               PROVE  /\ \A x, u \in Thread : Adds(x)' /\ Adds(u)' => x = u
                      /\ \A u \in Thread : Adds(u)' => call'[u].id = funId'
                      /\ \A w \in Var : \A g \in given'[w] :
                           /\ g[1] <= funId'
                           /\ \A u \in Thread : At(u, "written")' \/ At(u, "inserted")' => g[1] # funId'
                      /\ UniqueIds'
    BY DEF Drawn
  <2>1. UniqueIds'
    BY <1>2, <1>10 DEF Inv, Drawn, UniqueIds
  <2>2. \A u \in Thread : ~At(u, "written")' /\ ~At(u, "inserted")'
    BY <1>3, <1>4, <1>10 DEF Adds, At
  <2>3. QED
    BY <1>2, <1>3, <1>4, <1>8, <1>10, <2>1, <2>2 DEF Inv, Drawn
<1>12. \A u \in Thread, w \in Var : (Inserted(u, w)' <=> Inserted(u, w)) /\ (Tells(u, w)' <=> Tells(u, w))
                                    /\ (Stores(u, w)' <=> Stores(u, w))
  BY <1>2, <1>3, <1>4 DEF Inserted, Tells, Stores, At
<1>13. \A u \in Thread, w \in Var : Inserted(u, w) \/ Tells(u, w) \/ Stores(u, w) => u # t
  BY <1>2 DEF Inserted, Tells, Stores, At
<1>14. Listed'
  <2> SUFFICES ASSUME ~raced', NEW w \in Var, NEW i \in Nat, NEW m \in Listener
               PROVE  (i \in DOMAIN cbs'[w] /\ cbs'[w][i] = m)
                        <=> <<i, m>> \in given'[w]
                            \/ \E u \in Thread : Inserted(u, w)' /\ call'[u].id = i /\ call'[u].adds = m
    BY DEF Listed
  <2>1. \A u \in Thread : ~Inserted(u, w)
    BY <1>10 DEF Inserted, Adds, At
  <2>2. (i \in DOMAIN cbs[w] /\ cbs[w][i] = m) <=> <<i, m>> \in given[w]
    BY <2>1, <1>10 DEF Inv, Listed
  <2>3. QED
    BY <2>1, <2>2, <1>2, <1>12
<1>15. Told'
  BY <1>2, <1>4, <1>10, <1>12, <1>13 DEF Inv, Told, Sets
<1>16. QED
  BY <1>4, <1>5, <1>6, <1>7, <1>9, <1>11, <1>14, <1>15, TypePartsNext DEF Inv

AddCalls == [at : {"read", "written", "inserted"}, var : Var, adds : Listener, id : Nat]

LEMMA AddShape ==
  ASSUME Inv, NEW t \in Thread, Adds(t)
  PROVE  call[t] \in AddCalls /\ AddCalls \subseteq Calls
  BY InThread DEF Adds, Calls, Out, AddCalls

(* A step from one line of addListener() to the next. *)
LEMMA StaysAdding ==
  ASSUME Inv, NEW t \in Thread, Adds(t), NEW r \in AddCalls,
         r.var = call[t].var, r.adds = call[t].adds, Goes(t, r),
         lock' = lock, given' = given, unused' = unused
  PROVE  /\ call' \in [Thread -> Calls] /\ call'[t] = r
         /\ \A u \in Thread : u # t => call'[u] = call[u]
         /\ Exclusive' /\ UsedOnce'
         /\ \A u \in Thread : (Adds(u)' <=> Adds(u)) /\ (Adds(u) => call'[u].adds = call[u].adds)
         /\ \A u \in Thread, w \in Var :
              /\ (Tells(u, w)' <=> Tells(u, w)) /\ (Stores(u, w)' <=> Stores(u, w))
              /\ Tells(u, w) \/ Stores(u, w) => call'[u] = call[u]
<1>1. call \in [Thread -> Calls] /\ Exclusive
  BY InThread
<1>2. r \in Calls /\ r.at \in {"read", "written", "inserted"}
  BY DEF Calls, AddCalls
<1>3. /\ call' \in [Thread -> Calls] /\ call'[t] = r
      /\ \A u \in Thread : u # t => call'[u] = call[u]
  BY <1>1, <1>2, Moves
<1>4. Exclusive'
  <2>1. \A u \in Thread, w \in Var : Inside(u, w)' <=> Inside(u, w)
    BY <1>2, <1>3 DEF Inside, Adds
  <2>2. QED
    BY <1>1, <2>1 DEF Exclusive
<1>5. \A u \in Thread : (Adds(u)' <=> Adds(u)) /\ (Adds(u) => call'[u].adds = call[u].adds)
  BY <1>2, <1>3 DEF Adds
<1>6. UsedOnce'
  BY <1>5 DEF Inv, UsedOnce
<1>7. \A u \in Thread, w \in Var :
        /\ (Tells(u, w)' <=> Tells(u, w)) /\ (Stores(u, w)' <=> Stores(u, w))
        /\ Tells(u, w) \/ Stores(u, w) => call'[u] = call[u]
  BY <1>2, <1>3 DEF Tells, Stores, At, Adds
<1>8. QED
  BY <1>3, <1>4, <1>5, <1>6, <1>7

LEMMA AddWriteKeeps ==
  ASSUME Inv, NEW t \in Thread, AddWrite(t)
  PROVE  Inv'
<1> DEFINE r == [call[t] EXCEPT !.at = "written", !.id = call[t].id + 1]
<1>1. /\ At(t, "read") /\ funId' = call[t].id + 1 /\ Goes(t, r)
      /\ val' = val /\ cbs' = cbs /\ lock' = lock /\ unused' = unused /\ stores' = stores
      /\ given' = given /\ heard' = heard /\ raced' = raced /\ overlap' = overlap
  BY DEF AddWrite, history
<1>2. Adds(t)
  BY <1>1 DEF Adds, At
<1>3. Types /\ call[t].id \in Nat /\ call[t] \in AddCalls
  BY <1>2, InThread, AddShape
<1>4. r \in AddCalls /\ r.at = "written" /\ r.var = call[t].var /\ r.adds = call[t].adds /\ r.id = call[t].id + 1
  <2> DEFINE n == call[t].id + 1
  <2>1. n \in Nat
    BY <1>3
  <2> HIDE DEF n
  <2>2. QED
    BY <1>3, <2>1 DEF AddCalls, n
<1> HIDE DEF r
<1>5. /\ call' \in [Thread -> Calls] /\ call'[t] = r
      /\ \A u \in Thread : u # t => call'[u] = call[u]
      /\ Exclusive' /\ UsedOnce'
      /\ \A u \in Thread : (Adds(u)' <=> Adds(u)) /\ (Adds(u) => call'[u].adds = call[u].adds)
      /\ \A u \in Thread, w \in Var :
           /\ (Tells(u, w)' <=> Tells(u, w)) /\ (Stores(u, w)' <=> Stores(u, w))
           /\ Tells(u, w) \/ Stores(u, w) => call'[u] = call[u]
  BY <1>1, <1>2, <1>4, StaysAdding
<1>6. Types'
  BY <1>1, <1>3 DEF Types
<1>7. TodoListed'
  BY <1>1, <1>5 DEF Inv, TodoListed, Tells
<1>8. ASSUME ~raced PROVE \A u \in Thread : u # t => ~Adds(u)
  BY <1>2, <1>8 DEF Inv, Drawn
<1>9. Drawn'
  <2> SUFFICES ASSUME ~raced
               PROVE  /\ \A x, u \in Thread : Adds(x)' /\ Adds(u)' => x = u
                      /\ \A u \in Thread : Adds(u)' => call'[u].id = funId'
                      /\ \A w \in Var : \A g \in given'[w] :
                           /\ g[1] <= funId'
                           /\ \A u \in Thread : At(u, "written")' \/ At(u, "inserted")' => g[1] # funId'
                      /\ UniqueIds'
    BY <1>1 DEF Drawn
  <2>1. UniqueIds'
    BY <1>1 DEF Inv, Drawn, UniqueIds
  <2>2. ASSUME NEW w \in Var, NEW g \in given[w] PROVE g[1] <= funId' /\ g[1] # funId'
    <3>1. g[1] \in Nat /\ g[1] <= call[t].id
      BY <1>2, <1>3 DEF Inv, Drawn, Types
    <3>2. QED
      BY <3>1, <1>1, <1>3
  <2>3. QED
    BY <1>1, <1>4, <1>5, <1>8, <2>1, <2>2
<1>10. \A u \in Thread, w \in Var : (Inserted(u, w)' <=> Inserted(u, w)) /\ (Inserted(u, w) => call'[u] = call[u])
  BY <1>1, <1>4, <1>5 DEF Inserted, At
<1>11. Listed'
  <2> SUFFICES ASSUME ~raced', NEW w \in Var, NEW i \in Nat, NEW m \in Listener
               PROVE  (i \in DOMAIN cbs'[w] /\ cbs'[w][i] = m)
                        <=> <<i, m>> \in given'[w]
                            \/ \E u \in Thread : Inserted(u, w)' /\ call'[u].id = i /\ call'[u].adds = m
    BY DEF Listed
  <2>1. (i \in DOMAIN cbs[w] /\ cbs[w][i] = m)
          <=> <<i, m>> \in given[w] \/ \E u \in Thread : Inserted(u, w) /\ call[u].id = i /\ call[u].adds = m
    BY <1>1 DEF Inv, Listed
  <2>2. QED
    BY <1>1, <1>10, <2>1
<1>12. Told'
  BY <1>1, <1>5 DEF Inv, Told, Sets
<1>13. QED
  BY <1>5, <1>6, <1>7, <1>9, <1>11, <1>12, TypePartsNext DEF Inv

LEMMA AddInsertKeeps ==
  ASSUME Inv, NEW t \in Thread, AddInsert(t)
  PROVE  Inv'
<1> DEFINE v == call[t].var
           l == call[t].adds
<1>1. PICK i \in {call[t].id, funId} :
        /\ cbs' = [cbs EXCEPT ![v] = Put(cbs[v], i, l)]
        /\ Goes(t, [call[t] EXCEPT !.at = "inserted", !.id = i])
  BY DEF AddInsert
<1> DEFINE r == [call[t] EXCEPT !.at = "inserted", !.id = i]
<1>2. /\ At(t, "written") /\ Goes(t, r)
      /\ heard' = [heard EXCEPT ![l] = val[v]]
      /\ overlap' = (IF Storing(v) THEN overlap \cup {v} ELSE overlap)
      /\ val' = val /\ lock' = lock /\ funId' = funId /\ unused' = unused /\ stores' = stores
      /\ given' = given /\ raced' = raced
  BY <1>1 DEF AddInsert
<1>3. Adds(t)
  BY <1>2 DEF Adds, At
<1>4. /\ Types /\ Exclusive /\ call[t].id \in Nat /\ v \in Var /\ l \in Listener /\ call[t] \in AddCalls
      /\ i \in Nat
  BY <1>3, InThread, AddShape DEF Types
<1>5. r \in AddCalls /\ r.at = "inserted" /\ r.var = v /\ r.adds = l /\ r.id = i
  BY <1>4 DEF AddCalls
<1> HIDE DEF r
<1>6. /\ call' \in [Thread -> Calls] /\ call'[t] = r
      /\ \A u \in Thread : u # t => call'[u] = call[u]
      /\ Exclusive' /\ UsedOnce'
      /\ \A u \in Thread : (Adds(u)' <=> Adds(u)) /\ (Adds(u) => call'[u].adds = call[u].adds)
      /\ \A u \in Thread, w \in Var :
           /\ (Tells(u, w)' <=> Tells(u, w)) /\ (Stores(u, w)' <=> Stores(u, w))
           /\ Tells(u, w) \/ Stores(u, w) => call'[u] = call[u]
  BY <1>2, <1>3, <1>5, StaysAdding
<1> HIDE DEF v, l
<1>7. /\ DOMAIN cbs' = Var /\ DOMAIN cbs'[v] = DOMAIN cbs[v] \cup {i} /\ cbs'[v][i] = l
      /\ \A j \in DOMAIN cbs[v] : j # i => cbs'[v][j] = cbs[v][j]
      /\ \A w \in Var : w # v => cbs'[w] = cbs[w]
  BY <1>1, <1>4 DEF Types, Put
<1>8. Types'
  <2>1. \A w \in Var : DOMAIN cbs'[w] \subseteq Nat /\ \A j \in DOMAIN cbs'[w] : cbs'[w][j] \in Listener
    BY <1>4, <1>7 DEF Types
  <2>2. heard' \in [Listener -> Value \cup {None}] /\ overlap' \subseteq Var
    BY <1>2, <1>4 DEF Types
  <2>3. QED
    BY <1>2, <1>4, <1>7, <2>1, <2>2 DEF Types
<1>9. TodoListed'
  BY <1>6, <1>7 DEF Inv, TodoListed, Tells
<1>10. ASSUME ~raced PROVE i = funId /\ call[t].id = funId /\ \A u \in Thread : u # t => ~Adds(u)
  BY <1>1, <1>3, <1>10 DEF Inv, Drawn
<1>11. Drawn'
  <2> SUFFICES ASSUME ~raced
               PROVE  /\ \A x, u \in Thread : Adds(x)' /\ Adds(u)' => x = u
                      /\ \A u \in Thread : Adds(u)' => call'[u].id = funId'
                      /\ \A w \in Var : \A g \in given'[w] :
                           /\ g[1] <= funId'
                           /\ \A u \in Thread : At(u, "written")' \/ At(u, "inserted")' => g[1] # funId'
                      /\ UniqueIds'
    BY <1>2 DEF Drawn
  <2>1. UniqueIds'
    BY <1>2 DEF Inv, Drawn, UniqueIds
  <2>2. \A w \in Var : \A g \in given[w] : g[1] <= funId /\ g[1] # funId
    BY <1>2 DEF Inv, Drawn
  <2>3. QED
    BY <1>2, <1>5, <1>6, <1>10, <2>1, <2>2
<1>12. \A u \in Thread, w \in Var : Inserted(u, w)' <=> (u = t /\ w = v) \/ (u # t /\ Inserted(u, w))
  BY <1>5, <1>6 DEF Inserted, At
<1>13. Listed'
  <2> SUFFICES ASSUME ~raced', NEW w \in Var, NEW j \in Nat, NEW m \in Listener
               PROVE  (j \in DOMAIN cbs'[w] /\ cbs'[w][j] = m)
                        <=> <<j, m>> \in given'[w]
                            \/ \E u \in Thread : Inserted(u, w)' /\ call'[u].id = j /\ call'[u].adds = m
    BY DEF Listed
  <2> ~raced /\ given' = given
    BY <1>2
  <2>1. \A u \in Thread : ~Inserted(u, w)
    BY <1>2, <1>10 DEF Inserted, At, Adds
  <2>2. (j \in DOMAIN cbs[w] /\ cbs[w][j] = m) <=> <<j, m>> \in given[w]
    BY <2>1 DEF Inv, Listed
  <2>3. (\E u \in Thread : Inserted(u, w)' /\ call'[u].id = j /\ call'[u].adds = m)
          <=> w = v /\ j = i /\ m = l
    BY <1>5, <1>6, <1>12, <2>1
  <2>4. <<j, m>> \in given[w] => j # i
    BY <1>2, <1>10 DEF Inv, Drawn
  <2>5. QED
    BY <1>7, <2>2, <2>3, <2>4
<1>14. Told'
  <2> SUFFICES ASSUME ~raced, NEW w \in Var \ overlap'
               PROVE  /\ \A x, u \in Thread : Sets(x, w)' /\ Sets(u, w)' => x = u
                      /\ \A j \in DOMAIN cbs'[w] :
                           /\ (\A x \in Thread : ~Sets(x, w)') => heard'[cbs'[w][j]] = val[w]
                           /\ \A x \in Thread :
                                /\ Stores(x, w)' => heard'[cbs'[w][j]] = call'[x].new
                                /\ Tells(x, w)' /\ j \notin call'[x].todo => heard'[cbs'[w][j]] = call'[x].new
    BY <1>2 DEF Told
  <2>1. w \notin overlap /\ (w = v => ~Storing(v))
    BY <1>2
  <2>2. \A u \in Thread : (Sets(u, w)' <=> Sets(u, w))
    BY <1>6 DEF Sets
  <2>3. \A x, u \in Thread : Sets(x, w)' /\ Sets(u, w)' => x = u
    BY <2>1, <2>2 DEF Inv, Told
  <2>4. CASE w = v
    <3>1. \A u \in Thread : ~Stores(u, v)
      BY <2>1, <2>4 DEF Storing, Stores
    <3>2. \A u \in Thread : ~Tells(u, v)
      <4>1. lock[v] = t
        BY <1>2, <1>4 DEF Exclusive, Inside, At, v
      <4>2. \A u \in Thread : Inside(u, v) => u = t
        BY <1>4, <4>1 DEF Exclusive
      <4>3. QED
        BY <1>2, <4>2 DEF Tells, Inside, At
    <3>3. \A u \in Thread : ~Sets(u, w) /\ ~Tells(u, w)' /\ ~Stores(u, w)'
      BY <1>6, <2>4, <3>1, <3>2 DEF Sets
    <3>4. ASSUME NEW j \in DOMAIN cbs'[w] PROVE heard'[cbs'[w][j]] = val[w]
      <4>1. CASE cbs'[w][j] = l
        BY <4>1, <1>2, <1>4, <2>4 DEF Types
      <4>2. CASE cbs'[w][j] # l
        <5>1. j \in DOMAIN cbs[w] /\ cbs'[w][j] = cbs[w][j]
          BY <4>2, <1>7, <2>4, <3>4
        <5>2. heard[cbs[w][j]] = val[w]
          BY <5>1, <2>1, <3>3 DEF Inv, Told
        <5>3. cbs[w][j] \in Listener
          BY <5>1, <1>4 DEF Types
        <5>4. QED
          BY <4>2, <5>1, <5>2, <5>3, <1>2, <1>4 DEF Types
      <4>3. QED
        BY <4>1, <4>2
    <3>5. QED
      BY <2>3, <3>3, <3>4
  <2>5. CASE w # v
    <3>1. cbs'[w] = cbs[w]
      BY <2>5, <1>7
    <3>2. ASSUME NEW j \in DOMAIN cbs[w] PROVE heard'[cbs[w][j]] = heard[cbs[w][j]]
      <4>1. cbs[w][j] # l
        BY <1>2, <1>3, NotListed DEF At, l
      <4>2. cbs[w][j] \in Listener
        BY <1>4 DEF Types
      <4>3. QED
        BY <4>1, <4>2, <1>2, <1>4 DEF Types
    <3>3. QED
      BY <1>2, <1>6, <2>1, <2>2, <2>3, <3>1, <3>2 DEF Inv, Told
  <2>6. QED
    BY <2>4, <2>5
<1>15. QED
  BY <1>6, <1>8, <1>9, <1>11, <1>13, <1>14, TypePartsNext DEF Inv

LEMMA AddReturnKeeps ==
  ASSUME Inv, NEW t \in Thread, AddReturn(t)
  PROVE  Inv'
<1> DEFINE v == call[t].var
           l == call[t].adds
<1>1. PICK i \in {call[t].id, funId} : given' = [given EXCEPT ![v] = given[v] \cup {<<i, l>>}]
  BY DEF AddReturn
<1>2. /\ At(t, "inserted") /\ lock' = [lock EXCEPT ![v] = None] /\ Goes(t, Out)
      /\ val' = val /\ cbs' = cbs /\ funId' = funId /\ unused' = unused /\ stores' = stores
      /\ heard' = heard /\ raced' = raced /\ overlap' = overlap
  BY DEF AddReturn, Unlock
<1>3. Adds(t)
  BY <1>2 DEF Adds, At
<1>4. /\ Types /\ Exclusive /\ call \in [Thread -> Calls] /\ v \in Var /\ l \in Listener /\ i \in Nat
  BY <1>3, InThread DEF Types
<1>5. Out \in Calls /\ Out.at = "out"
  BY DEF Out, Calls
<1>6. /\ call' \in [Thread -> Calls] /\ call'[t] = Out
      /\ \A u \in Thread : u # t => call'[u] = call[u]
  BY <1>2, <1>4, <1>5, Moves
<1>7. Inserted(t, v)
  BY <1>2 DEF Inserted
<1>8. \A w \in Var : w # v => ~Inside(t, w)
  BY DEF Inside
<1>9. Inside(t, v)
  BY <1>2 DEF Inside, At
<1>10. \A u \in Thread : call'[u].at \in {"read", "written", "inserted"} <=> u # t /\ Adds(u)
  BY <1>5, <1>6 DEF Adds
<1> HIDE DEF v, l
<1>11. /\ \A w \in Var : w # v => given'[w] = given[w]
       /\ given'[v] = given[v] \cup {<<i, l>>}
  BY <1>1, <1>4 DEF Types
<1>12. Types'
  <2>1. given' \in [Var -> SUBSET (Nat \X Listener)]
    BY <1>1, <1>4 DEF Types
  <2>2. lock' \in [Var -> Thread \cup {None}]
    BY <1>2, <1>4 DEF Types
  <2>3. QED
    BY <1>2, <1>4, <2>1, <2>2 DEF Types
<1>13. Exclusive'
  <2>1. lock[v] = t /\ lock'[v] = None /\ None \notin Thread /\ \A w \in Var : w # v => lock'[w] = lock[w]
    BY <1>2, <1>4, <1>9, ConfigVarAssumption DEF Exclusive, Types
  <2>2. \A u \in Thread : u # t => ~Inside(u, v)
    BY <1>4, <2>1 DEF Exclusive
  <2>3. \A w \in Var : ~Inside(t, w)'
    BY <1>5, <1>6 DEF Inside
  <2>4. \A u \in Thread, w \in Var : u # t => (Inside(u, w)' <=> Inside(u, w))
    BY <1>6 DEF Inside
  <2>5. ASSUME NEW u \in Thread, NEW w \in Var PROVE Inside(u, w)' <=> lock'[w] = u
    BY <1>4, <1>8, <2>1, <2>2, <2>3, <2>4 DEF Exclusive
  <2>6. QED
    BY <2>5 DEF Exclusive
<1>14. TodoListed'
  BY <1>2, <1>5, <1>6 DEF Inv, TodoListed, Tells, At
<1>15. /\ l \notin unused
       /\ \A w \in Var : \A g \in given[w] : g[2] # l
       /\ \A u \in Thread : u # t /\ Adds(u) => call[u].adds # l
  BY <1>3 DEF Inv, UsedOnce, l
<1>16. UsedOnce'
  <2>1. \A w \in Var : \A g \in given'[w] : (w = v /\ g = <<i, l>>) \/ g \in given[w]
    BY <1>11
  <2>2. /\ \A m \in unused : (\A w \in Var : \A g \in given'[w] : g[2] # m)
                             /\ \A u \in Thread : Adds(u)' => call'[u].adds # m
    BY <1>6, <1>10, <1>15, <2>1 DEF Inv, UsedOnce, Adds
  <2>3. \A u \in Thread : Adds(u)' => \A w \in Var : \A g \in given'[w] : g[2] # call'[u].adds
    BY <1>6, <1>10, <1>15, <2>1 DEF Inv, UsedOnce, Adds
  <2>4. \A x, u \in Thread : Adds(x)' /\ Adds(u)' /\ call'[x].adds = call'[u].adds => x = u
    BY <1>6, <1>10 DEF Inv, UsedOnce, Adds
  <2>5. \A x, w \in Var : \A g \in given'[x], h \in given'[w] : g[2] = h[2] => x = w /\ g = h
    <3> SUFFICES ASSUME NEW x \in Var, NEW w \in Var, NEW g \in given'[x], NEW h \in given'[w], g[2] = h[2]
                 PROVE  x = w /\ g = h
      OBVIOUS
    <3>1. <<i, l>>[2] = l
      OBVIOUS
    <3>2. QED
      BY <1>15, <2>1, <3>1 DEF Inv, UsedOnce
  <2>6. QED
    BY <1>2, <2>2, <2>3, <2>4, <2>5 DEF UsedOnce
<1>17. ASSUME ~raced PROVE i = funId /\ call[t].id = funId /\ \A u \in Thread : u # t => ~Adds(u)
  BY <1>1, <1>3, <1>17 DEF Inv, Drawn
<1>18. Drawn'
  <2> SUFFICES ASSUME ~raced'
               PROVE  /\ \A x, u \in Thread : Adds(x)' /\ Adds(u)' => x = u
                      /\ \A u \in Thread : Adds(u)' => call'[u].id = funId'
                      /\ \A w \in Var : \A g \in given'[w] :
                           /\ g[1] <= funId'
                           /\ \A u \in Thread : At(u, "written")' \/ At(u, "inserted")' => g[1] # funId'
                      /\ UniqueIds'
    BY DEF Drawn
  <2> ~raced
    BY <1>2
  <2>1. \A u \in Thread : ~Adds(u)' /\ ~At(u, "written")' /\ ~At(u, "inserted")'
    BY <1>10, <1>17 DEF Adds, At
  <2>2. \A w \in Var : \A g \in given[w] : g[1] <= funId /\ g[1] # funId
    BY <1>2 DEF Inv, Drawn
  <2>3. \A w \in Var : \A g \in given'[w] : (w = v /\ g = <<funId, l>>) \/ g \in given[w]
    BY <1>11, <1>17
  <2>4. <<funId, l>>[1] = funId
    OBVIOUS
  <2>5. \A w \in Var : \A g \in given'[w] : g[1] <= funId
    BY <1>4, <2>2, <2>3, <2>4 DEF Types
  <2>6. UniqueIds'
    <3> SUFFICES ASSUME NEW x \in Var, NEW w \in Var, NEW g \in given'[x], NEW h \in given'[w], g[1] = h[1]
                 PROVE  x = w /\ g = h
      BY DEF UniqueIds
    <3>1. UniqueIds
      BY DEF Inv, Drawn
    <3>2. QED
      BY <2>2, <2>3, <2>4, <3>1 DEF UniqueIds
  <2>7. QED
    BY <1>2, <2>1, <2>5, <2>6
<1>19. Listed'
  <2> SUFFICES ASSUME ~raced', NEW w \in Var, NEW j \in Nat, NEW m \in Listener
               PROVE  (j \in DOMAIN cbs'[w] /\ cbs'[w][j] = m)
                        <=> <<j, m>> \in given'[w]
                            \/ \E u \in Thread : Inserted(u, w)' /\ call'[u].id = j /\ call'[u].adds = m
    BY DEF Listed
  <2> ~raced
    BY <1>2
  <2>1. \A u \in Thread : ~Inserted(u, w)' /\ (Inserted(u, w) => u = t /\ w = v)
    BY <1>10, <1>17 DEF Inserted, At, Adds, v
  <2>2. (j \in DOMAIN cbs[w] /\ cbs[w][j] = m)
          <=> <<j, m>> \in given[w] \/ \E u \in Thread : Inserted(u, w) /\ call[u].id = j /\ call[u].adds = m
    BY DEF Inv, Listed
  <2>3. (\E u \in Thread : Inserted(u, w) /\ call[u].id = j /\ call[u].adds = m) <=> w = v /\ j = i /\ m = l
    BY <1>7, <1>17, <2>1 DEF l
  <2>4. <<j, m>> \in given'[w] <=> <<j, m>> \in given[w] \/ (w = v /\ j = i /\ m = l)
    BY <1>11
  <2>5. QED
    BY <1>2, <2>1, <2>2, <2>3, <2>4
<1>20. \A u \in Thread, w \in Var :
         /\ (Tells(u, w)' <=> Tells(u, w)) /\ (Stores(u, w)' <=> Stores(u, w))
         /\ Tells(u, w) \/ Stores(u, w) => call'[u] = call[u]
  BY <1>2, <1>5, <1>6 DEF Tells, Stores, At
<1>21. Told'
  BY <1>2, <1>20 DEF Inv, Told, Sets
<1>22. QED
  BY <1>6, <1>12, <1>13, <1>14, <1>16, <1>18, <1>19, <1>21, TypePartsNext DEF Inv

-----------------------------------------------------------------------------
(* delListener(), clearListener().                                         *)

LEMMA FewerGiven ==
  ASSUME Inv, call' = call, unused' = unused, funId' = funId, raced' = raced,
         \A w \in Var : given'[w] \subseteq given[w]
  PROVE  UsedOnce' /\ Drawn'
<1>1. UsedOnce'
  <2>1. /\ \A l \in unused : (\A v \in Var : \A g \in given'[v] : g[2] # l)
                             /\ \A t \in Thread : Adds(t) => call[t].adds # l
        /\ \A t \in Thread : Adds(t) => \A v \in Var : \A g \in given'[v] : g[2] # call[t].adds
        /\ \A t, u \in Thread : Adds(t) /\ Adds(u) /\ call[t].adds = call[u].adds => t = u
        /\ \A v, w \in Var : \A g \in given'[v], h \in given'[w] : g[2] = h[2] => v = w /\ g = h
    BY DEF Inv, UsedOnce
  <2>2. QED
    BY <2>1 DEF UsedOnce, Adds
<1>2. Drawn'
  <2> SUFFICES ASSUME ~raced
               PROVE  /\ \A t, u \in Thread : Adds(t) /\ Adds(u) => t = u
                      /\ \A t \in Thread : Adds(t) => call[t].id = funId
                      /\ \A w \in Var : \A g \in given'[w] :
                           /\ g[1] <= funId
                           /\ \A u \in Thread : At(u, "written") \/ At(u, "inserted") => g[1] # funId
                      /\ UniqueIds'
    BY DEF Drawn, Adds, At
  <2>1. UniqueIds'
    BY DEF Inv, Drawn, UniqueIds
  <2>2. QED
    BY <2>1 DEF Inv, Drawn
<1>3. QED
  BY <1>1, <1>2

LEMMA DelListenerKeeps ==
  ASSUME Inv, NEW t \in Thread, NEW v \in Var, NEW g \in given[v], DelListener(t, v, g)
  PROVE  Inv'
<1>1. /\ Types /\ Exclusive /\ call \in [Thread -> Calls]
  BY InThread
<1>2. /\ Free(v) /\ cbs' = [cbs EXCEPT ![v] = Without(cbs[v], g[1])]
      /\ given' = [given EXCEPT ![v] = given[v] \ {g}]
      /\ val' = val /\ lock' = lock /\ funId' = funId /\ call' = call /\ unused' = unused /\ stores' = stores
      /\ heard' = heard /\ raced' = raced /\ overlap' = overlap
  BY DEF DelListener
<1>3. /\ DOMAIN cbs' = Var /\ DOMAIN cbs'[v] = DOMAIN cbs[v] \ {g[1]}
      /\ \A j \in DOMAIN cbs'[v] : cbs'[v][j] = cbs[v][j]
      /\ \A w \in Var : w # v => cbs'[w] = cbs[w]
  BY <1>1, <1>2 DEF Types, Without
<1>4. given'[v] = given[v] \ {g} /\ \A w \in Var : w # v => given'[w] = given[w]
  BY <1>1, <1>2 DEF Types
<1>5. Types'
  <2>1. \A w \in Var : DOMAIN cbs'[w] \subseteq Nat /\ \A j \in DOMAIN cbs'[w] : cbs'[w][j] \in Listener
    BY <1>1, <1>3 DEF Types
  <2>2. given' \in [Var -> SUBSET (Nat \X Listener)]
    BY <1>1, <1>2 DEF Types
  <2>3. QED
    BY <1>1, <1>2, <1>3, <2>1, <2>2 DEF Types
<1>6. Exclusive'
  BY <1>1, <1>2 DEF Exclusive, Inside
<1>7. \A u \in Thread : ~Tells(u, v) /\ ~Inserted(u, v)
  BY <1>2, FreeMeans
<1>8. TodoListed'
  BY <1>2, <1>3, <1>7 DEF Inv, TodoListed, Tells, At
<1>9. UsedOnce' /\ Drawn'
  BY <1>2, <1>4, FewerGiven
<1>10. Listed'
  <2> SUFFICES ASSUME ~raced', NEW w \in Var, NEW j \in Nat, NEW m \in Listener
               PROVE  (j \in DOMAIN cbs'[w] /\ cbs'[w][j] = m)
                        <=> <<j, m>> \in given'[w]
                            \/ \E u \in Thread : Inserted(u, w)' /\ call'[u].id = j /\ call'[u].adds = m
    BY DEF Listed
  <2> ~raced
    BY <1>2
  <2>1. (j \in DOMAIN cbs[w] /\ cbs[w][j] = m)
          <=> <<j, m>> \in given[w] \/ \E u \in Thread : Inserted(u, w) /\ call[u].id = j /\ call[u].adds = m
    BY DEF Inv, Listed
  <2>2. CASE w # v
    BY <2>1, <2>2, <1>2, <1>3, <1>4 DEF Inserted, At
  <2>3. CASE w = v
    <3>1. (j \in DOMAIN cbs'[v] /\ cbs'[v][j] = m) <=> j # g[1] /\ <<j, m>> \in given[v]
      BY <2>1, <2>3, <1>3, <1>7
    <3>2. <<j, m>> \in given[v] /\ j = g[1] => <<j, m>> = g
      <4>1. UniqueIds
        BY DEF Inv, Drawn
      <4>2. <<j, m>>[1] = j
        OBVIOUS
      <4>3. QED
        BY <4>1, <4>2 DEF UniqueIds
    <3>3. <<j, m>> = g => j = g[1]
      OBVIOUS
    <3>4. \A u \in Thread : ~Inserted(u, v)'
      BY <1>2, <1>7 DEF Inserted, At
    <3>5. QED
      BY <2>3, <3>1, <3>2, <3>3, <3>4, <1>4
  <2>4. QED
    BY <2>2, <2>3
<1>11. Told'
  <2>1. \A w \in Var : \A j \in DOMAIN cbs'[w] : j \in DOMAIN cbs[w] /\ cbs'[w][j] = cbs[w][j]
    BY <1>3
  <2>2. \A u \in Thread, w \in Var : (Tells(u, w)' <=> Tells(u, w)) /\ (Stores(u, w)' <=> Stores(u, w))
                                     /\ (Sets(u, w)' <=> Sets(u, w))
    BY <1>2 DEF Tells, Stores, Sets, At
  <2>3. QED
    BY <1>2, <2>1, <2>2 DEF Inv, Told
<1>12. QED
  BY <1>1, <1>2, <1>5, <1>6, <1>8, <1>9, <1>10, <1>11, TypePartsNext DEF Inv

LEMMA ClearListenerKeeps ==
  ASSUME Inv, NEW t \in Thread, NEW v \in Var, ClearListener(t, v)
  PROVE  Inv'
<1>1. /\ Types /\ Exclusive /\ call \in [Thread -> Calls]
  BY InThread
<1>2. /\ Free(v) /\ cbs' = [cbs EXCEPT ![v] = <<>>] /\ given' = [given EXCEPT ![v] = {}]
      /\ val' = val /\ lock' = lock /\ funId' = funId /\ call' = call /\ unused' = unused /\ stores' = stores
      /\ heard' = heard /\ raced' = raced /\ overlap' = overlap
  BY DEF ClearListener
<1>3. /\ DOMAIN cbs' = Var /\ DOMAIN cbs'[v] = {}
      /\ \A w \in Var : w # v => cbs'[w] = cbs[w]
  BY <1>1, <1>2 DEF Types
<1>4. given'[v] = {} /\ \A w \in Var : w # v => given'[w] = given[w]
  BY <1>1, <1>2 DEF Types
<1>5. Types'
  <2>1. \A w \in Var : DOMAIN cbs'[w] \subseteq Nat /\ \A j \in DOMAIN cbs'[w] : cbs'[w][j] \in Listener
    BY <1>1, <1>3 DEF Types
  <2>2. given' \in [Var -> SUBSET (Nat \X Listener)]
    BY <1>1, <1>2 DEF Types
  <2>3. QED
    BY <1>1, <1>2, <1>3, <2>1, <2>2 DEF Types
<1>6. Exclusive'
  BY <1>1, <1>2 DEF Exclusive, Inside
<1>7. \A u \in Thread : ~Tells(u, v) /\ ~Inserted(u, v)
  BY <1>2, FreeMeans
<1>8. TodoListed'
  BY <1>2, <1>3, <1>7 DEF Inv, TodoListed, Tells, At
<1>9. UsedOnce' /\ Drawn'
  BY <1>2, <1>4, FewerGiven
<1>10. Listed'
  <2> SUFFICES ASSUME ~raced', NEW w \in Var, NEW j \in Nat, NEW m \in Listener
               PROVE  (j \in DOMAIN cbs'[w] /\ cbs'[w][j] = m)
                        <=> <<j, m>> \in given'[w]
                            \/ \E u \in Thread : Inserted(u, w)' /\ call'[u].id = j /\ call'[u].adds = m
    BY DEF Listed
  <2>1. (j \in DOMAIN cbs[w] /\ cbs[w][j] = m)
          <=> <<j, m>> \in given[w] \/ \E u \in Thread : Inserted(u, w) /\ call[u].id = j /\ call[u].adds = m
    BY <1>2 DEF Inv, Listed
  <2>2. CASE w # v
    BY <2>1, <2>2, <1>2, <1>3, <1>4 DEF Inserted, At
  <2>3. CASE w = v
    BY <2>3, <1>2, <1>3, <1>4, <1>7 DEF Inserted, At
  <2>4. QED
    BY <2>2, <2>3
<1>11. Told'
  <2>1. \A w \in Var : \A j \in DOMAIN cbs'[w] : j \in DOMAIN cbs[w] /\ cbs'[w][j] = cbs[w][j]
    BY <1>3
  <2>2. \A u \in Thread, w \in Var : (Tells(u, w)' <=> Tells(u, w)) /\ (Stores(u, w)' <=> Stores(u, w))
                                     /\ (Sets(u, w)' <=> Sets(u, w))
    BY <1>2 DEF Tells, Stores, Sets, At
  <2>3. QED
    BY <1>2, <2>1, <2>2 DEF Inv, Told
<1>12. QED
  BY <1>1, <1>2, <1>5, <1>6, <1>8, <1>9, <1>10, <1>11, TypePartsNext DEF Inv

-----------------------------------------------------------------------------
(* setValue().                                                             *)

(* A step of a thread that is in no addListener(). *)
LEMMA AddingStays ==
  ASSUME Inv, NEW t \in Thread, ~Adds(t), NEW r \in Calls, r.at \notin {"read", "written", "inserted"},
         Goes(t, r), cbs' = cbs, given' = given, unused' = unused, funId' = funId, raced' = raced
  PROVE  /\ call' \in [Thread -> Calls] /\ call'[t] = r
         /\ \A u \in Thread : u # t => call'[u] = call[u]
         /\ UsedOnce' /\ Drawn' /\ Listed'
<1>1. /\ call' \in [Thread -> Calls] /\ call'[t] = r
      /\ \A u \in Thread : u # t => call'[u] = call[u]
  BY InThread, Moves
<1>2. \A u \in Thread : (Adds(u)' <=> Adds(u)) /\ (Adds(u) => call'[u] = call[u])
  BY <1>1 DEF Adds
<1>3. \A u \in Thread : At(u, "written")' \/ At(u, "inserted")' => At(u, "written") \/ At(u, "inserted")
  BY <1>1 DEF At
<1>4. \A u \in Thread, w \in Var : (Inserted(u, w)' <=> Inserted(u, w)) /\ (Inserted(u, w) => call'[u] = call[u])
  <2>1. ASSUME NEW u \in Thread PROVE At(u, "inserted") <=> At(u, "inserted")'
    BY <1>1 DEF Adds, At
  <2>2. \A u \in Thread : At(u, "inserted") => call'[u] = call[u]
    BY <1>2 DEF Adds, At
  <2>3. QED
    BY <2>1, <2>2 DEF Inserted
<1>5. UsedOnce'
  BY <1>2 DEF Inv, UsedOnce
<1>6. Drawn'
  <2> SUFFICES ASSUME ~raced
               PROVE  /\ \A x, u \in Thread : Adds(x)' /\ Adds(u)' => x = u
                      /\ \A u \in Thread : Adds(u)' => call'[u].id = funId
                      /\ \A w \in Var : \A g \in given[w] :
                           /\ g[1] <= funId
                           /\ \A u \in Thread : At(u, "written")' \/ At(u, "inserted")' => g[1] # funId
                      /\ UniqueIds'
    BY DEF Drawn
  <2>1. UniqueIds'
    BY DEF Inv, Drawn, UniqueIds
  <2>2. QED
    BY <1>2, <1>3, <2>1 DEF Inv, Drawn
<1>7. Listed'
  <2> SUFFICES ASSUME ~raced', NEW w \in Var, NEW j \in Nat, NEW m \in Listener
               PROVE  (j \in DOMAIN cbs'[w] /\ cbs'[w][j] = m)
                        <=> <<j, m>> \in given'[w]
                            \/ \E u \in Thread : Inserted(u, w)' /\ call'[u].id = j /\ call'[u].adds = m
    BY DEF Listed
  <2>1. (j \in DOMAIN cbs[w] /\ cbs[w][j] = m)
          <=> <<j, m>> \in given[w] \/ \E u \in Thread : Inserted(u, w) /\ call[u].id = j /\ call[u].adds = m
    BY DEF Inv, Listed
  <2>2. QED
    BY <1>4, <2>1
<1>8. QED
  BY <1>1, <1>5, <1>6, <1>7

LEMMA SetValueKeeps ==
  ASSUME Inv, NEW t \in Thread, NEW v \in Var, NEW x \in Value, SetValue(t, v, x)
  PROVE  Inv'
<1> DEFINE r == [at |-> "tell", var |-> v, new |-> x, todo |-> DOMAIN cbs[v]]
<1>1. /\ Types /\ Exclusive /\ call \in [Thread -> Calls]
  BY InThread
<1>2. /\ At(t, "out") /\ Free(v) /\ stores < MaxStore /\ lock' = [lock EXCEPT ![v] = t] /\ Goes(t, r)
      /\ stores' = stores + 1 /\ overlap' = (IF Storing(v) THEN overlap \cup {v} ELSE overlap)
      /\ val' = val /\ cbs' = cbs /\ funId' = funId /\ unused' = unused /\ given' = given
      /\ heard' = heard /\ raced' = raced
  BY DEF SetValue
<1>3. r \in Calls /\ r.at = "tell" /\ r.var = v /\ r.new = x /\ r.todo = DOMAIN cbs[v]
  <2>1. DOMAIN cbs[v] \in SUBSET Nat
    BY <1>1 DEF Types
  <2>2. QED
    BY <2>1 DEF Calls
<1> HIDE DEF r
<1>4. /\ call' \in [Thread -> Calls] /\ call'[t] = r
      /\ \A u \in Thread : u # t => call'[u] = call[u]
      /\ UsedOnce' /\ Drawn' /\ Listed'
  <2>1. ~Adds(t)
    BY <1>2 DEF Adds, At
  <2>2. QED
    BY <1>2, <1>3, <2>1, AddingStays
<1>5. Types'
  <2>1. stores' \in 0 .. MaxStore
    BY <1>1, <1>2, ConfigVarAssumption DEF Types
  <2>2. lock' \in [Var -> Thread \cup {None}] /\ overlap' \subseteq Var
    BY <1>1, <1>2 DEF Types
  <2>3. QED
    BY <1>1, <1>2, <2>1, <2>2 DEF Types
<1>6. Exclusive'
  <2>1. \A u \in Thread : ~Inside(u, v)
    BY <1>2, FreeMeans
  <2>2. /\ lock'[v] = t
        /\ \A w \in Var : w # v => lock'[w] = lock[w]
        /\ \A w \in Var : lock[w] # t
    <3>1. \A w \in Var : ~Inside(t, w)
      BY <1>2 DEF Inside, At
    <3>2. QED
      BY <3>1, <1>1, <1>2 DEF Types, Exclusive
  <2>3. QED
    BY <1>1, <1>3, <1>4, <2>1, <2>2 DEF Exclusive, Inside
<1>7. TodoListed'
  BY <1>2, <1>3, <1>4 DEF Inv, TodoListed, Tells, At
<1>8. ~Tells(t, v) /\ ~Stores(t, v) /\ \A w \in Var : ~Tells(t, w) /\ ~Stores(t, w)
  BY <1>2 DEF Tells, Stores, At
<1>9. /\ \A u \in Thread, w \in Var : u # t => (Tells(u, w)' <=> Tells(u, w)) /\ (Stores(u, w)' <=> Stores(u, w))
      /\ \A w \in Var : ~Stores(t, w)' /\ (Tells(t, w)' <=> w = v)
  BY <1>3, <1>4 DEF Tells, Stores, At
<1>10. Told'
  <2> SUFFICES ASSUME ~raced, NEW w \in Var \ overlap'
               PROVE  /\ \A y, u \in Thread : Sets(y, w)' /\ Sets(u, w)' => y = u
                      /\ \A j \in DOMAIN cbs[w] :
                           /\ (\A y \in Thread : ~Sets(y, w)') => heard[cbs[w][j]] = val[w]
                           /\ \A y \in Thread :
                                /\ Stores(y, w)' => heard[cbs[w][j]] = call'[y].new
                                /\ Tells(y, w)' /\ j \notin call'[y].todo => heard[cbs[w][j]] = call'[y].new
    BY <1>2 DEF Told
  <2>1. w \notin overlap /\ (w = v => ~Storing(v))
    BY <1>2
  <2>2. CASE w = v
    <3>1. \A u \in Thread : ~Stores(u, v) /\ ~Tells(u, v)
      BY <1>2, <2>1, <2>2, FreeMeans DEF Storing, Stores
    <3>2. QED
      BY <2>2, <3>1, <1>3, <1>4, <1>9 DEF Sets
  <2>3. CASE w # v
    <3>1. \A u \in Thread : (Tells(u, w)' <=> Tells(u, w)) /\ (Stores(u, w)' <=> Stores(u, w))
                            /\ (Sets(u, w)' <=> Sets(u, w)) /\ (Sets(u, w) => call'[u] = call[u])
      BY <2>3, <1>4, <1>8, <1>9 DEF Sets
    <3>2. QED
      BY <2>1, <3>1 DEF Inv, Told, Sets
  <2>4. QED
    BY <2>2, <2>3
<1>11. QED
  BY <1>4, <1>5, <1>6, <1>7, <1>10, TypePartsNext DEF Inv

(* Some id of the list is the least. *)
LEMMA LeastExists ==
  ASSUME NEW S \in SUBSET Nat, S # {}
  PROVE  \E i \in S : \A j \in S : i <= j
<1>1. IsWellFoundedOn(OpToRel(<, Nat), Nat)
  BY NatLessThanWellFounded
<1> DEFINE R == OpToRel(<, Nat)
<1>2. \A i, j \in Nat : <<i, j>> \in R <=> i < j
  BY DEF OpToRel
<1> HIDE DEF R
<1>3. PICK i \in S : \A j \in S : <<j, i>> \notin R
  BY <1>1, WFMin DEF R
<1>4. ASSUME NEW j \in S PROVE i <= j
  <2>1. i \in Nat /\ j \in Nat /\ ~(j < i)
    BY <1>2, <1>3
  <2>2. QED
    BY <2>1
<1>5. QED
  BY <1>4

LEMMA TellKeeps ==
  ASSUME Inv, NEW t \in Thread, Tell(t)
  PROVE  Inv'
<1> DEFINE v == call[t].var
           i == CHOOSE j \in call[t].todo : \A k \in call[t].todo : j <= k
           r == [call[t] EXCEPT !.todo = call[t].todo \ {i}]
<1>1. /\ At(t, "tell") /\ call[t].todo # {} /\ heard' = [heard EXCEPT ![cbs[v][i]] = call[t].new] /\ Goes(t, r)
      /\ val' = val /\ cbs' = cbs /\ lock' = lock /\ funId' = funId /\ unused' = unused /\ stores' = stores
      /\ given' = given /\ raced' = raced /\ overlap' = overlap
  BY DEF Tell, config
<1>2. /\ Types /\ Exclusive /\ call \in [Thread -> Calls] /\ call[t] \in Calls
      /\ v \in Var /\ call[t].new \in Value /\ call[t].todo \in SUBSET Nat
  BY <1>1, InThread
<1>3. i \in call[t].todo
  <2>1. \E j \in call[t].todo : \A k \in call[t].todo : j <= k
    BY <1>1, <1>2, LeastExists
  <2>2. QED
    BY <2>1
<1> HIDE DEF i
<1>4. /\ call[t] \in [at : {"tell"}, var : Var, new : Value, todo : SUBSET Nat]
  BY <1>1, <1>2 DEF Calls, Out, At
<1>5. r \in Calls /\ r.at = "tell" /\ r.var = v /\ r.new = call[t].new /\ r.todo = call[t].todo \ {i}
  <2> DEFINE s == call[t].todo \ {i}
  <2>1. s \in SUBSET Nat
    BY <1>2
  <2> HIDE DEF s
  <2>2. QED
    BY <1>4, <2>1 DEF Calls, s
<1> HIDE DEF r
<1>6. /\ call' \in [Thread -> Calls] /\ call'[t] = r
      /\ \A u \in Thread : u # t => call'[u] = call[u]
      /\ UsedOnce' /\ Drawn' /\ Listed'
  <2>1. ~Adds(t)
    BY <1>1 DEF Adds, At
  <2>2. QED
    BY <1>1, <1>5, <2>1, AddingStays
<1>7. Tells(t, v)
  BY <1>1 DEF Tells
<1>8. \A u \in Thread, w \in Var : (Tells(u, w)' <=> Tells(u, w)) /\ (Stores(u, w)' <=> Stores(u, w))
                                   /\ (Inside(u, w)' <=> Inside(u, w)) /\ call'[u].new = call[u].new
  <2>1. At(t, "tell")' /\ call'[t].var = call[t].var /\ call'[t].new = call[t].new
    BY <1>5, <1>6 DEF At
  <2>2. QED
    BY <1>1, <1>6, <2>1 DEF Tells, Stores, Inside, At
<1> HIDE DEF v
<1>9. i \in DOMAIN cbs[v] /\ cbs[v][i] \in Listener
  BY <1>2, <1>3, <1>7 DEF Inv, TodoListed, Types
<1>10. Types'
  <2>1. heard' \in [Listener -> Value \cup {None}]
    BY <1>1, <1>2, <1>9 DEF Types
  <2>2. QED
    BY <1>1, <1>2, <2>1 DEF Types
<1>11. Exclusive'
  BY <1>1, <1>2, <1>8 DEF Exclusive
<1>12. TodoListed'
  <2>1. \A u \in Thread : Tells(u, v) => call'[u].todo \subseteq call[u].todo
    BY <1>5, <1>6
  <2>2. \A u \in Thread : call'[u].todo = call[u].todo \/ (u = t /\ call'[u].todo = call[u].todo \ {i})
    BY <1>5, <1>6
  <2>3. QED
    BY <1>1, <1>8, <2>2 DEF Inv, TodoListed
<1>13. Told'
  <2> SUFFICES ASSUME ~raced, NEW w \in Var \ overlap
               PROVE  /\ \A y, u \in Thread : Sets(y, w)' /\ Sets(u, w)' => y = u
                      /\ \A j \in DOMAIN cbs[w] :
                           /\ (\A y \in Thread : ~Sets(y, w)') => heard'[cbs[w][j]] = val[w]
                           /\ \A y \in Thread :
                                /\ Stores(y, w)' => heard'[cbs[w][j]] = call'[y].new
                                /\ Tells(y, w)' /\ j \notin call'[y].todo => heard'[cbs[w][j]] = call'[y].new
    BY <1>1 DEF Told
  <2>1. \A u \in Thread : (Sets(u, w)' <=> Sets(u, w))
    BY <1>8 DEF Sets
  <2>2. \A y, u \in Thread : Sets(y, w) /\ Sets(u, w) => y = u
    BY DEF Inv, Told
  <2>3. CASE w # v
    <3>1. ASSUME NEW j \in DOMAIN cbs[w] PROVE heard'[cbs[w][j]] = heard[cbs[w][j]]
      <4>1. cbs[w][j] # cbs[v][i] /\ cbs[w][j] \in Listener
        BY <1>2, <1>9, <2>3, OneList DEF Types
      <4>2. QED
        BY <4>1, <1>1, <1>2 DEF Types, v
    <3>2. \A u \in Thread : Tells(u, w) => u # t
      BY <2>3 DEF Tells, v
    <3>3. QED
      BY <1>6, <1>8, <2>1, <2>2, <3>1, <3>2 DEF Inv, Told
  <2>4. CASE w = v
    <3>1. Sets(t, w) /\ \A u \in Thread : Sets(u, w) => u = t
      BY <1>7, <2>2, <2>4 DEF Sets
    <3>2. \A u \in Thread : ~Stores(u, w)
      <4>1. ~Stores(t, w)
        BY <1>1 DEF Stores, At
      <4>2. QED
        BY <3>1, <4>1 DEF Sets
    <3>3. ASSUME NEW j \in DOMAIN cbs[w], j \notin call[t].todo \ {i} PROVE heard'[cbs[w][j]] = call[t].new
      <4>1. cbs[w][j] \in Listener
        BY <1>2 DEF Types
      <4>2. heard'[cbs[w][j]] = heard[cbs[w][j]] \/ heard'[cbs[w][j]] = call[t].new
        BY <4>1, <1>1, <1>2 DEF Types
      <4>3. j = i => heard'[cbs[w][j]] = call[t].new
        BY <4>1, <1>1, <1>2, <2>4 DEF Types, v
      <4>4. j # i => heard[cbs[w][j]] = call[t].new
        BY <1>7, <2>4, <3>3 DEF Inv, Told
      <4>5. QED
        BY <4>2, <4>3, <4>4
    <3>4. \A u \in Thread : Tells(u, w) => u = t
      BY <3>1 DEF Sets
    <3>5. QED
      BY <1>5, <1>6, <1>8, <2>1, <2>2, <3>1, <3>2, <3>3, <3>4
  <2>5. QED
    BY <2>3, <2>4
<1>14. QED
  BY <1>6, <1>10, <1>11, <1>12, <1>13, TypePartsNext DEF Inv

LEMMA AllToldKeeps ==
  ASSUME Inv, NEW t \in Thread, AllTold(t)
  PROVE  Inv'
<1> DEFINE v == call[t].var
           r == [at |-> "store", var |-> call[t].var, new |-> call[t].new]
<1>1. /\ At(t, "tell") /\ call[t].todo = {} /\ lock' = [lock EXCEPT ![v] = None] /\ Goes(t, r)
      /\ val' = val /\ cbs' = cbs /\ funId' = funId /\ unused' = unused /\ stores' = stores
      /\ given' = given /\ heard' = heard /\ raced' = raced /\ overlap' = overlap
  BY DEF AllTold, Unlock, history
<1>2. /\ Types /\ Exclusive /\ call \in [Thread -> Calls] /\ v \in Var /\ call[t].new \in Value
  BY <1>1, InThread
<1>3. r \in Calls /\ r.at = "store" /\ r.var = v /\ r.new = call[t].new
  BY <1>2 DEF Calls
<1> HIDE DEF r
<1>4. /\ call' \in [Thread -> Calls] /\ call'[t] = r
      /\ \A u \in Thread : u # t => call'[u] = call[u]
      /\ UsedOnce' /\ Drawn' /\ Listed'
  <2>1. ~Adds(t)
    BY <1>1 DEF Adds, At
  <2>2. QED
    BY <1>1, <1>3, <2>1, AddingStays
<1>5. Tells(t, v) /\ Inside(t, v)
  BY <1>1 DEF Tells, Inside, At
<1>6. \A w \in Var : w # v => ~Inside(t, w) /\ ~Tells(t, w) /\ ~Stores(t, w)
  BY <1>1 DEF Inside, Tells, Stores
<1>7. /\ \A w \in Var : ~Inside(t, w)' /\ ~Tells(t, w)' /\ (Stores(t, w)' <=> w = v)
      /\ \A u \in Thread, w \in Var :
           u # t => (Inside(u, w)' <=> Inside(u, w)) /\ (Tells(u, w)' <=> Tells(u, w)) /\ (Stores(u, w)' <=> Stores(u, w))
  BY <1>3, <1>4 DEF Inside, Tells, Stores, At
<1> HIDE DEF v
<1>8. Types'
  <2>1. lock' \in [Var -> Thread \cup {None}]
    BY <1>1, <1>2 DEF Types
  <2>2. QED
    BY <1>1, <1>2, <2>1 DEF Types
<1>9. Exclusive'
  <2>1. lock[v] = t /\ lock'[v] = None /\ None \notin Thread /\ \A w \in Var : w # v => lock'[w] = lock[w]
    BY <1>1, <1>2, <1>5, ConfigVarAssumption DEF Exclusive, Types
  <2>2. \A u \in Thread : u # t => ~Inside(u, v)
    BY <1>2, <2>1 DEF Exclusive
  <2>3. ASSUME NEW u \in Thread, NEW w \in Var PROVE Inside(u, w)' <=> lock'[w] = u
    BY <1>2, <1>6, <1>7, <2>1, <2>2 DEF Exclusive
  <2>4. QED
    BY <2>3 DEF Exclusive
<1>10. TodoListed'
  BY <1>1, <1>4, <1>7 DEF Inv, TodoListed
<1>11. Told'
  <2> SUFFICES ASSUME ~raced, NEW w \in Var \ overlap
               PROVE  /\ \A y, u \in Thread : Sets(y, w)' /\ Sets(u, w)' => y = u
                      /\ \A j \in DOMAIN cbs[w] :
                           /\ (\A y \in Thread : ~Sets(y, w)') => heard[cbs[w][j]] = val[w]
                           /\ \A y \in Thread :
                                /\ Stores(y, w)' => heard[cbs[w][j]] = call'[y].new
                                /\ Tells(y, w)' /\ j \notin call'[y].todo => heard[cbs[w][j]] = call'[y].new
    BY <1>1 DEF Told
  <2>1. \A u \in Thread : (Sets(u, w)' <=> Sets(u, w)) /\ call'[u].new = call[u].new
    BY <1>3, <1>4, <1>5, <1>6, <1>7 DEF Sets
  <2>2. \A y, u \in Thread : Sets(y, w) /\ Sets(u, w) => y = u
    BY DEF Inv, Told
  <2>3. ASSUME NEW j \in DOMAIN cbs[w] PROVE Stores(t, w)' => heard[cbs[w][j]] = call[t].new
    BY <1>1, <1>5, <1>7 DEF Inv, Told
  <2>4. QED
    BY <1>4, <1>7, <2>1, <2>2, <2>3 DEF Inv, Told
<1>12. QED
  BY <1>4, <1>8, <1>9, <1>10, <1>11, TypePartsNext DEF Inv

LEMMA StoreKeeps ==
  ASSUME Inv, NEW t \in Thread, Store(t)
  PROVE  Inv'
<1> DEFINE v == call[t].var
<1>1. /\ At(t, "store") /\ Free(v) /\ val' = [val EXCEPT ![v] = call[t].new] /\ Goes(t, Out)
      /\ cbs' = cbs /\ lock' = lock /\ funId' = funId /\ unused' = unused /\ stores' = stores
      /\ given' = given /\ heard' = heard /\ raced' = raced /\ overlap' = overlap
  BY DEF Store, history
<1>2. /\ Types /\ Exclusive /\ call \in [Thread -> Calls] /\ v \in Var /\ call[t].new \in Value
  BY <1>1, InThread
<1>3. Out \in Calls /\ Out.at = "out"
  BY DEF Calls, Out
<1>4. /\ call' \in [Thread -> Calls] /\ call'[t] = Out
      /\ \A u \in Thread : u # t => call'[u] = call[u]
      /\ UsedOnce' /\ Drawn' /\ Listed'
  <2>1. ~Adds(t)
    BY <1>1 DEF Adds, At
  <2>2. QED
    BY <1>1, <1>3, <2>1, AddingStays
<1>5. Stores(t, v) /\ \A w \in Var : ~Inside(t, w) /\ ~Tells(t, w) /\ (Stores(t, w) => w = v)
  BY <1>1 DEF Stores, Tells, Inside, At
<1>6. /\ \A w \in Var : ~Inside(t, w)' /\ ~Tells(t, w)' /\ ~Stores(t, w)'
      /\ \A u \in Thread, w \in Var :
           u # t => (Inside(u, w)' <=> Inside(u, w)) /\ (Tells(u, w)' <=> Tells(u, w)) /\ (Stores(u, w)' <=> Stores(u, w))
  BY <1>3, <1>4 DEF Inside, Tells, Stores, At
<1> HIDE DEF v
<1>7. Types'
  <2>1. val' \in [Var -> Value]
    BY <1>1, <1>2 DEF Types
  <2>2. QED
    BY <1>1, <1>2, <2>1 DEF Types
<1>8. Exclusive'
  <2>1. \A u \in Thread, w \in Var : Inside(u, w)' <=> Inside(u, w)
    BY <1>5, <1>6
  <2>2. QED
    BY <1>1, <1>2, <2>1 DEF Exclusive
<1>9. TodoListed'
  BY <1>1, <1>4, <1>6 DEF Inv, TodoListed
<1>10. Told'
  <2> SUFFICES ASSUME ~raced, NEW w \in Var \ overlap
               PROVE  /\ \A y, u \in Thread : Sets(y, w)' /\ Sets(u, w)' => y = u
                      /\ \A j \in DOMAIN cbs[w] :
                           /\ (\A y \in Thread : ~Sets(y, w)') => heard[cbs[w][j]] = val'[w]
                           /\ \A y \in Thread :
                                /\ Stores(y, w)' => heard[cbs[w][j]] = call'[y].new
                                /\ Tells(y, w)' /\ j \notin call'[y].todo => heard[cbs[w][j]] = call'[y].new
    BY <1>1 DEF Told
  <2>1. \A y, u \in Thread : Sets(y, w) /\ Sets(u, w) => y = u
    BY DEF Inv, Told
  <2>2. CASE w = v
    <3>1. val'[w] = call[t].new
      BY <1>1, <1>2, <2>2 DEF Types
    <3>2. \A j \in DOMAIN cbs[w] : heard[cbs[w][j]] = val'[w]
      BY <1>5, <2>2, <3>1 DEF Inv, Told
    <3>3. \A u \in Thread : Sets(u, w) => u = t
      BY <1>5, <2>1, <2>2 DEF Sets
    <3>4. \A u \in Thread : ~Stores(u, w)' /\ ~Tells(u, w)'
      BY <1>6, <3>3 DEF Sets
    <3>5. QED
      BY <3>2, <3>4 DEF Sets
  <2>3. CASE w # v
    <3>1. val'[w] = val[w]
      BY <1>1, <1>2, <2>3 DEF Types
    <3>2. \A u \in Thread : (Tells(u, w)' <=> Tells(u, w)) /\ (Stores(u, w)' <=> Stores(u, w))
                            /\ (Sets(u, w)' <=> Sets(u, w)) /\ (Sets(u, w) => call'[u] = call[u])
      BY <2>3, <1>4, <1>5, <1>6 DEF Sets
    <3>3. QED
      BY <3>1, <3>2 DEF Inv, Told, Sets
  <2>4. QED
    BY <2>2, <2>3
<1>11. QED
  BY <1>4, <1>7, <1>8, <1>9, <1>10, TypePartsNext DEF Inv

-----------------------------------------------------------------------------
LEMMA Begins == Init => Inv
<1> SUFFICES ASSUME Init PROVE Inv
  OBVIOUS
<1>1. /\ \A t \in Thread : call[t] = Out
      /\ \A v \in Var : cbs[v] = <<>> /\ given[v] = {} /\ lock[v] = None
      /\ DOMAIN cbs = Var
  BY DEF Init
<1>2. \A v \in Var : DOMAIN cbs[v] = {}
  BY <1>1
<1>3. \A t \in Thread : /\ ~Adds(t) /\ ~At(t, "written") /\ ~At(t, "inserted")
                        /\ \A v \in Var : ~Inside(t, v) /\ ~Sets(t, v) /\ ~Tells(t, v) /\ ~Inserted(t, v)
  <2>1. Out.at = "out"
    BY DEF Out
  <2>2. \A t \in Thread : call[t].at = "out"
    BY <1>1, <2>1
  <2>3. QED
    BY <2>2 DEF Adds, Inside, Sets, Tells, Stores, Inserted, At
<1>4. Types /\ call \in [Thread -> Calls]
  <2>1. Out \in Calls
    BY DEF Calls
  <2>2. stores \in 0 .. MaxStore /\ funId \in Nat
    BY ConfigVarAssumption DEF Init
  <2>3. QED
    BY <1>1, <1>2, <2>1, <2>2 DEF Init, Types
<1>5. Exclusive
  BY <1>1, <1>3, ConfigVarAssumption DEF Exclusive
<1>6. TodoListed /\ UsedOnce
  BY <1>1, <1>3 DEF TodoListed, UsedOnce
<1>7. Drawn /\ Told
  BY <1>1, <1>2, <1>3 DEF Drawn, Told, UniqueIds
<1>8. Listed
  BY <1>1, <1>2, <1>3 DEF Listed
<1>9. QED
  BY <1>4, <1>5, <1>6, <1>7, <1>8, TypeParts DEF Inv

LEMMA NextKeeps == Inv /\ [Next]_vars => Inv'
<1> SUFFICES ASSUME Inv, [Next]_vars PROVE Inv'
  OBVIOUS
<1>1. CASE UNCHANGED vars
  <2>1. TypeOK' /\ TodoListed'
    BY <1>1 DEF Inv, TypeOK, TodoListed, Inside, Tells, At, vars, config, history
  <2>2. UsedOnce' /\ Drawn' /\ Listed' /\ Told'
    BY <1>1 DEF Inv, UsedOnce, Drawn, Listed, Told, UniqueIds, Adds, Inserted, Sets, Tells, Stores, At,
                vars, config, history
  <2>3. QED
    BY <2>1, <2>2 DEF Inv
<1>2. CASE Next
  <2>1. PICK t \in Thread :
          \/ Goon(t)
          \/ \E v \in Var :
               \/ \E l \in Listener : AddRead(t, v, l) \/ \E g \in given[v] : DelListener(t, v, g)
               \/ ClearListener(t, v)
               \/ \E x \in Value : SetValue(t, v, x)
    BY <1>2 DEF Next
  <2>2. CASE Goon(t)
    BY <2>2, AddWriteKeeps, AddInsertKeeps, AddReturnKeeps, TellKeeps, AllToldKeeps, StoreKeeps DEF Goon
  <2>3. ASSUME NEW v \in Var, NEW l \in Listener, AddRead(t, v, l) PROVE Inv'
    BY <2>3, AddReadKeeps
  <2>4. ASSUME NEW v \in Var, NEW g \in given[v], DelListener(t, v, g) PROVE Inv'
    BY <2>4, DelListenerKeeps
  <2>5. ASSUME NEW v \in Var, ClearListener(t, v) PROVE Inv'
    BY <2>5, ClearListenerKeeps
  <2>6. ASSUME NEW v \in Var, NEW x \in Value, SetValue(t, v, x) PROVE Inv'
    BY <2>6, SetValueKeeps
  <2>7. QED
    BY <2>1, <2>2, <2>3, <2>4, <2>5, <2>6
<1>3. QED
  BY <1>1, <1>2

(* One thread at a time is in a section of a variable, callbacks are used  *)
(* once, and ids, listeners and what was told agree, in every state.       *)
THEOREM ConfigVarInvariant == Spec => []Inv
<1>1. QED
  BY Begins, NextKeeps, PTL DEF Spec

-----------------------------------------------------------------------------
(* However threads add, remove, clear and set: as long as no two           *)
(* addListener() of one type have run at a time, no id is given out twice, *)
(* and a variable has the listeners that were added and not removed.       *)
THEOREM ConfigVarKeepsListeners == Spec => []KeepsListeners
<1>1. ASSUME Inv PROVE KeepsListeners
  <2> SUFFICES ASSUME ~raced PROVE UniqueIds /\ \A v \in Var :
                 Settled(v) => {<<i, cbs[v][i]>> : i \in DOMAIN cbs[v]} = given[v]
    BY DEF KeepsListeners
  <2>1. UniqueIds
    BY <1>1 DEF Inv, Drawn
  <2>2. ASSUME NEW v \in Var, Settled(v) PROVE {<<i, cbs[v][i]>> : i \in DOMAIN cbs[v]} = given[v]
    <3>1. \A t \in Thread : ~Inserted(t, v)
      BY <2>2 DEF Settled, Adding, Inserted, At
    <3>2. \A i \in DOMAIN cbs[v] : <<i, cbs[v][i]>> \in given[v]
      BY <1>1, <3>1, OnList
    <3>3. ASSUME NEW g \in given[v] PROVE g[1] \in DOMAIN cbs[v] /\ g = <<g[1], cbs[v][g[1]]>>
      <4>1. g \in Nat \X Listener
        BY <1>1, TypeParts DEF Inv, Types
      <4>2. g[1] \in Nat /\ g[2] \in Listener /\ g = <<g[1], g[2]>>
        BY <4>1
      <4>3. g[1] \in DOMAIN cbs[v] /\ cbs[v][g[1]] = g[2]
        BY <1>1, <4>2 DEF Inv, Listed
      <4>4. QED
        BY <4>2, <4>3
    <3>4. QED
      BY <3>2, <3>3
  <2>3. QED
    BY <2>1, <2>2
<1>2. QED
  BY <1>1, ConfigVarInvariant, PTL

(* What a listener has heard last is the value of its variable, once the   *)
(* value it was told is stored, unless a setValue() or an addListener()    *)
(* came between the two sections of a setValue().                          *)
THEOREM ConfigVarHeard == Spec => []HeardIsValue
<1>1. ASSUME Inv PROVE HeardIsValue
  <2> SUFFICES ASSUME NEW v \in Var, Free(v), ~Storing(v), v \notin overlap, NEW g \in given[v], ~raced
               PROVE  heard[g[2]] = val[v]
    BY DEF HeardIsValue
  <2>1. \A t \in Thread : ~Sets(t, v)
    BY <1>1, FreeMeans DEF Sets, Stores, Storing
  <2>2. g[1] \in DOMAIN cbs[v] /\ cbs[v][g[1]] = g[2]
    <3>1. g \in Nat \X Listener
      BY <1>1, TypeParts DEF Inv, Types
    <3>2. g[1] \in Nat /\ g[2] \in Listener /\ g = <<g[1], g[2]>>
      BY <3>1
    <3>3. QED
      BY <1>1, <3>2 DEF Inv, Listed
  <2>3. QED
    BY <1>1, <2>1, <2>2 DEF Inv, Told
<1>2. QED
  BY <1>1, ConfigVarInvariant, PTL

(* While setValue() walks the listeners of a variable, no thread adds or   *)
(* removes one: its iterator stays good.                                   *)
THEOREM ConfigVarTelling == Spec => TellingKeepsListenersStep
<1> DEFINE Step == \A t \in Thread : At(t, "tell") => cbs'[call[t].var] = cbs[call[t].var]
<1>1. ASSUME Inv, [Next]_vars PROVE [Step]_vars
  <2> SUFFICES ASSUME Next, NEW t \in Thread, At(t, "tell") PROVE cbs'[call[t].var] = cbs[call[t].var]
    BY <1>1
  <2> DEFINE v == call[t].var
  <2>1. /\ Types /\ Exclusive /\ call \in [Thread -> Calls] /\ v \in Var
    BY <1>1, InThread
  <2>2. lock[v] = t /\ ~Free(v)
    <3>1. Inside(t, v)
      BY DEF Inside, At
    <3>2. QED
      BY <2>1, <3>1, ConfigVarAssumption DEF Exclusive, Free
  <2> HIDE DEF v
  <2>3. ASSUME NEW u \in Thread, AddInsert(u) PROVE cbs'[v] = cbs[v]
    <3>1. call[u].var # v
      <4>1. u # t
        BY <2>3 DEF AddInsert, At
      <4>2. Inside(u, call[u].var)
        BY <2>3 DEF AddInsert, Inside, At
      <4>3. QED
        BY <2>1, <2>2, <4>1, <4>2 DEF Exclusive
    <3>2. QED
      BY <2>1, <2>3, <3>1 DEF AddInsert, Types
  <2>4. ASSUME NEW u \in Thread, NEW w \in Var, NEW g \in given[w], DelListener(u, w, g) PROVE cbs'[v] = cbs[v]
    BY <2>1, <2>2, <2>4 DEF DelListener, Types
  <2>5. ASSUME NEW u \in Thread, NEW w \in Var, ClearListener(u, w) PROVE cbs'[v] = cbs[v]
    BY <2>1, <2>2, <2>5 DEF ClearListener, Types
  <2>6. ASSUME NEW u \in Thread,
               \/ AddWrite(u) \/ AddReturn(u) \/ Tell(u) \/ AllTold(u) \/ Store(u)
               \/ \E w \in Var : (\E l \in Listener : AddRead(u, w, l)) \/ \E x \in Value : SetValue(u, w, x)
        PROVE  cbs' = cbs
    BY <2>6 DEF AddWrite, AddReturn, Tell, AllTold, Store, AddRead, SetValue, config
  <2>7. cbs'[v] = cbs[v]
    BY <2>3, <2>4, <2>5, <2>6 DEF Next, Goon
  <2>8. QED
    BY <2>7 DEF v
<1>2. QED
  BY <1>1, ConfigVarInvariant, PTL DEF Spec, TellingKeepsListenersStep
=============================================================================

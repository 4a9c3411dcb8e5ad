--------------------------- MODULE LogWriteProofs ---------------------------
(***************************************************************************)
(* For any threads, consoles, files, levels and window: a walk does every  *)
(* appender that stays in the list once, a record is dropped only while    *)
(* its file has failed, and goes to a file reopened within the window.     *)
(***************************************************************************)
EXTENDS LogWrite, TLAPS

-----------------------------------------------------------------------------
(* The inductive invariant.                                                *)

(* An appender is constructed once and is in the list once. *)
Used ==
  /\ \A k \in DOMAIN appenders : appenders[k] \notin unused
  /\ \A t \in Thread : at[t] \notin unused /\ \A a \in done[t] : a \notin unused

Distinct == \A j, k \in DOMAIN appenders : appenders[j] = appenders[k] => j = k

(* Nothing is done before a walk begins. *)
Idle == \A t \in Thread : ~Walking(t) => done[t] = {}

(* Who walks while the nodes are freed is past them. *)
Cleaned == clearing /\ ~broken => \A t \in Thread : Walking(t) => at[t] = End /\ through[t] = {}

(* What is done lies behind the iterator, and what lies behind it is done. *)
Behind ==
  ~broken => \A t \in Thread : Walking(t) =>
    /\ at[t] # End => InList(at[t])
    /\ \A a \in done[t] : InList(a) => Position(a) < Position(at[t])
    /\ \A a \in through[t] : InList(a) /\ (Position(a) < Position(at[t]) => a \in done[t])

Unopened == \A f \in File \cap unused : ~stream[f].open /\ ~stream[f].fail

(* The clock of a file's appender is not ahead of its last reopening. *)
Times ==
  /\ \A f \in File : lastTime[f] <= tried[f] /\ tried[f] <= clock
  /\ \A t \in Thread : /\ record[t].time <= clock
                       /\ pc[t] = "stamp" => record[t].time <= tried[at[t]]

Inv ==
  /\ TypeOK /\ Used /\ Distinct /\ Idle /\ Cleaned /\ Behind
  /\ Unopened /\ DroppedOnlyInFault /\ Times /\ FreshFile

-----------------------------------------------------------------------------
(* Places in the list.                                                     *)

Places ==
  /\ \A k \in 1 .. Len(appenders) :
       appenders[k] \in Appender /\ InList(appenders[k]) /\ Position(appenders[k]) = k
  /\ \A a \in Appender : InList(a) => Position(a) \in 1 .. Len(appenders) /\ appenders[Position(a)] = a
  /\ Position(End) = Len(appenders) + 1
  /\ Len(appenders) \in Nat /\ DOMAIN appenders = 1 .. Len(appenders)

LEMMA Placed == TypeOK /\ Distinct => Places
<1> SUFFICES ASSUME TypeOK, Distinct PROVE Places
  OBVIOUS
<1>1. appenders \in Seq(Appender) /\ End \notin Appender
  BY LogWriteAssumption DEF TypeOK, Appender
<1>2. Len(appenders) \in Nat /\ DOMAIN appenders = 1 .. Len(appenders)
  BY <1>1
<1>3. \A k \in 1 .. Len(appenders) : appenders[k] \in Appender
  BY <1>1
<1>4. Position(End) = Len(appenders) + 1
  BY DEF Position
<1>5. ASSUME NEW a \in Appender, InList(a)
      PROVE  Position(a) \in 1 .. Len(appenders) /\ appenders[Position(a)] = a
  BY <1>1, <1>2, <1>5 DEF Position, InList
<1>6. ASSUME NEW k \in 1 .. Len(appenders)
      PROVE  InList(appenders[k]) /\ Position(appenders[k]) = k
  <2>1. InList(appenders[k])
    BY <1>2 DEF InList
  <2>2. Position(appenders[k]) \in 1 .. Len(appenders) /\ appenders[Position(appenders[k])] = appenders[k]
    BY <2>1, <1>3, <1>5
  <2>3. QED
    BY <2>1, <2>2, <1>2 DEF Distinct
<1>7. QED
  BY <1>2, <1>3, <1>4, <1>5, <1>6 DEF Places

LEMMA PlacedNext == TypeOK' /\ Distinct' => Places'
  BY Placed, PTL

(* The walks, when nothing of them changes. *)
LEMMA WalksStay ==
  ASSUME Inv, appenders' = appenders, unused' = unused, clearing' = clearing, broken' = broken,
         at' = at, done' = done, through' = through, \A t \in Thread : Walking(t)' <=> Walking(t)
  PROVE  Used' /\ Distinct' /\ Idle' /\ Cleaned' /\ Behind'
<1>1. Used' /\ Distinct' /\ Idle' /\ Cleaned'
  BY DEF Inv, Used, Distinct, Idle, Cleaned
<1>2. /\ \A a : (InList(a)' <=> InList(a)) /\ Position(a)' = Position(a)
      /\ \A t \in Thread : (InList(at[t])' <=> InList(at[t])) /\ Position(at[t])' = Position(at[t])
  BY DEF InList, Position
<1>3. Behind'
  BY <1>2 DEF Inv, Behind
<1>4. QED
  BY <1>1, <1>3

LEMMA FilesStay ==
  ASSUME Inv, stream' = stream, error' = error, failing' = failing, unused' = unused
  PROVE  Unopened' /\ DroppedOnlyInFault'
  BY DEF Inv, Unopened, DroppedOnlyInFault

-----------------------------------------------------------------------------
(* The files.                                                              *)

FileTypes ==
  /\ stream \in [File -> [open : BOOLEAN, fail : BOOLEAN]] /\ error \in [File -> BOOLEAN]
  /\ tried \in [File -> Nat] /\ failing \subseteq File

(* reopen() leaves a stream that is open or has failed, and knows of it. *)
LEMMA Reopens ==
  ASSUME TypeOK, NEW f \in File, ReopenFile(f), stream[f].fail => f \in failing
  PROVE  /\ FileTypes'
         /\ \A g \in File : g # f => /\ stream'[g] = stream[g] /\ error'[g] = error[g] /\ tried'[g] = tried[g]
                                     /\ g \in failing' <=> g \in failing
         /\ stream'[f].fail \/ error'[f] => f \in failing'
         /\ stream'[f].open \/ stream'[f].fail
         /\ tried'[f] = clock
<1> DEFINE s == stream[f]
<1>1. PICK answer \in BOOLEAN :
        /\ stream' = [stream EXCEPT ![f] = Reopened(s, answer)]
        /\ error' = [error EXCEPT ![f] = stream'[f].fail]
        /\ failing' = (IF s.open /\ s.fail THEN failing ELSE IF answer THEN failing \ {f} ELSE failing \cup {f})
        /\ tried' = [tried EXCEPT ![f] = clock]
  BY DEF ReopenFile
<1>2. FileTypes /\ clock \in Nat
  BY DEF TypeOK, FileTypes
<1>3. s \in [open : BOOLEAN, fail : BOOLEAN]
  BY <1>2 DEF FileTypes
<1> DEFINE r == Reopened(s, answer)
<1>4. /\ r \in [open : BOOLEAN, fail : BOOLEAN]
      /\ s.open /\ s.fail => r.open /\ r.fail
      /\ ~(s.open /\ s.fail) => r.open = answer /\ r.fail = ~answer
  <2>1. CASE s.fail
    <3>1. r = Opened(s, answer)
      BY <2>1 DEF Reopened
    <3>2. CASE s.open
      <4>1. r = [s EXCEPT !.fail = TRUE]
        BY <3>1, <3>2 DEF Opened
      <4>2. QED
        BY <4>1, <1>3, <2>1, <3>2
    <3>3. CASE ~s.open
      <4>1. r = [open |-> answer, fail |-> ~answer]
        BY <3>1, <3>3 DEF Opened
      <4>2. QED
        BY <4>1, <3>3
    <3>4. QED
      BY <3>2, <3>3
  <2>2. CASE ~s.fail
    <3> DEFINE c == [s EXCEPT !.open = FALSE]
    <3>1. ~c.open
      BY <1>3
    <3>2. r = Opened(c, answer)
      BY <2>2 DEF Reopened
    <3> HIDE DEF c
    <3>3. r = [open |-> answer, fail |-> ~answer]
      BY <3>1, <3>2 DEF Opened
    <3>4. QED
      BY <3>3, <2>2
  <2>3. QED
    BY <2>1, <2>2
<1> HIDE DEF r
<1>5. stream'[f] = r /\ \A g \in File : g # f => stream'[g] = stream[g]
  BY <1>1, <1>2 DEF FileTypes, r
<1>6. error'[f] = r.fail /\ \A g \in File : g # f => error'[g] = error[g]
  BY <1>1, <1>2, <1>5 DEF FileTypes
<1>7. tried'[f] = clock /\ \A g \in File : g # f => tried'[g] = tried[g]
  BY <1>1, <1>2 DEF FileTypes
<1>8. /\ s.open /\ s.fail => failing' = failing
      /\ ~(s.open /\ s.fail) /\ answer => failing' = failing \ {f}
      /\ ~(s.open /\ s.fail) /\ ~answer => failing' = failing \cup {f}
  BY <1>1
<1>9. \A g \in File : g # f => (g \in failing' <=> g \in failing)
  BY <1>8
<1>10. r.fail => f \in failing'
  BY <1>4, <1>8
<1>11. FileTypes'
  <2>1. stream' \in [File -> [open : BOOLEAN, fail : BOOLEAN]]
    BY <1>1, <1>2, <1>4 DEF FileTypes, r
  <2>2. error' \in [File -> BOOLEAN]
    <3>1. r.fail \in BOOLEAN
      BY <1>4
    <3>2. QED
      BY <1>1, <1>2, <1>5, <3>1 DEF FileTypes
  <2>3. tried' \in [File -> Nat]
    BY <1>1, <1>2 DEF FileTypes
  <2>4. failing' \subseteq File
    BY <1>2, <1>8 DEF FileTypes
  <2>5. QED
    BY <2>1, <2>2, <2>3, <2>4 DEF FileTypes
<1>12. r.open \/ r.fail
  BY <1>4
<1>13. QED
  BY <1>5, <1>6, <1>7, <1>9, <1>10, <1>11, <1>12

(* A file in use is reopened, or one that is new. *)
LEMMA ReopenKeepsFiles ==
  ASSUME Inv, NEW f \in File, ReopenFile(f), unused' \subseteq unused, \A g \in File : g # f => (g \in unused' <=> g \in unused),
         f \notin unused'
  PROVE  FileTypes' /\ Unopened' /\ DroppedOnlyInFault'
<1>1. stream[f].fail => f \in failing
  BY DEF Inv, Unopened, DroppedOnlyInFault
<1>2. TypeOK
  BY DEF Inv
<1>3. /\ FileTypes'
      /\ \A g \in File : g # f => /\ stream'[g] = stream[g] /\ error'[g] = error[g]
                                  /\ g \in failing' <=> g \in failing
      /\ stream'[f].fail \/ error'[f] => f \in failing'
      /\ stream'[f].open \/ stream'[f].fail
  BY <1>1, <1>2, Reopens
<1>4. Unopened'
  BY <1>3 DEF Inv, Unopened
<1>5. DroppedOnlyInFault'
  BY <1>3 DEF Inv, DroppedOnlyInFault
<1>6. QED
  BY <1>3, <1>4, <1>5

(* The clocks, when a file is reopened. *)
LEMMA ReopenKeepsTimes ==
  ASSUME Inv, NEW f \in File, ReopenFile(f), clock' = clock
  PROVE  /\ \A g \in File : tried'[g] >= tried[g] /\ tried'[g] <= clock' /\ tried'[g] \in Nat
         /\ tried'[f] = clock
<1>1. tried \in [File -> Nat] /\ clock \in Nat /\ tried' = [tried EXCEPT ![f] = clock]
  BY DEF Inv, TypeOK, ReopenFile
<1>2. \A g \in File : tried[g] <= clock
  BY DEF Inv, Times
<1>3. QED
  BY <1>1, <1>2

-----------------------------------------------------------------------------
(* A thread's iterator.                                                    *)

WalkTypes ==
  /\ pc \in [Thread -> {"idle", "wrap", "loop", "reopen", "stamp", "check", "write"}]
  /\ at \in [Thread -> Appender \cup {End}]
  /\ done \in [Thread -> SUBSET Appender] /\ through \in [Thread -> SUBSET Appender]
  /\ \A t \in Thread : pc[t] \in {"reopen", "stamp", "check", "write"} => at[t] \in File

LEMMA AdvanceKeeps ==
  ASSUME Inv, NEW t \in Thread, Walking(t), ~broken, at[t] # End, Advance(t),
         appenders' = appenders, unused' = unused, clearing' = clearing, broken' = broken, through' = through
  PROVE  /\ WalkTypes' /\ Used' /\ Distinct' /\ Idle' /\ Cleaned' /\ Behind'
         /\ pc'[t] = "loop"
         /\ \A u \in Thread : u # t => pc'[u] = pc[u] /\ at'[u] = at[u]
<1> DEFINE a == at[t]
           b == After(a)
<1>1. /\ at' = [at EXCEPT ![t] = b] /\ done' = [done EXCEPT ![t] = done[t] \cup {a}]
      /\ pc' = [pc EXCEPT ![t] = "loop"]
  BY DEF Advance, Goto
<1>2. TypeOK /\ WalkTypes /\ Places /\ appenders \in Seq(Appender)
  BY Placed DEF Inv, TypeOK, WalkTypes
<1>3. a \in Appender /\ InList(a) /\ Position(a) \in 1 .. Len(appenders) /\ appenders[Position(a)] = a
  <2>1. a \in Appender
    BY <1>2 DEF WalkTypes
  <2>2. InList(a)
    BY DEF Inv, Behind
  <2>3. QED
    BY <1>2, <2>1, <2>2 DEF Places
<1>4. /\ b \in Appender \cup {End} /\ Position(b) = Position(a) + 1
      /\ b # End => InList(b) /\ b \notin unused
  <2>1. CASE Position(a) = Len(appenders)
    <3>1. b = End
      BY <2>1 DEF After
    <3>2. QED
      BY <3>1, <2>1, <1>2 DEF Places
  <2>2. CASE Position(a) # Len(appenders)
    <3>1. Position(a) + 1 \in 1 .. Len(appenders)
      BY <2>2, <1>2, <1>3 DEF Places
    <3>2. b = appenders[Position(a) + 1]
      BY <2>2 DEF After
    <3>3. QED
      BY <3>1, <3>2, <1>2 DEF Places, Inv, Used
  <2>3. QED
    BY <2>1, <2>2
<1>5. End \notin unused
  BY LogWriteAssumption DEF Inv, TypeOK, Appender
<1>6. a \notin unused
  BY DEF Inv, Used
<1> HIDE DEF b
<1>7. /\ at'[t] = b /\ done'[t] = done[t] \cup {a} /\ pc'[t] = "loop"
      /\ \A u \in Thread : u # t => at'[u] = at[u] /\ done'[u] = done[u] /\ pc'[u] = pc[u]
  BY <1>1, <1>2 DEF WalkTypes
<1>8. WalkTypes'
  <2>1. /\ at' \in [Thread -> Appender \cup {End}] /\ done' \in [Thread -> SUBSET Appender]
        /\ pc' \in [Thread -> {"idle", "wrap", "loop", "reopen", "stamp", "check", "write"}]
    BY <1>1, <1>2, <1>3, <1>4 DEF WalkTypes
  <2>2. QED
    BY <1>2, <1>7, <2>1 DEF WalkTypes
<1>9. Used' /\ Distinct'
  BY <1>4, <1>5, <1>6, <1>7 DEF Inv, Used, Distinct
<1>10. \A u \in Thread : Walking(u)' <=> Walking(u)
  BY <1>7 DEF Walking
<1>11. Idle'
  BY <1>7, <1>10 DEF Inv, Idle
<1>12. Cleaned'
  BY <1>7, <1>10 DEF Inv, Cleaned
<1>13. /\ \A c : (InList(c)' <=> InList(c)) /\ Position(c)' = Position(c)
       /\ \A u \in Thread : u # t => (InList(at[u])' <=> InList(at[u])) /\ Position(at[u])' = Position(at[u])
       /\ (InList(at[t])' <=> InList(b)) /\ Position(at[t])' = Position(b)
  <2>1. \A c : (InList(c)' <=> InList(c)) /\ Position(c)' = Position(c)
    BY DEF InList, Position
  <2>2. ASSUME NEW u \in Thread, u # t PROVE (InList(at[u])' <=> InList(at[u])) /\ Position(at[u])' = Position(at[u])
    <3>1. at'[u] = at[u]
      BY <2>2, <1>7
    <3>2. QED
      BY <3>1 DEF InList, Position
  <2>3. (InList(at[t])' <=> InList(b)) /\ Position(at[t])' = Position(b)
    <3>1. at'[t] = b
      BY <1>7
    <3>2. QED
      BY <3>1 DEF InList, Position
  <2>4. QED
    BY <2>1, <2>2, <2>3
<1>14. Behind'
  <2> SUFFICES ASSUME NEW u \in Thread, Walking(u)
               PROVE  /\ at'[u] # End => InList(at[u])'
                      /\ \A c \in done'[u] : InList(c)' => Position(c)' < Position(at[u])'
                      /\ \A c \in through'[u] : InList(c)' /\ (Position(c)' < Position(at[u])' => c \in done'[u])
    BY <1>10 DEF Behind
  <2>1. /\ at[u] # End => InList(at[u])
        /\ \A c \in done[u] : InList(c) => Position(c) < Position(at[u])
        /\ \A c \in through[u] : InList(c) /\ (Position(c) < Position(at[u]) => c \in done[u])
    BY DEF Inv, Behind
  <2>2. CASE u # t
    BY <2>1, <2>2, <1>7, <1>13
  <2>3. CASE u = t
    <3>1. \A c \in done[t] \cup {a} : InList(c) => Position(c) < Position(b)
      <4> SUFFICES ASSUME NEW c \in done[t] \cup {a}, InList(c) PROVE Position(c) < Position(b)
        OBVIOUS
      <4>1. c \in Appender
        BY <1>2, <1>3 DEF WalkTypes
      <4>2. Position(c) \in Nat
        BY <4>1, <1>2 DEF Places
      <4>3. c # a => Position(c) < Position(a)
        BY <2>1, <2>3
      <4>4. QED
        BY <4>2, <4>3, <1>3, <1>4
    <3>2. \A c \in through[t] : InList(c) /\ (Position(c) < Position(b) => c \in done[t] \cup {a})
      <4> SUFFICES ASSUME NEW c \in through[t] PROVE InList(c) /\ (Position(c) < Position(b) => c \in done[t] \cup {a})
        OBVIOUS
      <4>1. c \in Appender /\ InList(c)
        BY <1>2, <2>1, <2>3 DEF WalkTypes
      <4>2. Position(c) \in Nat /\ appenders[Position(c)] = c
        BY <4>1, <1>2 DEF Places
      <4>3. Position(c) < Position(b) => Position(c) < Position(a) \/ Position(c) = Position(a)
        BY <4>2, <1>3, <1>4
      <4>4. Position(c) = Position(a) => c = a
        BY <4>2, <1>3
      <4>5. QED
        BY <4>1, <4>3, <4>4, <2>1, <2>3
    <3>3. QED
      BY <2>3, <3>1, <3>2, <1>4, <1>7, <1>13
  <2>4. QED
    BY <2>2, <2>3
<1>15. QED
  BY <1>7, <1>8, <1>9, <1>11, <1>12, <1>14

(* A record is released. *)
LEMMA ReleaseKeeps ==
  ASSUME Inv, NEW t \in Thread, Release(t), pc[t] = "wrap" \/ at[t] = End
  PROVE  Inv'
<1>1. /\ pc' = [pc EXCEPT ![t] = "idle"] /\ record' = [record EXCEPT ![t] = None]
      /\ done' = [done EXCEPT ![t] = {}] /\ through' = [through EXCEPT ![t] = {}]
      /\ clock' = clock /\ level' = level /\ appenders' = appenders /\ unused' = unused
      /\ clearing' = clearing /\ broken' = broken /\ stream' = stream /\ error' = error
      /\ lastTime' = lastTime /\ at' = at /\ failing' = failing /\ tried' = tried
  BY DEF Release, Goto, list, files
<1>2. TypeOK
  BY DEF Inv
<1>3. /\ pc'[t] = "idle" /\ record'[t].time = 0 /\ record'[t] = None /\ done'[t] = {} /\ through'[t] = {}
      /\ \A u \in Thread : u # t => pc'[u] = pc[u] /\ record'[u] = record[u] /\ done'[u] = done[u] /\ through'[u] = through[u]
  BY <1>1, <1>2 DEF TypeOK, None
<1>4. TypeOK'
  <2>1. None \in [level : Nat, time : Nat]
    BY DEF None
  <2>2. /\ pc' \in [Thread -> {"idle", "wrap", "loop", "reopen", "stamp", "check", "write"}]
        /\ record' \in [Thread -> [level : Nat, time : Nat]]
        /\ done' \in [Thread -> SUBSET Appender] /\ through' \in [Thread -> SUBSET Appender]
    BY <1>1, <1>2, <2>1 DEF TypeOK
  <2>3. \A u \in Thread : pc'[u] \in {"reopen", "stamp", "check", "write"} => at'[u] \in File
    BY <1>1, <1>2, <1>3 DEF TypeOK
  <2>4. QED
    BY <1>1, <1>2, <2>2, <2>3 DEF TypeOK
<1>5. \A u \in Thread : /\ u # t => (Walking(u)' <=> Walking(u))
                        /\ ~Walking(t)'
  BY <1>3 DEF Walking
<1>6. Used' /\ Distinct' /\ Idle'
  BY <1>1, <1>3, <1>5 DEF Inv, Used, Distinct, Idle
<1>7. Cleaned'
  BY <1>1, <1>3, <1>5 DEF Inv, Cleaned
<1>8. Behind'
  <2>1. /\ \A a : (InList(a)' <=> InList(a)) /\ Position(a)' = Position(a)
        /\ \A u \in Thread : (InList(at[u])' <=> InList(at[u])) /\ Position(at[u])' = Position(at[u])
    BY <1>1 DEF InList, Position
  <2>2. QED
    BY <1>1, <1>3, <1>5, <2>1 DEF Inv, Behind
<1>9. Unopened' /\ DroppedOnlyInFault'
  BY <1>1, FilesStay
<1>10. Times'
  <2>1. 0 <= clock
    BY <1>2 DEF TypeOK
  <2>2. QED
    BY <1>1, <1>3, <2>1 DEF Inv, Times
<1>11. FreshFile'
  BY <1>1, <1>3 DEF Inv, FreshFile
<1>12. QED
  BY <1>4, <1>6, <1>7, <1>8, <1>9, <1>10, <1>11 DEF Inv

-----------------------------------------------------------------------------
(* Logger::log and FileLogAppender::log.                                   *)

OtherTypes ==
  /\ clock \in Nat /\ level \in Level
  /\ appenders \in Seq(Appender) /\ unused \subseteq Appender
  /\ clearing \in BOOLEAN /\ broken \in BOOLEAN
  /\ lastTime \in [File -> Nat] /\ record \in [Thread -> [level : Nat, time : Nat]]

LEMMA TypeParts == TypeOK <=> OtherTypes /\ FileTypes /\ WalkTypes
  BY DEF TypeOK, OtherTypes, FileTypes, WalkTypes

LEMMA TypePartsNext == TypeOK' <=> OtherTypes' /\ FileTypes' /\ WalkTypes'
  BY DEF TypeOK, OtherTypes, FileTypes, WalkTypes

(* A step within FileLogAppender::log. *)
LEMMA WithinKeeps ==
  ASSUME Inv, NEW t \in Thread, pc[t] \in {"loop", "reopen", "stamp", "check"}, at[t] \in File,
         NEW x \in {"reopen", "stamp", "check", "write"}, Goto(t, x),
         appenders' = appenders, unused' = unused, clearing' = clearing, broken' = broken,
         at' = at, done' = done, through' = through
  PROVE  /\ WalkTypes' /\ Used' /\ Distinct' /\ Idle' /\ Cleaned' /\ Behind'
         /\ pc'[t] = x /\ \A u \in Thread : u # t => pc'[u] = pc[u]
<1>1. WalkTypes
  BY TypeParts DEF Inv
<1>2. /\ pc' \in [Thread -> {"idle", "wrap", "loop", "reopen", "stamp", "check", "write"}]
      /\ pc'[t] = x /\ \A u \in Thread : u # t => pc'[u] = pc[u]
  BY <1>1 DEF WalkTypes, Goto
<1>3. WalkTypes'
  BY <1>1, <1>2 DEF WalkTypes
<1>4. \A u \in Thread : Walking(u)' <=> Walking(u)
  BY <1>2 DEF Walking
<1>5. Used' /\ Distinct' /\ Idle' /\ Cleaned' /\ Behind'
  BY <1>4, WalksStay
<1>6. QED
  BY <1>2, <1>3, <1>5

LEMMA TestWindowKeeps ==
  ASSUME Inv, NEW t \in Thread, TestWindow(t)
  PROVE  Inv'
<1>1. /\ pc[t] = "loop" /\ at[t] \in File
      /\ Due(t) => Goto(t, "reopen")
      /\ ~Due(t) => Goto(t, "check")
      /\ clock' = clock /\ level' = level /\ appenders' = appenders /\ unused' = unused
      /\ clearing' = clearing /\ broken' = broken /\ stream' = stream /\ error' = error
      /\ lastTime' = lastTime /\ record' = record /\ at' = at /\ done' = done /\ through' = through
      /\ failing' = failing /\ tried' = tried
  BY DEF TestWindow, From, list, files, history
<1>2. /\ WalkTypes' /\ Used' /\ Distinct' /\ Idle' /\ Cleaned' /\ Behind'
      /\ Due(t) => pc'[t] = "reopen"
      /\ ~Due(t) => pc'[t] = "check"
      /\ \A u \in Thread : u # t => pc'[u] = pc[u]
  <2>1. CASE Due(t)
    BY <1>1, <2>1, WithinKeeps
  <2>2. CASE ~Due(t)
    BY <1>1, <2>2, WithinKeeps
  <2>3. QED
    BY <2>1, <2>2
<1>3. TypeOK'
  BY <1>1, <1>2, TypeParts, TypePartsNext DEF Inv, OtherTypes, FileTypes
<1>4. Unopened' /\ DroppedOnlyInFault'
  BY <1>1, FilesStay
<1>5. Times'
  <2>1. pc'[t] # "stamp"
    BY <1>2
  <2>2. QED
    BY <1>1, <1>2, <2>1 DEF Inv, Times
<1>6. FreshFile'
  <2>1. ASSUME ~Due(t) PROVE record[t].time < tried[at[t]] + Window
    <3>1. /\ record[t].time \in Nat /\ lastTime[at[t]] \in Nat /\ tried[at[t]] \in Nat
          /\ lastTime[at[t]] <= tried[at[t]]
      BY <1>1 DEF Inv, TypeOK, Times
    <3>2. ~(record[t].time >= lastTime[at[t]] + Window)
      BY <2>1 DEF Due
    <3>3. QED
      BY <3>1, <3>2, LogWriteAssumption
  <2>2. QED
    BY <1>1, <1>2, <2>1 DEF Inv, FreshFile
<1>7. QED
  BY <1>2, <1>3, <1>4, <1>5, <1>6 DEF Inv

LEMMA ReopenKeeps ==
  ASSUME Inv, NEW t \in Thread, Reopen(t)
  PROVE  Inv'
<1> DEFINE f == at[t]
<1>1. /\ pc[t] = "reopen" /\ ReopenFile(f) /\ Goto(t, "stamp")
      /\ clock' = clock /\ level' = level /\ appenders' = appenders /\ unused' = unused
      /\ clearing' = clearing /\ broken' = broken
      /\ lastTime' = lastTime /\ record' = record /\ at' = at /\ done' = done /\ through' = through
  BY DEF Reopen, From, list
<1>2. f \in File /\ f \notin unused
  BY <1>1 DEF Inv, TypeOK, Used
<1>3. /\ WalkTypes' /\ Used' /\ Distinct' /\ Idle' /\ Cleaned' /\ Behind'
      /\ pc'[t] = "stamp" /\ \A u \in Thread : u # t => pc'[u] = pc[u]
  BY <1>1, <1>2, WithinKeeps
<1>4. FileTypes' /\ Unopened' /\ DroppedOnlyInFault'
  BY <1>1, <1>2, ReopenKeepsFiles
<1>5. /\ \A g \in File : tried'[g] >= tried[g] /\ tried'[g] <= clock' /\ tried'[g] \in Nat
      /\ tried'[f] = clock
  BY <1>1, <1>2, ReopenKeepsTimes
<1>6. TypeOK'
  BY <1>1, <1>3, <1>4, TypeParts, TypePartsNext DEF Inv, OtherTypes
<1>7. /\ \A g \in File : tried[g] \in Nat /\ lastTime[g] \in Nat
      /\ \A u \in Thread : record[u].time \in Nat
      /\ \A u \in Thread : pc[u] \in {"stamp", "check", "write"} => at[u] \in File
  BY DEF Inv, TypeOK
<1>8. Times'
  <2>1. ASSUME NEW g \in File PROVE lastTime'[g] <= tried'[g] /\ tried'[g] <= clock'
    <3>1. lastTime[g] <= tried[g]
      BY DEF Inv, Times
    <3>2. QED
      BY <1>1, <1>5, <1>7, <3>1
  <2>2. ASSUME NEW u \in Thread, pc'[u] = "stamp" PROVE record'[u].time <= tried'[at'[u]]
    <3>1. CASE u = t
      BY <3>1, <1>1, <1>5 DEF Inv, Times
    <3>2. CASE u # t
      <4>1. record[u].time <= tried[at[u]] /\ at[u] \in File
        BY <2>2, <3>2, <1>3, <1>7 DEF Inv, Times
      <4>2. QED
        BY <4>1, <1>1, <1>5, <1>7
    <3>3. QED
      BY <3>1, <3>2
  <2>3. QED
    BY <1>1, <2>1, <2>2 DEF Inv, Times
<1>9. FreshFile'
  <2> SUFFICES ASSUME NEW u \in Thread, pc'[u] \in {"check", "write"} PROVE record'[u].time < tried'[at'[u]] + Window
    BY DEF FreshFile
  <2>1. pc[u] \in {"check", "write"}
    BY <1>3
  <2>2. record[u].time < tried[at[u]] + Window /\ at[u] \in File
    BY <2>1, <1>7 DEF Inv, FreshFile
  <2>3. QED
    BY <2>2, <1>1, <1>5, <1>7, LogWriteAssumption
<1>10. QED
  BY <1>3, <1>4, <1>6, <1>8, <1>9 DEF Inv

LEMMA StampKeeps ==
  ASSUME Inv, NEW t \in Thread, Stamp(t)
  PROVE  Inv'
<1>1. /\ pc[t] = "stamp" /\ lastTime' = [lastTime EXCEPT ![at[t]] = record[t].time] /\ Goto(t, "check")
      /\ clock' = clock /\ level' = level /\ appenders' = appenders /\ unused' = unused
      /\ clearing' = clearing /\ broken' = broken /\ stream' = stream /\ error' = error
      /\ record' = record /\ at' = at /\ done' = done /\ through' = through
      /\ failing' = failing /\ tried' = tried
  BY DEF Stamp, From, list, history
<1>2. /\ at[t] \in File /\ record[t].time \in Nat /\ tried[at[t]] \in Nat
      /\ lastTime \in [File -> Nat]
  BY <1>1 DEF Inv, TypeOK
<1>3. /\ WalkTypes' /\ Used' /\ Distinct' /\ Idle' /\ Cleaned' /\ Behind'
      /\ pc'[t] = "check" /\ \A u \in Thread : u # t => pc'[u] = pc[u]
  BY <1>1, <1>2, WithinKeeps
<1>4. Unopened' /\ DroppedOnlyInFault'
  BY <1>1, FilesStay
<1>5. TypeOK'
  <2>1. lastTime' \in [File -> Nat]
    BY <1>1, <1>2
  <2>2. QED
    BY <1>1, <1>3, <2>1, TypeParts, TypePartsNext DEF Inv, OtherTypes, FileTypes
<1>6. record[t].time <= tried[at[t]]
  BY <1>1 DEF Inv, Times
<1>7. Times'
  <2>1. \A g \in File : lastTime'[g] <= tried[g]
    BY <1>1, <1>2, <1>6 DEF Inv, Times
  <2>2. QED
    BY <1>1, <1>3, <2>1 DEF Inv, Times
<1>8. FreshFile'
  <2>1. record[t].time < tried[at[t]] + Window
    BY <1>2, <1>6, LogWriteAssumption
  <2>2. QED
    BY <1>1, <1>3, <2>1 DEF Inv, FreshFile
<1>9. QED
  BY <1>3, <1>4, <1>5, <1>7, <1>8 DEF Inv

LEMMA KeepKeeps ==
  ASSUME Inv, NEW t \in Thread, Keep(t)
  PROVE  Inv'
<1>1. /\ pc[t] = "check" /\ Goto(t, "write")
      /\ clock' = clock /\ level' = level /\ appenders' = appenders /\ unused' = unused
      /\ clearing' = clearing /\ broken' = broken /\ stream' = stream /\ error' = error
      /\ lastTime' = lastTime /\ record' = record /\ at' = at /\ done' = done /\ through' = through
      /\ failing' = failing /\ tried' = tried
  BY DEF Keep, From, list, files, history
<1>2. at[t] \in File
  BY <1>1 DEF Inv, TypeOK
<1>3. /\ WalkTypes' /\ Used' /\ Distinct' /\ Idle' /\ Cleaned' /\ Behind'
      /\ pc'[t] = "write" /\ \A u \in Thread : u # t => pc'[u] = pc[u]
  BY <1>1, <1>2, WithinKeeps
<1>4. Unopened' /\ DroppedOnlyInFault'
  BY <1>1, FilesStay
<1>5. TypeOK'
  BY <1>1, <1>3, TypeParts, TypePartsNext DEF Inv, OtherTypes, FileTypes
<1>6. Times'
  BY <1>1, <1>3 DEF Inv, Times
<1>7. FreshFile'
  BY <1>1, <1>3 DEF Inv, FreshFile
<1>8. QED
  BY <1>3, <1>4, <1>5, <1>6, <1>7 DEF Inv

(* WriteConsole(t) and Drop(t). *)
LEMMA PassKeeps ==
  ASSUME Inv, NEW t \in Thread, Walking(t), ~broken, at[t] # End, Advance(t),
         clock' = clock, level' = level, list' = list, broken' = broken, files' = files, record' = record,
         through' = through, failing' = failing, tried' = tried
  PROVE  Inv'
<1>1. /\ appenders' = appenders /\ unused' = unused /\ clearing' = clearing
      /\ stream' = stream /\ error' = error /\ lastTime' = lastTime
  BY DEF list, files
<1>2. /\ WalkTypes' /\ Used' /\ Distinct' /\ Idle' /\ Cleaned' /\ Behind'
      /\ pc'[t] = "loop" /\ \A u \in Thread : u # t => pc'[u] = pc[u] /\ at'[u] = at[u]
  BY <1>1, AdvanceKeeps
<1>3. TypeOK'
  BY <1>1, <1>2, TypeParts, TypePartsNext DEF Inv, OtherTypes, FileTypes
<1>4. Unopened' /\ DroppedOnlyInFault'
  BY <1>1, FilesStay
<1>5. Times' /\ FreshFile'
  BY <1>1, <1>2 DEF Inv, Times, FreshFile
<1>6. QED
  BY <1>2, <1>3, <1>4, <1>5 DEF Inv

LEMMA WriteConsoleKeeps ==
  ASSUME Inv, NEW t \in Thread, WriteConsole(t)
  PROVE  Inv'
<1>1. ~broken /\ pc[t] = "loop" /\ at[t] \in Console /\ Advance(t)
  BY DEF WriteConsole, From
<1>2. at[t] # End /\ Walking(t)
  BY <1>1, LogWriteAssumption DEF Walking
<1>3. QED
  BY <1>1, <1>2, PassKeeps DEF WriteConsole

LEMMA DropKeeps ==
  ASSUME Inv, NEW t \in Thread, Drop(t)
  PROVE  Inv'
<1>1. ~broken /\ pc[t] = "check" /\ Advance(t)
  BY DEF Drop, From
<1>2. at[t] # End /\ Walking(t)
  BY <1>1, LogWriteAssumption DEF Walking, Inv, TypeOK
<1>3. QED
  BY <1>1, <1>2, PassKeeps DEF Drop

LEMMA WriteFileKeeps ==
  ASSUME Inv, NEW t \in Thread, WriteFile(t)
  PROVE  Inv'
<1> DEFINE f == at[t]
<1>1. PICK answer \in BOOLEAN :
        LET fails == ~stream[f].fail /\ ~answer
        IN  /\ stream' = [stream EXCEPT ![f].fail = stream[f].fail \/ fails]
            /\ failing' = IF fails THEN failing \cup {f} ELSE failing
  BY DEF WriteFile
<1>2. /\ ~broken /\ pc[t] = "write" /\ Advance(t)
      /\ clock' = clock /\ level' = level /\ appenders' = appenders /\ unused' = unused
      /\ clearing' = clearing /\ broken' = broken /\ error' = error
      /\ lastTime' = lastTime /\ record' = record /\ through' = through /\ tried' = tried
  BY DEF WriteFile, From, list
<1>3. f \in File /\ f # End /\ f \notin unused /\ Walking(t)
  BY <1>2, LogWriteAssumption DEF Walking, Inv, TypeOK, Used
<1>4. /\ WalkTypes' /\ Used' /\ Distinct' /\ Idle' /\ Cleaned' /\ Behind'
      /\ pc'[t] = "loop" /\ \A u \in Thread : u # t => pc'[u] = pc[u] /\ at'[u] = at[u]
  BY <1>2, <1>3, AdvanceKeeps
<1>5. FileTypes /\ stream[f] \in [open : BOOLEAN, fail : BOOLEAN]
  BY <1>3, TypeParts DEF Inv, FileTypes
<1> DEFINE s == [stream[f] EXCEPT !.fail = stream[f].fail \/ (~stream[f].fail /\ ~answer)]
<1>6. /\ s \in [open : BOOLEAN, fail : BOOLEAN] /\ s.open = stream[f].open
      /\ s.fail <=> stream[f].fail \/ ~answer
  BY <1>5
<1>7. stream' = [stream EXCEPT ![f] = s]
  BY <1>1
<1> HIDE DEF s
<1>8. stream' \in [File -> [open : BOOLEAN, fail : BOOLEAN]] /\ stream'[f] = s
      /\ \A g \in File : g # f => stream'[g] = stream[g]
  BY <1>3, <1>5, <1>6, <1>7 DEF FileTypes
<1>9. /\ failing \subseteq failing' /\ failing' \subseteq File
      /\ s.fail /\ ~stream[f].fail => f \in failing'
  BY <1>1, <1>3, <1>5, <1>6 DEF FileTypes
<1>10. FileTypes'
  BY <1>2, <1>5, <1>8, <1>9 DEF FileTypes
<1>11. TypeOK'
  BY <1>2, <1>4, <1>10, TypeParts, TypePartsNext DEF Inv, OtherTypes
<1>12. Unopened'
  BY <1>2, <1>3, <1>8 DEF Inv, Unopened
<1>13. DroppedOnlyInFault'
  <2> SUFFICES ASSUME NEW g \in File \ unused
               PROVE  /\ stream'[g].fail \/ error[g] => g \in failing'
                      /\ stream'[g].open \/ stream'[g].fail
    BY <1>2 DEF DroppedOnlyInFault
  <2>1. /\ stream[g].fail \/ error[g] => g \in failing
        /\ stream[g].open \/ stream[g].fail
    BY DEF Inv, DroppedOnlyInFault
  <2>2. CASE g = f
    BY <2>1, <2>2, <1>6, <1>8, <1>9
  <2>3. CASE g # f
    BY <2>1, <2>3, <1>8, <1>9
  <2>4. QED
    BY <2>2, <2>3
<1>14. Times' /\ FreshFile'
  BY <1>2, <1>4 DEF Inv, Times, FreshFile
<1>15. QED
  BY <1>4, <1>11, <1>12, <1>13, <1>14 DEF Inv

LEMMA MacroKeeps ==
  ASSUME Inv, NEW t \in Thread, NEW l \in Level, Macro(t, l)
  PROVE  Inv'
<1> DEFINE r == [level |-> l, time |-> clock]
<1>1. /\ pc[t] = "idle" /\ record' = [record EXCEPT ![t] = r] /\ pc' = [pc EXCEPT ![t] = "wrap"]
      /\ clock' = clock /\ level' = level /\ appenders' = appenders /\ unused' = unused
      /\ clearing' = clearing /\ broken' = broken /\ stream' = stream /\ error' = error
      /\ lastTime' = lastTime /\ at' = at /\ done' = done /\ through' = through
      /\ failing' = failing /\ tried' = tried
  BY DEF Macro, From, Goto, list, files
<1>2. OtherTypes /\ FileTypes /\ WalkTypes
  BY TypeParts DEF Inv
<1>3. r \in [level : Nat, time : Nat] /\ r.time = clock
  BY <1>2, LogWriteAssumption DEF OtherTypes
<1> HIDE DEF r
<1>4. /\ pc'[t] = "wrap" /\ record'[t] = r
      /\ \A u \in Thread : u # t => pc'[u] = pc[u] /\ record'[u] = record[u]
  BY <1>1, <1>2 DEF WalkTypes, OtherTypes
<1>5. WalkTypes'
  <2>1. pc' \in [Thread -> {"idle", "wrap", "loop", "reopen", "stamp", "check", "write"}]
    BY <1>1, <1>2 DEF WalkTypes
  <2>2. QED
    BY <1>1, <1>2, <1>4, <2>1 DEF WalkTypes
<1>6. OtherTypes'
  <2>1. record' \in [Thread -> [level : Nat, time : Nat]]
    BY <1>1, <1>2, <1>3 DEF OtherTypes
  <2>2. QED
    BY <1>1, <1>2, <2>1 DEF OtherTypes
<1>7. TypeOK'
  BY <1>1, <1>2, <1>5, <1>6, TypePartsNext DEF FileTypes
<1>8. \A u \in Thread : Walking(u)' <=> Walking(u)
  BY <1>1, <1>4 DEF Walking
<1>9. Used' /\ Distinct' /\ Idle' /\ Cleaned' /\ Behind'
  BY <1>1, <1>8, WalksStay
<1>10. Unopened' /\ DroppedOnlyInFault'
  BY <1>1, FilesStay
<1>11. Times'
  <2>1. r.time <= clock
    BY <1>2, <1>3 DEF OtherTypes
  <2>2. QED
    BY <1>1, <1>4, <2>1 DEF Inv, Times
<1>12. FreshFile'
  BY <1>1, <1>4 DEF Inv, FreshFile
<1>13. QED
  BY <1>7, <1>9, <1>10, <1>11, <1>12 DEF Inv

LEMMA BeginKeeps ==
  ASSUME Inv, NEW t \in Thread, Begin(t)
  PROVE  Inv'
<1> DEFINE b == IF appenders = <<>> THEN End ELSE appenders[1]
           s == {a \in Appender : InList(a)}
<1>1. /\ pc[t] = "wrap" /\ pc' = [pc EXCEPT ![t] = "loop"] /\ at' = [at EXCEPT ![t] = b]
      /\ broken' = (clearing /\ appenders # <<>>) /\ through' = [through EXCEPT ![t] = s]
      /\ ~broken
      /\ clock' = clock /\ level' = level /\ appenders' = appenders /\ unused' = unused
      /\ clearing' = clearing /\ stream' = stream /\ error' = error
      /\ lastTime' = lastTime /\ record' = record /\ done' = done
      /\ failing' = failing /\ tried' = tried
  BY DEF Begin, From, Goto, list, files
<1>2. OtherTypes /\ FileTypes /\ WalkTypes /\ Places
  BY TypeParts, Placed DEF Inv
<1>3. /\ appenders = <<>> => b = End
      /\ appenders # <<>> => b = appenders[1] /\ 1 \in 1 .. Len(appenders)
  BY <1>2 DEF OtherTypes
<1>4. End \notin unused /\ \A a \in Appender : a # End
  BY <1>2, LogWriteAssumption DEF OtherTypes, Appender
<1>5. /\ b \in Appender \cup {End} /\ b \notin unused
      /\ b # End => InList(b)
      /\ \A a \in Appender : InList(a) => ~(Position(a) < Position(b))
  <2>1. CASE appenders = <<>>
    <3>1. \A a \in Appender : ~InList(a)
      BY <2>1 DEF InList
    <3>2. QED
      BY <2>1, <3>1, <1>3, <1>4
  <2>2. CASE appenders # <<>>
    <3>1. b \in Appender /\ InList(b) /\ Position(b) = 1
      BY <2>2, <1>2, <1>3 DEF Places
    <3>2. b \notin unused
      BY <2>2, <1>2, <1>3 DEF Inv, Used, Places
    <3>3. \A a \in Appender : InList(a) => Position(a) \in 1 .. Len(appenders)
      BY <1>2 DEF Places
    <3>4. QED
      BY <1>2, <3>1, <3>2, <3>3 DEF Places
  <2>3. QED
    BY <2>1, <2>2
<1>6. s \subseteq Appender /\ \A a \in s : InList(a)
  OBVIOUS
<1>7. clearing /\ ~(clearing /\ appenders # <<>>) => b = End /\ s = {}
  <2>1. appenders = <<>> => \A a \in Appender : ~InList(a)
    BY DEF InList
  <2>2. QED
    BY <1>3, <2>1
<1> HIDE DEF b, s
<1>8. /\ pc'[t] = "loop" /\ at'[t] = b /\ through'[t] = s /\ done'[t] = {}
      /\ \A u \in Thread : u # t => pc'[u] = pc[u] /\ at'[u] = at[u] /\ through'[u] = through[u]
  <2>1. done[t] = {}
    BY <1>1 DEF Inv, Idle, Walking
  <2>2. QED
    BY <1>1, <1>2, <2>1 DEF WalkTypes
<1>9. WalkTypes'
  <2>1. /\ pc' \in [Thread -> {"idle", "wrap", "loop", "reopen", "stamp", "check", "write"}]
        /\ at' \in [Thread -> Appender \cup {End}] /\ through' \in [Thread -> SUBSET Appender]
    BY <1>1, <1>2, <1>5, <1>6 DEF WalkTypes
  <2>2. QED
    BY <1>1, <1>2, <1>8, <2>1 DEF WalkTypes
<1>10. TypeOK'
  <2>1. OtherTypes' /\ FileTypes'
    BY <1>1, <1>2 DEF OtherTypes, FileTypes
  <2>2. QED
    BY <1>9, <2>1, TypePartsNext
<1>11. Used' /\ Distinct'
  BY <1>1, <1>5, <1>8 DEF Inv, Used, Distinct
<1>12. /\ Walking(t)' /\ ~Walking(t)
       /\ \A u \in Thread : u # t => (Walking(u)' <=> Walking(u))
  BY <1>1, <1>8 DEF Walking
<1>13. Idle'
  BY <1>1, <1>12 DEF Inv, Idle
<1>14. Cleaned'
  BY <1>1, <1>7, <1>8, <1>12 DEF Inv, Cleaned
<1>15. Behind'
  <2>1. \A c : (InList(c)' <=> InList(c)) /\ Position(c)' = Position(c)
    BY <1>1 DEF InList, Position
  <2>2. ASSUME NEW u \in Thread, u # t PROVE (InList(at[u])' <=> InList(at[u])) /\ Position(at[u])' = Position(at[u])
    <3>1. at'[u] = at[u]
      BY <2>2, <1>8
    <3>2. QED
      BY <3>1, <1>1 DEF InList, Position
  <2>3. (InList(at[t])' <=> InList(b)) /\ Position(at[t])' = Position(b)
    <3>1. at'[t] = b
      BY <1>8
    <3>2. QED
      BY <3>1, <1>1 DEF InList, Position
  <2> SUFFICES ASSUME NEW u \in Thread, Walking(u)'
               PROVE  /\ at'[u] # End => InList(at[u])'
                      /\ \A c \in done'[u] : InList(c)' => Position(c)' < Position(at[u])'
                      /\ \A c \in through'[u] : InList(c)' /\ (Position(c)' < Position(at[u])' => c \in done'[u])
    BY DEF Behind
  <2>4. CASE u # t
    BY <2>1, <2>2, <2>4, <1>1, <1>8, <1>12 DEF Inv, Behind
  <2>5. CASE u = t
    BY <2>1, <2>3, <2>5, <1>5, <1>6, <1>8
  <2>6. QED
    BY <2>4, <2>5
<1>16. Unopened' /\ DroppedOnlyInFault'
  BY <1>1, FilesStay
<1>17. Times'
  <2>1. ASSUME NEW u \in Thread, pc'[u] = "stamp" PROVE pc[u] = "stamp" /\ at'[u] = at[u]
    BY <2>1, <1>8
  <2>2. QED
    BY <1>1, <2>1 DEF Inv, Times
<1>18. FreshFile'
  <2>1. ASSUME NEW u \in Thread, pc'[u] \in {"check", "write"} PROVE pc[u] \in {"check", "write"} /\ at'[u] = at[u]
    BY <2>1, <1>8
  <2>2. QED
    BY <1>1, <2>1 DEF Inv, FreshFile
<1>19. QED
  BY <1>10, <1>11, <1>13, <1>14, <1>15, <1>16, <1>17, <1>18 DEF Inv

-----------------------------------------------------------------------------
(* The level, the clock and the list.                                      *)

LEMMA SetLevelKeeps ==
  ASSUME Inv, NEW l \in Level, SetLevel(l)
  PROVE  Inv'
<1>1. /\ level' = l
      /\ clock' = clock /\ appenders' = appenders /\ unused' = unused
      /\ clearing' = clearing /\ broken' = broken /\ stream' = stream /\ error' = error
      /\ lastTime' = lastTime /\ pc' = pc /\ record' = record /\ at' = at /\ done' = done /\ through' = through
      /\ failing' = failing /\ tried' = tried
  BY DEF SetLevel, list, files
<1>2. TypeOK'
  BY <1>1 DEF Inv, TypeOK
<1>3. Used' /\ Distinct' /\ Idle' /\ Cleaned' /\ Behind'
  BY <1>1, WalksStay DEF Walking
<1>4. Unopened' /\ DroppedOnlyInFault'
  BY <1>1, FilesStay
<1>5. Times' /\ FreshFile'
  BY <1>1 DEF Inv, Times, FreshFile
<1>6. QED
  BY <1>2, <1>3, <1>4, <1>5 DEF Inv

LEMMA TickKeeps ==
  ASSUME Inv, Tick
  PROVE  Inv'
<1>1. /\ clock' = clock + 1
      /\ level' = level /\ appenders' = appenders /\ unused' = unused
      /\ clearing' = clearing /\ broken' = broken /\ stream' = stream /\ error' = error
      /\ lastTime' = lastTime /\ pc' = pc /\ record' = record /\ at' = at /\ done' = done /\ through' = through
      /\ failing' = failing /\ tried' = tried
  BY DEF Tick, list, files, history
<1>2. TypeOK'
  BY <1>1 DEF Inv, TypeOK
<1>3. Used' /\ Distinct' /\ Idle' /\ Cleaned' /\ Behind'
  BY <1>1, WalksStay DEF Walking
<1>4. Unopened' /\ DroppedOnlyInFault'
  BY <1>1, FilesStay
<1>5. Times'
  <2>1. /\ clock \in Nat /\ \A f \in File : tried[f] \in Nat
        /\ \A t \in Thread : record[t].time \in Nat
    BY DEF Inv, TypeOK
  <2>2. \A f \in File : tried[f] <= clock + 1
    BY <2>1 DEF Inv, Times
  <2>3. \A t \in Thread : record[t].time <= clock + 1
    BY <2>1 DEF Inv, Times
  <2>4. QED
    BY <1>1, <2>2, <2>3 DEF Inv, Times
<1>6. FreshFile'
  BY <1>1 DEF Inv, FreshFile
<1>7. QED
  BY <1>2, <1>3, <1>4, <1>5, <1>6 DEF Inv

LEMMA AddAppenderKeeps ==
  ASSUME Inv, NEW a \in Appender, AddAppender(a)
  PROVE  Inv'
<1> DEFINE n == Len(appenders)
<1>1. /\ ~broken /\ ~clearing /\ a \in unused
      /\ unused' = unused \ {a} /\ appenders' = Append(appenders, a)
      /\ a \in File => ReopenFile(a)
      /\ a \notin File => stream' = stream /\ error' = error /\ failing' = failing /\ tried' = tried
      /\ clock' = clock /\ level' = level /\ clearing' = clearing /\ broken' = broken
      /\ lastTime' = lastTime /\ pc' = pc /\ record' = record /\ at' = at /\ done' = done /\ through' = through
  BY DEF AddAppender, Changeable
<1>2. OtherTypes /\ FileTypes /\ WalkTypes /\ Places
  BY TypeParts, Placed DEF Inv
<1>3. FileTypes' /\ Unopened' /\ DroppedOnlyInFault'
  <2>1. CASE a \in File
    <3>1. ReopenFile(a) /\ unused' \subseteq unused /\ a \notin unused'
          /\ \A g \in File : g # a => (g \in unused' <=> g \in unused)
      BY <1>1, <2>1
    <3>2. QED
      BY <2>1, <3>1, ReopenKeepsFiles
  <2>2. CASE a \notin File
    BY <1>1, <1>2, <2>2 DEF Inv, FileTypes, Unopened, DroppedOnlyInFault
  <2>3. QED
    BY <2>1, <2>2
<1>4. /\ appenders' \in Seq(Appender) /\ Len(appenders') = n + 1 /\ appenders'[n + 1] = a
      /\ \A k \in 1 .. n : appenders'[k] = appenders[k]
      /\ n \in Nat
  BY <1>1, <1>2 DEF OtherTypes
<1>5. TypeOK'
  <2>1. OtherTypes'
    BY <1>1, <1>2, <1>4 DEF OtherTypes
  <2>2. WalkTypes'
    BY <1>1, <1>2 DEF WalkTypes
  <2>3. QED
    BY <1>3, <2>1, <2>2, TypePartsNext
<1> HIDE DEF n
<1>6. DOMAIN appenders = 1 .. n /\ DOMAIN appenders' = 1 .. n + 1
  BY <1>2, <1>4 DEF Places, n
<1>7. \A k \in 1 .. n : appenders[k] \notin unused /\ appenders[k] # a
  BY <1>1, <1>6 DEF Inv, Used
<1>8. \A k \in 1 .. n + 1 : (k \in 1 .. n /\ appenders'[k] = appenders[k]) \/ (k = n + 1 /\ appenders'[k] = a)
  BY <1>4
<1>9. Used'
  BY <1>1, <1>6, <1>7, <1>8 DEF Inv, Used
<1>10. Distinct'
  BY <1>6, <1>7, <1>8 DEF Inv, Distinct
<1>11. Idle' /\ Cleaned'
  BY <1>1 DEF Inv, Idle, Cleaned, Walking
<1>12. Places'
  BY <1>5, <1>10, PlacedNext
<1>13. ASSUME NEW c \in Appender, InList(c) PROVE InList(c)' /\ Position(c)' = Position(c)
  <2>1. Position(c) \in 1 .. n /\ appenders[Position(c)] = c
    BY <1>2, <1>13 DEF Places, n
  <2>2. appenders'[Position(c)] = c /\ Position(c) \in DOMAIN appenders'
    BY <1>4, <1>6, <2>1
  <2>3. InList(c)'
    BY <2>2 DEF InList
  <2>4. Position(c)' \in DOMAIN appenders' /\ appenders'[Position(c)'] = c
    BY <1>12, <2>3 DEF Places
  <2>5. QED
    BY <1>10, <2>2, <2>3, <2>4 DEF Distinct
<1>14. ASSUME NEW c \in Appender, InList(c)', c # a PROVE InList(c)
  BY <1>6, <1>8, <1>14 DEF InList
<1>15. Position(End) = n + 1 /\ Position(End)' = n + 2
  BY <1>2, <1>4, <1>12 DEF Places, n
<1>16. Behind'
  <2> SUFFICES ASSUME NEW u \in Thread, Walking(u)
               PROVE  /\ at'[u] # End => InList(at[u])'
                      /\ \A c \in done'[u] : InList(c)' => Position(c)' < Position(at[u])'
                      /\ \A c \in through'[u] : InList(c)' /\ (Position(c)' < Position(at[u])' => c \in done'[u])
    BY <1>1 DEF Behind, Walking
  <2>1. /\ at[u] # End => InList(at[u])
        /\ \A c \in done[u] : InList(c) => Position(c) < Position(at[u])
        /\ \A c \in through[u] : InList(c) /\ (Position(c) < Position(at[u]) => c \in done[u])
    BY <1>1 DEF Inv, Behind
  <2>2. at[u] \in Appender \cup {End} /\ done[u] \subseteq Appender /\ through[u] \subseteq Appender
    BY <1>2 DEF WalkTypes
  <2>3. a \notin done[u]
    BY <1>1 DEF Inv, Used
  <2>4. ASSUME NEW e, e = at[u] PROVE (InList(at[u])' <=> InList(e)') /\ Position(at[u])' = Position(e)'
    <3>1. at'[u] = e
      BY <1>1, <2>4
    <3>2. QED
      BY <3>1 DEF InList, Position
  <2>5. \A c \in Appender : InList(c) => Position(c) \in 1 .. n
    BY <1>2 DEF Places, n
  <2>6. CASE at[u] = End
    <3>1. Position(at[u])' = n + 2 /\ Position(at[u]) = n + 1
      BY <1>15, <2>4, <2>6
    <3>2. \A c \in done[u] : InList(c)' => Position(c)' < n + 2
      BY <1>4, <1>13, <1>14, <2>2, <2>3, <2>5
    <3>3. \A c \in through[u] : InList(c)' /\ c \in done[u]
      BY <1>4, <1>13, <2>1, <2>2, <2>5, <3>1
    <3>4. QED
      BY <1>1, <2>6, <3>1, <3>2, <3>3
  <2>7. CASE at[u] # End
    <3>1. InList(at[u])' /\ Position(at[u])' = Position(at[u])
      BY <1>13, <2>1, <2>2, <2>4, <2>7
    <3>2. \A c \in done[u] : InList(c)' => Position(c)' < Position(at[u])
      BY <1>13, <1>14, <2>1, <2>2, <2>3
    <3>3. \A c \in through[u] : InList(c)' /\ (Position(c)' < Position(at[u]) => c \in done[u])
      BY <1>13, <2>1, <2>2
    <3>4. QED
      BY <1>1, <3>1, <3>2, <3>3
  <2>8. QED
    BY <2>6, <2>7
<1>17. \A g \in File : tried'[g] >= tried[g] /\ tried'[g] <= clock /\ tried'[g] \in Nat
  <2>1. CASE a \in File
    BY <1>1, <2>1, ReopenKeepsTimes
  <2>2. CASE a \notin File
    BY <1>1, <1>2, <2>2 DEF FileTypes, Inv, Times
  <2>3. QED
    BY <2>1, <2>2
<1>18. /\ \A g \in File : tried[g] \in Nat /\ lastTime[g] \in Nat
       /\ \A u \in Thread : record[u].time \in Nat
       /\ \A u \in Thread : pc[u] \in {"stamp", "check", "write"} => at[u] \in File
  BY DEF Inv, TypeOK
<1>19. Times'
  <2>1. ASSUME NEW g \in File PROVE lastTime[g] <= tried'[g]
    <3>1. lastTime[g] <= tried[g]
      BY DEF Inv, Times
    <3>2. QED
      BY <1>17, <1>18, <3>1
  <2>2. ASSUME NEW u \in Thread, pc[u] = "stamp" PROVE record[u].time <= tried'[at[u]]
    <3>1. record[u].time <= tried[at[u]] /\ at[u] \in File
      BY <2>2, <1>18 DEF Inv, Times
    <3>2. QED
      BY <3>1, <1>17, <1>18
  <2>3. QED
    BY <1>1, <1>17, <2>1, <2>2 DEF Inv, Times
<1>20. FreshFile'
  <2> SUFFICES ASSUME NEW u \in Thread, pc[u] \in {"check", "write"} PROVE record[u].time < tried'[at[u]] + Window
    BY <1>1 DEF FreshFile
  <2>1. record[u].time < tried[at[u]] + Window /\ at[u] \in File
    BY <1>18 DEF Inv, FreshFile
  <2>2. QED
    BY <2>1, <1>17, <1>18, LogWriteAssumption
<1>21. QED
  BY <1>3, <1>5, <1>9, <1>10, <1>11, <1>16, <1>19, <1>20 DEF Inv

LEMMA DelAppenderKeeps ==
  ASSUME Inv, NEW a \in Appender, DelAppender(a)
  PROVE  Inv'
<1> DEFINE n == Len(appenders)
           p == Position(a)
<1>1. /\ ~broken /\ ~clearing /\ InList(a)
      /\ appenders' = [k \in 1 .. n - 1 |-> appenders[IF k < p THEN k ELSE k + 1]]
      /\ broken' = \E t \in Thread : Walking(t) /\ at[t] \in {a}
      /\ through' = [t \in Thread |-> through[t] \ {a}]
      /\ unused' = unused /\ clearing' = clearing
      /\ clock' = clock /\ level' = level /\ stream' = stream /\ error' = error
      /\ lastTime' = lastTime /\ pc' = pc /\ record' = record /\ at' = at /\ done' = done
      /\ failing' = failing /\ tried' = tried
  BY DEF DelAppender, Changeable, Free, files
<1>2. OtherTypes /\ FileTypes /\ WalkTypes /\ Places
  BY TypeParts, Placed DEF Inv
<1>3. n \in Nat /\ p \in 1 .. n /\ appenders[p] = a /\ DOMAIN appenders = 1 .. n
      /\ \A k \in 1 .. n : appenders[k] \in Appender
  BY <1>1, <1>2 DEF Places
<1> HIDE DEF n, p
<1>4. n - 1 \in Nat /\ DOMAIN appenders' = 1 .. n - 1
  BY <1>1, <1>3
<1>5. \A k \in 1 .. n - 1 : /\ k < p => k \in 1 .. n /\ appenders'[k] = appenders[k]
                            /\ ~(k < p) => k + 1 \in 1 .. n /\ appenders'[k] = appenders[k + 1]
  BY <1>1, <1>3
<1>6. appenders' \in Seq(Appender) /\ Len(appenders') = n - 1
  <2>1. appenders' \in [1 .. n - 1 -> Appender]
    <3>1. \A k \in 1 .. n - 1 : appenders'[k] \in Appender
      BY <1>3, <1>5
    <3>2. QED
      BY <1>1, <3>1
  <2>2. QED
    BY <1>4, <2>1
<1>7. Distinct
  BY DEF Inv
<1>8. Distinct'
  <2> SUFFICES ASSUME NEW j \in 1 .. n - 1, NEW k \in 1 .. n - 1, appenders'[j] = appenders'[k] PROVE j = k
    BY <1>4 DEF Distinct
  <2>1. \A i, m \in 1 .. n : appenders[i] = appenders[m] => i = m
    BY <1>3, <1>7 DEF Distinct
  <2>2. CASE j < p /\ k < p
    BY <2>1, <2>2, <1>5
  <2>3. CASE ~(j < p) /\ ~(k < p)
    <3>1. j + 1 = k + 1
      BY <2>1, <2>3, <1>5
    <3>2. QED
      BY <3>1
  <2>4. CASE j < p /\ ~(k < p)
    <3>1. j = k + 1
      BY <2>1, <2>4, <1>5
    <3>2. QED
      BY <3>1, <2>4, <1>3
  <2>5. CASE ~(j < p) /\ k < p
    <3>1. j + 1 = k
      BY <2>1, <2>5, <1>5
    <3>2. QED
      BY <3>1, <2>5, <1>3
  <2>6. QED
    BY <2>2, <2>3, <2>4, <2>5
<1>9. TypeOK'
  <2>1. OtherTypes'
    BY <1>1, <1>2, <1>6 DEF OtherTypes
  <2>2. WalkTypes'
    BY <1>1, <1>2 DEF WalkTypes
  <2>3. FileTypes'
    BY <1>1, <1>2 DEF FileTypes
  <2>4. QED
    BY <2>1, <2>2, <2>3, TypePartsNext
<1>10. Used'
  <2>1. \A k \in 1 .. n - 1 : appenders'[k] \notin unused
    BY <1>3, <1>5 DEF Inv, Used
  <2>2. QED
    BY <1>1, <1>4, <2>1 DEF Inv, Used
<1>11. Idle' /\ Cleaned'
  BY <1>1 DEF Inv, Idle, Cleaned, Walking
<1>12. Places'
  BY <1>8, <1>9, PlacedNext
<1>13. ASSUME NEW c \in Appender, InList(c)'
       PROVE  InList(c) /\ c # a
  <2>1. PICK k \in 1 .. n - 1 : appenders'[k] = c
    BY <1>4, <1>13 DEF InList
  <2>2. \A i \in 1 .. n : appenders[i] = a => i = p
    BY <1>3, <1>7 DEF Distinct
  <2>3. CASE k < p
    <3>1. k \in 1 .. n /\ appenders[k] = c
      BY <2>1, <2>3, <1>5
    <3>2. QED
      BY <3>1, <2>2, <2>3, <1>3 DEF InList
  <2>4. CASE ~(k < p)
    <3>1. k + 1 \in 1 .. n /\ appenders[k + 1] = c
      BY <2>1, <2>4, <1>5
    <3>2. k + 1 # p
      BY <2>4, <1>3
    <3>3. QED
      BY <3>1, <3>2, <2>2, <1>3 DEF InList
  <2>5. QED
    BY <2>3, <2>4
<1>14. ASSUME NEW c \in Appender, InList(c), c # a
       PROVE  /\ InList(c)' /\ Position(c) \in 1 .. n /\ Position(c) # p
              /\ Position(c) < p => Position(c)' = Position(c)
              /\ ~(Position(c) < p) => Position(c)' = Position(c) - 1
  <2> DEFINE i == Position(c)
  <2>1. i \in 1 .. n /\ appenders[i] = c
    BY <1>2, <1>14 DEF Places, n
  <2>2. i # p
    BY <2>1, <1>3, <1>14
  <2> HIDE DEF i
  <2>3. ASSUME NEW k \in 1 .. n - 1, appenders'[k] = c PROVE InList(c)' /\ Position(c)' = k
    <3>1. InList(c)'
      BY <2>3, <1>4 DEF InList
    <3>2. Position(c)' \in 1 .. n - 1 /\ appenders'[Position(c)'] = c
      BY <3>1, <1>6, <1>12 DEF Places
    <3>3. QED
      BY <3>1, <3>2, <2>3, <1>4, <1>8 DEF Distinct
  <2>4. CASE i < p
    <3>1. i \in 1 .. n - 1 /\ appenders'[i] = c
      BY <2>1, <2>4, <1>3, <1>5
    <3>2. QED
      BY <3>1, <2>1, <2>2, <2>3, <2>4 DEF i
  <2>5. CASE ~(i < p)
    <3>1. i - 1 \in 1 .. n - 1 /\ ~(i - 1 < p) /\ (i - 1) + 1 = i
      BY <2>1, <2>2, <2>5, <1>3
    <3>2. appenders'[i - 1] = c
      BY <3>1, <2>1, <1>5
    <3>3. QED
      BY <3>1, <3>2, <2>1, <2>2, <2>3, <2>5 DEF i
  <2>6. QED
    BY <2>4, <2>5
<1>15. Position(End) = n + 1 /\ Position(End)' = n
  BY <1>2, <1>3, <1>6, <1>12 DEF Places, n
(* The order of those that stay is what it was. *)
<1>16. ASSUME NEW c \in Appender, InList(c), c # a, NEW d \in Appender \cup {End}, d # End => InList(d) /\ d # a
       PROVE  Position(c)' < Position(d)' <=> Position(c) < Position(d)
  <2>1. CASE d = End
    <3>1. Position(d) = n + 1 /\ Position(d)' = n
      BY <2>1, <1>15
    <3>2. QED
      BY <3>1, <1>3, <1>14, <1>16
  <2>2. CASE d # End
    <3>1. d \in Appender /\ InList(d) /\ d # a
      BY <2>2, <1>16
    <3>2. /\ Position(d) \in 1 .. n /\ Position(d) # p
          /\ Position(d) < p => Position(d)' = Position(d)
          /\ ~(Position(d) < p) => Position(d)' = Position(d) - 1
      BY <3>1, <1>14
    <3>3. /\ Position(c) \in 1 .. n /\ Position(c) # p
          /\ Position(c) < p => Position(c)' = Position(c)
          /\ ~(Position(c) < p) => Position(c)' = Position(c) - 1
      BY <1>14, <1>16
    <3>4. QED
      BY <3>2, <3>3, <1>3
  <2>3. QED
    BY <2>1, <2>2
<1>17. Behind'
  <2> SUFFICES ASSUME ~broken', NEW u \in Thread, Walking(u)
               PROVE  /\ at'[u] # End => InList(at[u])'
                      /\ \A c \in done'[u] : InList(c)' => Position(c)' < Position(at[u])'
                      /\ \A c \in through'[u] : InList(c)' /\ (Position(c)' < Position(at[u])' => c \in done'[u])
    BY <1>1 DEF Behind, Walking
  <2>1. /\ at[u] # End => InList(at[u])
        /\ \A c \in done[u] : InList(c) => Position(c) < Position(at[u])
        /\ \A c \in through[u] : InList(c) /\ (Position(c) < Position(at[u]) => c \in done[u])
    BY <1>1 DEF Inv, Behind
  <2>2. at[u] \in Appender \cup {End} /\ done[u] \subseteq Appender /\ through[u] \subseteq Appender
    BY <1>2 DEF WalkTypes
  <2>3. at[u] # a
    BY <1>1
  <2>4. PICK e : e = at[u]
    OBVIOUS
  <2>5. (InList(at[u])' <=> InList(e)') /\ Position(at[u])' = Position(e)' /\ Position(at[u]) = Position(e)
    <3>1. at'[u] = e
      BY <1>1, <2>4
    <3>2. QED
      BY <3>1, <2>4 DEF InList, Position
  <2>6. e \in Appender \cup {End} /\ (e # End => InList(e) /\ e # a)
    BY <2>1, <2>2, <2>3, <2>4
  <2>7. e # End => InList(e)'
    BY <2>6, <1>14
  <2>8. \A c \in done[u] : InList(c)' => Position(c)' < Position(e)'
    BY <1>13, <1>16, <2>1, <2>2, <2>5, <2>6
  <2>9. ASSUME NEW c \in through[u] \ {a} PROVE InList(c)' /\ (Position(c)' < Position(e)' => c \in done[u])
    <3>1. c \in Appender /\ InList(c) /\ c # a
      BY <2>1, <2>2, <2>9
    <3>2. QED
      BY <3>1, <1>14, <1>16, <2>1, <2>5, <2>6
  <2>10. through'[u] = through[u] \ {a}
    BY <1>1
  <2>11. QED
    BY <1>1, <2>4, <2>5, <2>7, <2>8, <2>9, <2>10
<1>18. Unopened' /\ DroppedOnlyInFault'
  BY <1>1, FilesStay
<1>19. Times' /\ FreshFile'
  BY <1>1 DEF Inv, Times, FreshFile
<1>20. QED
  BY <1>8, <1>9, <1>10, <1>11, <1>17, <1>18, <1>19 DEF Inv

LEMMA ClearAppendersKeeps ==
  ASSUME Inv, ClearAppenders
  PROVE  Inv'
<1> DEFINE as == {a \in Appender : InList(a)}
<1>1. /\ ~broken /\ clearing' = TRUE /\ appenders' = appenders
      /\ broken' = \E t \in Thread : Walking(t) /\ at[t] \in as
      /\ through' = [t \in Thread |-> through[t] \ as]
      /\ unused' = unused
      /\ clock' = clock /\ level' = level /\ stream' = stream /\ error' = error
      /\ lastTime' = lastTime /\ pc' = pc /\ record' = record /\ at' = at /\ done' = done
      /\ failing' = failing /\ tried' = tried
  BY DEF ClearAppenders, Changeable, Free, files
<1>2. OtherTypes /\ FileTypes /\ WalkTypes
  BY TypeParts DEF Inv
<1>3. TypeOK'
  <2>1. OtherTypes'
    BY <1>1, <1>2 DEF OtherTypes
  <2>2. WalkTypes'
    BY <1>1, <1>2 DEF WalkTypes
  <2>3. FileTypes'
    BY <1>1, <1>2 DEF FileTypes
  <2>4. QED
    BY <2>1, <2>2, <2>3, TypePartsNext
<1>4. Used' /\ Distinct' /\ Idle'
  BY <1>1 DEF Inv, Used, Distinct, Idle, Walking
<1>5. ASSUME ~broken', NEW t \in Thread, Walking(t) PROVE at[t] = End /\ through'[t] = {}
  <2>1. at[t] \notin as /\ at[t] \in Appender \cup {End}
    BY <1>1, <1>2, <1>5 DEF WalkTypes
  <2>2. at[t] # End => InList(at[t])
    BY <1>1, <1>5 DEF Inv, Behind
  <2>3. \A c \in through[t] : c \in as
    BY <1>1, <1>2, <1>5 DEF Inv, Behind, WalkTypes
  <2>4. QED
    BY <1>1, <2>1, <2>2, <2>3
<1>6. Cleaned'
  BY <1>1, <1>5 DEF Cleaned, Walking
<1>7. /\ \A c : (InList(c)' <=> InList(c)) /\ Position(c)' = Position(c)
      /\ \A t \in Thread : (InList(at[t])' <=> InList(at[t])) /\ Position(at[t])' = Position(at[t])
  BY <1>1 DEF InList, Position
<1>8. Behind'
  BY <1>1, <1>5, <1>7 DEF Inv, Behind, Walking
<1>9. Unopened' /\ DroppedOnlyInFault'
  BY <1>1, FilesStay
<1>10. Times' /\ FreshFile'
  BY <1>1 DEF Inv, Times, FreshFile
<1>11. QED
  BY <1>3, <1>4, <1>6, <1>8, <1>9, <1>10 DEF Inv

LEMMA ClearedKeeps ==
  ASSUME Inv, Cleared
  PROVE  Inv'
<1>1. /\ clearing /\ ~broken /\ clearing' = FALSE /\ appenders' = <<>>
      /\ broken' = broken /\ through' = through /\ unused' = unused
      /\ clock' = clock /\ level' = level /\ stream' = stream /\ error' = error
      /\ lastTime' = lastTime /\ pc' = pc /\ record' = record /\ at' = at /\ done' = done
      /\ failing' = failing /\ tried' = tried
  BY DEF Cleared, files, history
<1>2. OtherTypes /\ FileTypes /\ WalkTypes
  BY TypeParts DEF Inv
<1>3. TypeOK'
  <2>1. OtherTypes'
    <3>1. <<>> \in Seq(Appender)
      OBVIOUS
    <3>2. QED
      BY <1>1, <1>2, <3>1 DEF OtherTypes
  <2>2. WalkTypes'
    BY <1>1, <1>2 DEF WalkTypes
  <2>3. FileTypes'
    BY <1>1, <1>2 DEF FileTypes
  <2>4. QED
    BY <2>1, <2>2, <2>3, TypePartsNext
<1>4. DOMAIN appenders' = {}
  BY <1>1
<1>5. Used' /\ Distinct' /\ Idle' /\ Cleaned'
  BY <1>1, <1>4 DEF Inv, Used, Distinct, Idle, Cleaned, Walking
<1>6. \A c : ~InList(c)'
  BY <1>4 DEF InList
<1>7. \A t \in Thread : Walking(t) => at[t] = End /\ through[t] = {}
  BY <1>1 DEF Inv, Cleaned
<1>8. Behind'
  BY <1>1, <1>6, <1>7 DEF Behind, Walking
<1>9. Unopened' /\ DroppedOnlyInFault'
  BY <1>1, FilesStay
<1>10. Times' /\ FreshFile'
  BY <1>1 DEF Inv, Times, FreshFile
<1>11. QED
  BY <1>3, <1>5, <1>8, <1>9, <1>10 DEF Inv

-----------------------------------------------------------------------------
LEMMA Begins == Init => Inv
<1> SUFFICES ASSUME Init PROVE Inv
  OBVIOUS
<1>1. /\ clock = Window /\ level \in Level
      /\ appenders = <<>> /\ unused = Appender /\ clearing = FALSE /\ broken = FALSE
      /\ stream = [f \in File |-> [open |-> FALSE, fail |-> FALSE]]
      /\ error = [f \in File |-> FALSE] /\ lastTime = [f \in File |-> 0]
      /\ pc = [t \in Thread |-> "idle"] /\ record = [t \in Thread |-> None] /\ at = [t \in Thread |-> End]
      /\ done = [t \in Thread |-> {}] /\ through = [t \in Thread |-> {}]
      /\ failing = {} /\ tried = [f \in File |-> 0]
  BY DEF Init
<1>2. \A t \in Thread : pc[t] = "idle" /\ ~Walking(t) /\ at[t] = End /\ done[t] = {} /\ record[t].time = 0
  BY <1>1 DEF Walking, None
<1>3. End \notin Appender /\ Window \in Nat
  BY LogWriteAssumption DEF Appender
<1>4. OtherTypes
  <2>1. <<>> \in Seq(Appender)
    OBVIOUS
  <2>2. None \in [level : Nat, time : Nat]
    BY DEF None
  <2>3. QED
    BY <1>1, <1>3, <2>1, <2>2 DEF OtherTypes
<1>5. FileTypes
  BY <1>1 DEF FileTypes
<1>6. WalkTypes
  BY <1>1, <1>2 DEF WalkTypes
<1>7. DOMAIN appenders = {}
  BY <1>1
<1>8. Used /\ Distinct /\ Idle
  BY <1>1, <1>2, <1>3, <1>7 DEF Used, Distinct, Idle
<1>9. Cleaned /\ Behind
  BY <1>1, <1>2 DEF Cleaned, Behind
<1>10. Unopened
  BY <1>1 DEF Unopened
<1>11. DroppedOnlyInFault
  BY <1>1 DEF DroppedOnlyInFault, Appender
<1>12. Times
  BY <1>1, <1>2, <1>3 DEF Times
<1>13. FreshFile
  BY <1>2 DEF FreshFile
<1>14. QED
  BY <1>4, <1>5, <1>6, <1>8, <1>9, <1>10, <1>11, <1>12, <1>13, TypeParts DEF Inv

LEMMA NextKeeps == Inv /\ [Next]_vars => Inv'
<1> SUFFICES ASSUME Inv, [Next]_vars PROVE Inv'
  OBVIOUS
<1>1. CASE UNCHANGED vars
  <2>1. /\ appenders' = appenders /\ unused' = unused /\ clearing' = clearing /\ broken' = broken
        /\ clock' = clock /\ level' = level /\ stream' = stream /\ error' = error
        /\ lastTime' = lastTime /\ pc' = pc /\ record' = record /\ at' = at /\ done' = done
        /\ through' = through /\ failing' = failing /\ tried' = tried
    BY <1>1 DEF vars, list, files, history
  <2>2. TypeOK'
    BY <2>1 DEF Inv, TypeOK
  <2>3. Used' /\ Distinct' /\ Idle' /\ Cleaned' /\ Behind'
    BY <2>1, WalksStay DEF Walking
  <2>4. Unopened' /\ DroppedOnlyInFault'
    BY <2>1, FilesStay
  <2>5. Times' /\ FreshFile'
    BY <2>1 DEF Inv, Times, FreshFile
  <2>6. QED
    BY <2>2, <2>3, <2>4, <2>5 DEF Inv
<1>2. ASSUME NEW t \in Thread, Log(t) PROVE Inv'
  <2>1. Refused(t) \/ Finish(t) => Inv'
    BY ReleaseKeeps DEF Refused, Finish, From
  <2>2. QED
    BY <1>2, <2>1, BeginKeeps, WriteConsoleKeeps, TestWindowKeeps, ReopenKeeps, StampKeeps, DropKeeps, KeepKeeps,
       WriteFileKeeps DEF Log
<1>3. ASSUME NEW t \in Thread, NEW l \in Level, Macro(t, l) PROVE Inv'
  BY <1>3, MacroKeeps
<1>4. ASSUME NEW a \in Appender, AddAppender(a) \/ DelAppender(a) PROVE Inv'
  BY <1>4, AddAppenderKeeps, DelAppenderKeeps
<1>5. ASSUME NEW l \in Level, SetLevel(l) PROVE Inv'
  BY <1>5, SetLevelKeeps
<1>6. QED
  BY <1>1, <1>2, <1>3, <1>4, <1>5, ClearAppendersKeeps, ClearedKeeps, TickKeeps DEF Next

(* The variables of a logger and its appenders keep their types, what is   *)
(* done lies behind a walk, and no appender is ahead of its reopening, in  *)
(* every state.                                                            *)
THEOREM LogWriteInvariant == Spec => []Inv
<1>1. QED
  BY Begins, NextKeeps, PTL DEF Spec

-----------------------------------------------------------------------------
(* However many appenders come and go while a thread walks the list        *)
(* without the mutex: one that stays is done once, in its order, unless an *)
(* appender was freed under the iterator.                                  *)
THEOREM LogWriteVisitsEach == Spec => []VisitsEach
<1>1. ASSUME Inv PROVE VisitsEach
  <2> SUFFICES ASSUME NEW t \in Thread, Walking(t), ~broken
               PROVE  /\ at[t] # End => InList(at[t]) /\ at[t] \notin done[t]
                      /\ \A a \in through[t] : InList(a) /\ (a \in done[t] <=> Position(a) < Position(at[t]))
    BY DEF VisitsEach
  <2>1. /\ at[t] # End => InList(at[t])
        /\ \A a \in done[t] : InList(a) => Position(a) < Position(at[t])
        /\ \A a \in through[t] : InList(a) /\ (Position(a) < Position(at[t]) => a \in done[t])
    BY <1>1 DEF Inv, Behind
  <2>2. Places /\ at[t] \in Appender \cup {End}
    BY <1>1, Placed DEF Inv, TypeOK
  <2>3. at[t] # End => Position(at[t]) \in Nat
    BY <2>1, <2>2 DEF Places
  <2>4. at[t] # End => at[t] \notin done[t]
    BY <2>1, <2>3
  <2>5. QED
    BY <2>1, <2>4
<1>2. QED
  BY <1>1, LogWriteInvariant, PTL

(* A record is dropped only while the last open or write of its file has   *)
(* failed, and a file in order is open.                                    *)
THEOREM LogWriteDropped == Spec => []DroppedOnlyInFault
<1>1. Inv => DroppedOnlyInFault
  BY DEF Inv
<1>2. QED
  BY <1>1, LogWriteInvariant, PTL

(* A record goes to a file that was reopened, by this thread or another,   *)
(* less than Window before the record was made, or later.                  *)
THEOREM LogWriteFresh == Spec => []FreshFile
<1>1. Inv => FreshFile
  BY DEF Inv
<1>2. QED
  BY <1>1, LogWriteInvariant, PTL

(* Whatever is tried, a stream whose write has failed is never given back. *)
THEOREM LogWriteStaysMute == Spec => StaysMuteStep
<1> DEFINE Step == \A f \in File : Mute(f) => Mute(f)'
<1>1. ASSUME Inv, [Next]_vars PROVE [Step]_vars
  <2> SUFFICES ASSUME Next, NEW f \in File, stream[f].open, stream[f].fail PROVE stream'[f].open /\ stream'[f].fail
    BY <1>1 DEF Mute
  <2>1. stream \in [File -> [open : BOOLEAN, fail : BOOLEAN]]
    BY <1>1 DEF Inv, TypeOK
  <2>2. ASSUME NEW g \in File, ReopenFile(g) PROVE stream'[f].open /\ stream'[f].fail
    <3>1. PICK answer \in BOOLEAN : stream' = [stream EXCEPT ![g] = Reopened(stream[g], answer)]
      BY <2>2 DEF ReopenFile
    <3>2. CASE g = f
      <4>1. Reopened(stream[f], answer) = [stream[f] EXCEPT !.fail = TRUE]
        BY DEF Reopened, Opened
      <4>2. stream'[f] = [stream[f] EXCEPT !.fail = TRUE]
        BY <2>1, <3>1, <3>2, <4>1
      <4>3. QED
        BY <2>1, <4>2
    <3>3. CASE g # f
      BY <2>1, <3>1, <3>3
    <3>4. QED
      BY <3>2, <3>3
  <2>3. ASSUME NEW t \in Thread, WriteFile(t) PROVE stream'[f].open /\ stream'[f].fail
    <3>1. PICK answer \in BOOLEAN :
            stream' = [stream EXCEPT ![at[t]].fail = stream[at[t]].fail \/ (~stream[at[t]].fail /\ ~answer)]
      BY <2>3 DEF WriteFile
    <3>2. QED
      BY <2>1, <3>1
  <2>4. ASSUME NEW t \in Thread, Log(t) PROVE stream' = stream \/ Reopen(t) \/ WriteFile(t)
    BY <2>4 DEF Log, Refused, Begin, Finish, Release, WriteConsole, TestWindow, Stamp, Drop, Keep, files
  <2>5. ASSUME NEW t \in Thread, Reopen(t) PROVE stream'[f].open /\ stream'[f].fail
    BY <1>1, <2>2, <2>5 DEF Reopen, From, Inv, TypeOK
  <2>6. ASSUME NEW a \in Appender, AddAppender(a) PROVE stream'[f].open /\ stream'[f].fail
    <3>1. CASE a \in File
      BY <2>2, <2>6, <3>1 DEF AddAppender
    <3>2. CASE a \notin File
      BY <2>6, <3>2 DEF AddAppender
    <3>3. QED
      BY <3>1, <3>2
  <2>7. ASSUME \/ \E t \in Thread, l \in Level : Macro(t, l)
               \/ \E a \in Appender : DelAppender(a)
               \/ \E l \in Level : SetLevel(l)
               \/ ClearAppenders \/ Cleared \/ Tick
        PROVE  stream' = stream
    BY <2>7 DEF Macro, DelAppender, SetLevel, ClearAppenders, Cleared, Tick, Free, files
  <2>8. QED
    BY <2>3, <2>4, <2>5, <2>6, <2>7 DEF Next
<1>2. QED
  BY <1>1, LogWriteInvariant, PTL DEF Spec, StaysMuteStep
=============================================================================

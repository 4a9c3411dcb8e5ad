-------------------------- MODULE ThreadPoolProofs --------------------------
(***************************************************************************)
(* For every set of threads and callers and every size of a pool: objects  *)
(* and threads part in time, each thread is joined or detached once, and   *)
(* what breaks the program is one of three things.                         *)
(***************************************************************************)
EXTENDS ThreadPool, TLAPS

-----------------------------------------------------------------------------
(* The inductive invariant.                                                *)

(* How far an object and its thread have come. *)
Phase(o) ==
  /\ body[o] = "none" <=> pthread[o] = "none"
  /\ life[o] \in {"unborn", "failed"} => body[o] = "none"
  /\ body[o] \in {"begin", "id", "moved"} => life[o] = "constructing" /\ sem[o] = 0
  /\ body[o] \in {"id", "moved", "run", "over"} => hasId[o]
  /\ body[o] \in {"moved", "run", "over"} => ~hasCb[o]
  /\ body[o] = "none" => sem[o] = 0
  /\ life[o] \in {"alive", "gone"} => body[o] \in {"run", "over"}
  /\ pthread[o] = "joined" => body[o] = "over"
  /\ life[o] = "alive" <=> refs[o] # {}

At(c, where, o) == call[c] = [at |-> where, obj |-> o]

(* What becomes of its thread is what the object knows of it. *)
Told(o) ==
  /\ life[o] = "gone" => pthread[o] \in {"joined", "detached"}
  /\ life[o] = "alive" /\ ~handle[o] => pthread[o] = "joined"
  /\ life[o] = "alive" /\ handle[o] /\ pthread[o] # "joinable" =>
       \E c \in Caller : At(c, "joined", o)

(* A caller in a method of an object: there is one at most, and it holds   *)
(* the object it joins.                                                    *)
Makes(c, o) == At(c, "create", o) \/ At(c, "wait", o)
Joins(c, o) == At(c, "join", o) \/ At(c, "joined", o)
Busy(c, o)  == Makes(c, o) \/ Joins(c, o)

Method(c, o) ==
  /\ At(c, "create", o) => life[o] = "constructing" /\ body[o] = "none"
  /\ At(c, "wait", o) => life[o] = "constructing" /\ handle[o] /\ pthread[o] = "joinable"
  /\ At(c, "join", o) => life[o] = "alive" /\ handle[o] /\ pthread[o] = "joinable"
  /\ At(c, "joined", o) => life[o] = "alive" /\ handle[o] /\ pthread[o] = "joined"

Holds(c, o) ==
  IF o \in Own THEN (c = Main => stage = "idle") /\ (Joins(c, o) => c \in refs[o])
  ELSE c = Main /\ (Makes(c, o) => stage = "start") /\ (Joins(c, o) => stage = "join")

ObjectOK(o) ==
  /\ Phase(o) /\ Told(o)
  /\ refs[o] \subseteq (IF o \in Own THEN Caller ELSE {Pool})
  /\ \A c \in Caller : Busy(c, o) => Method(c, o) /\ Holds(c, o)

Objects == \A o \in Object : ObjectOK(o)

Alone == \A c, d \in Caller, o \in Object : Busy(c, o) /\ Busy(d, o) => c = d

(* The slots of the pool. *)
Slots ==
  /\ Len(threads) \in {0, ThreadCount} /\ Len(thrs) \in {0, ThreadCount}
  /\ \A k \in DOMAIN threads : threads[k] # Null =>
       threads[k] \in Object \ Own /\ life[threads[k]] \in {"alive", "gone"}
  /\ \A k \in DOMAIN thrs : thrs[k] # Null =>
       thrs[k] \in Object \ Own /\ life[thrs[k]] \in {"alive", "gone"}
  /\ \A k \in DOMAIN threads : threads[k] = Null => failed \/ (stage = "start" /\ k >= slot)
  /\ stage = "start" => \A k \in DOMAIN threads : k >= slot => threads[k] = Null
  /\ \A k \in DOMAIN thrs : thrs[k] = Null => failed
  /\ \A k \in DOMAIN thrs : stage = "release" \/ (stage = "join" /\ k < slot) =>
       thrs[k] # Null /\ ~handle[thrs[k]]

(* Where Main is. *)
Stage ==
  /\ stage = "idle" /\ stopping => threads = <<>>
  /\ stage = "start" => ~stopping
  /\ stage \in {"join", "release"} => threads = <<>>
  /\ stage = "start" => Len(threads) = ThreadCount /\ slot >= 1
  /\ stage \in {"join", "release"} => slot >= 1
  /\ \A o \in Object :
       /\ stage = "start" /\ Busy(Main, o) => slot <= ThreadCount
       /\ stage = "join" /\ Busy(Main, o) => slot <= Len(thrs) /\ thrs[slot] = o

Inv == TypeOK /\ Objects /\ Alone /\ Slots /\ Stage /\ StopJoinsAll /\ BrokenWhy

-----------------------------------------------------------------------------
Where == {"create", "wait", "join", "joined"}

(* What a caller may be doing if it has to do with no object but o. *)
With(o) == {Out} \cup [at : Where, obj : {o}]

(* What the system and the object know of o is as it was. *)
Unchanged(o) ==
  /\ life'[o] = life[o] /\ refs'[o] = refs[o] /\ handle'[o] = handle[o] /\ hasId'[o] = hasId[o]
  /\ hasCb'[o] = hasCb[o] /\ sem'[o] = sem[o] /\ body'[o] = body[o] /\ pthread'[o] = pthread[o]

ThreadTypes ==
  /\ life \in [Object -> {"unborn", "constructing", "failed", "alive", "gone"}]
  /\ refs \in [Object -> SUBSET (Caller \cup {Pool})]
  /\ handle \in [Object -> BOOLEAN] /\ hasId \in [Object -> BOOLEAN]
  /\ hasCb \in [Object -> BOOLEAN] /\ sem \in [Object -> {0, 1}]
  /\ body \in [Object -> {"none", "begin", "id", "moved", "run", "over"}]
  /\ pthread \in [Object -> {"none", "joinable", "joined", "detached"}]
  /\ broken \in BOOLEAN /\ stray \subseteq Object

PoolTypes ==
  /\ stopping \in BOOLEAN /\ locked \in BOOLEAN /\ failed \in BOOLEAN
  /\ threads \in Seq(Object \cup {Null}) /\ thrs \in Seq(Object \cup {Null})
  /\ stage \in {"idle", "start", "stop", "join", "release"} /\ slot \in 0 .. ThreadCount + 1

LEMMA TypeParts == TypeOK <=> ThreadTypes /\ call \in [Caller -> Calls] /\ PoolTypes
  BY DEF TypeOK, ThreadTypes, PoolTypes

LEMMA TypePartsNext == TypeOK' <=> ThreadTypes' /\ call' \in [Caller -> Calls] /\ PoolTypes'
  BY DEF TypeOK, ThreadTypes, PoolTypes

LEMMA BusyWhere ==
  ASSUME NEW c \in Caller, NEW o \in Object
  PROVE  /\ Busy(c, o) => \E w \in Where : At(c, w, o)
         /\ \A w \in Where : At(c, w, o) => Busy(c, o) /\ call[c] # Out
BY DEF Busy, Makes, Joins, At, Where, Out

(* A caller is in one method of one object. *)
LEMMA OneMethod ==
  ASSUME NEW c, NEW o, NEW p, NEW w, NEW x, At(c, w, o), At(c, x, p)
  PROVE  w = x /\ o = p
<1>1. [at |-> w, obj |-> o] = [at |-> x, obj |-> p]
  BY DEF At
<1>2. QED
  BY <1>1

LEMMA CallerMoves ==
  ASSUME call \in [Caller -> Calls], NEW c \in Caller, NEW o \in Object,
         call[c] \in With(o), NEW r \in With(o), call' = [call EXCEPT ![c] = r]
  PROVE  /\ call' \in [Caller -> Calls] /\ call'[c] = r
         /\ \A d \in Caller : d # c => call'[d] = call[d]
         /\ \A p \in Object, d \in Caller, w \in Where : p # o => (At(d, w, p)' <=> At(d, w, p))
<1>1. r \in Calls
  BY DEF With, Calls, Where
<1>2. /\ call' \in [Caller -> Calls] /\ call'[c] = r
      /\ \A d \in Caller : d # c => call'[d] = call[d]
  BY <1>1
<1>3. ASSUME NEW p \in Object, NEW w \in Where, p # o
      PROVE  r # [at |-> w, obj |-> p] /\ call[c] # [at |-> w, obj |-> p]
  <2>1. ASSUME NEW x \in With(o) PROVE x # [at |-> w, obj |-> p]
    <3>1. CASE x = Out
      BY <3>1 DEF Out, Where
    <3>2. CASE x \in [at : Where, obj : {o}]
      <4>1. x.obj = o
        BY <3>2
      <4>2. [at |-> w, obj |-> p].obj = p
        OBVIOUS
      <4>3. QED
        BY <4>1, <4>2, <1>3
    <3>3. QED
      BY <3>1, <3>2 DEF With
  <2>2. QED
    BY <2>1
<1>4. QED
  BY <1>2, <1>3 DEF At

(* A step that concerns one object leaves the others as they must be. *)
LEMMA OthersKeep ==
  ASSUME Inv, NEW o \in Object, stage' = stage \/ call'[Main] = Out,
         \A p \in Object : p # o => Unchanged(p),
         \A p \in Object, d \in Caller, w \in Where : p # o => (At(d, w, p)' <=> At(d, w, p)),
         ObjectOK(o)'
  PROVE  Objects'
<1> SUFFICES ASSUME NEW p \in Object, p # o PROVE ObjectOK(p)'
  BY DEF Objects
<1>1. ObjectOK(p) /\ Unchanged(p)
  BY DEF Inv, Objects
<1>2. ASSUME NEW d \in Caller
      PROVE  /\ At(d, "create", p)' <=> At(d, "create", p)
             /\ At(d, "wait", p)' <=> At(d, "wait", p)
             /\ At(d, "join", p)' <=> At(d, "join", p)
             /\ At(d, "joined", p)' <=> At(d, "joined", p)
  BY DEF Where
<1>3. Phase(p)'
  BY <1>1 DEF ObjectOK, Phase, Unchanged
<1>4. Told(p)'
  <2>1. \A d \in Caller : At(d, "joined", p) => At(d, "joined", p)'
    BY <1>2
  <2>2. QED
    BY <1>1, <2>1 DEF ObjectOK, Told, Unchanged
<1>5. ASSUME NEW d \in Caller, Busy(d, p)'
      PROVE  Method(d, p)' /\ Holds(d, p)'
  <2>1. Busy(d, p)
    BY <1>2, <1>5 DEF Busy, Makes, Joins
  <2>2. Method(d, p) /\ Holds(d, p)
    BY <1>1, <2>1 DEF ObjectOK
  <2>3. Method(d, p)'
    BY <1>1, <1>2, <2>2 DEF Method, Unchanged
  <2>4. (Makes(d, p)' <=> Makes(d, p)) /\ (Joins(d, p)' <=> Joins(d, p))
    BY <1>2 DEF Makes, Joins
  <2>5. call'[Main] = Out => d # Main
    BY <1>5 DEF Busy, Makes, Joins, At, Out
  <2>6. QED
    BY <1>1, <2>2, <2>3, <2>4, <2>5, ThreadPoolAssumption DEF Holds, Unchanged
<1>6. QED
  BY <1>1, <1>3, <1>4, <1>5 DEF ObjectOK, Unchanged

(* One caller goes from one method of o to another, or in, or out.         *)
LEMMA CallerStep ==
  ASSUME Inv, NEW c \in Caller, NEW o \in Object,
         call[c] \in With(o), NEW r \in With(o), call' = [call EXCEPT ![c] = r],
         stage' = stage \/ call'[Main] = Out,
         \A p \in Object : p # o => Unchanged(p),
         r = Out \/ \A d \in Caller : d # c => ~Busy(d, o),
         Phase(o)', Told(o)', refs'[o] \subseteq (IF o \in Own THEN Caller ELSE {Pool}),
         \A d \in Caller : d # c /\ Busy(d, o) => Method(d, o)' /\ Holds(d, o)',
         Busy(c, o)' => Method(c, o)' /\ Holds(c, o)'
  PROVE  call' \in [Caller -> Calls] /\ Objects' /\ Alone'
<1>1. call \in [Caller -> Calls]
  BY DEF Inv, TypeOK
<1>2. /\ call' \in [Caller -> Calls] /\ call'[c] = r
      /\ \A d \in Caller : d # c => call'[d] = call[d]
      /\ \A p \in Object, d \in Caller, w \in Where : p # o => (At(d, w, p)' <=> At(d, w, p))
  BY <1>1, CallerMoves
<1>3. \A d \in Caller : d # c /\ Busy(d, o)' => Busy(d, o)
  BY <1>2 DEF Busy, Makes, Joins, At
<1>4. ObjectOK(o)'
  BY <1>3 DEF ObjectOK
<1>5. Objects'
  BY <1>2, <1>4, OthersKeep
<1>6. Alone'
  <2> SUFFICES ASSUME NEW d \in Caller, NEW e \in Caller, NEW p \in Object, Busy(d, p)', Busy(e, p)'
               PROVE  d = e
    BY DEF Alone
  <2>1. CASE p = o
    <3>1. CASE d # c /\ e # c
      BY <2>1, <3>1, <1>3 DEF Inv, Alone
    <3>2. CASE d = c \/ e = c
      <4>1. ~(r = Out)
        BY <1>2, <3>2 DEF Busy, Makes, Joins, At, Out
      <4>2. QED
        BY <2>1, <3>2, <4>1, <1>3
    <3>3. QED
      BY <3>1, <3>2
  <2>2. CASE p # o
    <3>1. Busy(d, p) /\ Busy(e, p)
      BY <2>2, <1>2 DEF Busy, Makes, Joins, Where
    <3>2. QED
      BY <3>1 DEF Inv, Alone
  <2>3. QED
    BY <2>1, <2>2
<1>7. QED
  BY <1>2, <1>5, <1>6

(* A thread of o goes on by itself. *)
LEMMA BodyStep ==
  ASSUME Inv, NEW o \in Object, call' = call, stage' = stage,
         \A p \in Object : p # o => Unchanged(p),
         life'[o] = life[o], refs'[o] = refs[o], handle'[o] = handle[o], pthread'[o] = pthread[o],
         body[o] # "none", body'[o] # "none", Phase(o)'
  PROVE  Objects' /\ Alone'
<1>1. \A d \in Caller, p \in Object, w \in Where : At(d, w, p)' <=> At(d, w, p)
  BY DEF At
<1>2. \A d \in Caller, p \in Object :
        (Busy(d, p)' <=> Busy(d, p)) /\ (Makes(d, p)' <=> Makes(d, p)) /\ (Joins(d, p)' <=> Joins(d, p))
  BY <1>1 DEF Busy, Makes, Joins, Where
<1>3. ObjectOK(o)
  BY DEF Inv, Objects
<1>4. \A d \in Caller : At(d, "create", o)' <=> At(d, "create", o)
  BY <1>1 DEF Where
<1>5. Told(o)'
  BY <1>1, <1>3 DEF ObjectOK, Told, Where
<1>6. ASSUME NEW d \in Caller, Busy(d, o)' PROVE Method(d, o)' /\ Holds(d, o)'
  <2>1. Method(d, o) /\ Holds(d, o)
    BY <1>2, <1>3, <1>6 DEF ObjectOK
  <2>2. Method(d, o)'
    BY <1>1, <2>1 DEF Method, Where
  <2>3. Holds(d, o)'
    BY <1>2, <2>1 DEF Holds
  <2>4. QED
    BY <2>2, <2>3
<1>7. ObjectOK(o)'
  BY <1>3, <1>5, <1>6 DEF ObjectOK
<1>8. Objects'
  BY <1>1, <1>7, OthersKeep
<1>9. Alone'
  BY <1>2 DEF Inv, Alone
<1>10. QED
  BY <1>8, <1>9

(* Nothing of the objects changes.                                         *)
LEMMA SameObjects ==
  ASSUME Inv, call' = call, stage' = stage \/ call[Main] = Out,
         life' = life, refs' = refs, handle' = handle, hasId' = hasId, hasCb' = hasCb,
         sem' = sem, body' = body, pthread' = pthread
  PROVE  Objects' /\ Alone'
<1>1. \A d \in Caller, p \in Object, w \in Where : At(d, w, p)' <=> At(d, w, p)
  BY DEF At
<1>2. Objects'
  <2> SUFFICES ASSUME NEW o \in Object PROVE ObjectOK(o)'
    BY DEF Objects
  <2>1. ObjectOK(o)
    BY DEF Inv, Objects
  <2>2. Phase(o)' /\ Told(o)'
    BY <1>1, <2>1 DEF ObjectOK, Phase, Told, Where
  <2>3. ASSUME NEW d \in Caller, Busy(d, o)' PROVE Method(d, o)' /\ Holds(d, o)'
    <3>1. Busy(d, o) /\ (Makes(d, o)' <=> Makes(d, o)) /\ (Joins(d, o)' <=> Joins(d, o))
      BY <1>1, <2>3 DEF Busy, Makes, Joins, Where
    <3>2. Method(d, o) /\ Holds(d, o)
      BY <2>1, <3>1 DEF ObjectOK
    <3>3. Method(d, o)'
      BY <1>1, <3>2 DEF Method, Where
    <3>4. call[Main] = Out => d # Main
      BY <3>1 DEF Busy, Makes, Joins, At, Out
    <3>5. QED
      BY <3>1, <3>2, <3>3, <3>4 DEF Holds
  <2>4. QED
    BY <2>1, <2>2, <2>3 DEF ObjectOK
<1>3. Alone'
  BY <1>1 DEF Inv, Alone, Busy, Makes, Joins, Where
<1>4. QED
  BY <1>2, <1>3

(* The pool, while it is left alone.                                       *)
LEMMA PoolKeeps ==
  ASSUME Inv, UNCHANGED poolVars, ThreadTypes',
         \A p \in Object : life[p] \in {"alive", "gone"} =>
           life'[p] \in {"alive", "gone"} /\ (handle'[p] => handle[p]),
         \A p \in Object : Busy(Main, p)' => Busy(Main, p) \/ stage \notin {"start", "join"}
           \/ (stage = "start" /\ slot <= ThreadCount)
           \/ (stage = "join" /\ slot <= Len(thrs) /\ thrs[slot] = p),
         \A p \in Object \ Own : pthread'[p] # "detached" /\ (pthread'[p] = "joinable" =>
           \/ At(Main, "wait", p)'
           \/ pthread[p] = "joinable" /\ ~At(Main, "wait", p))
  PROVE  Slots' /\ Stage' /\ StopJoinsAll' /\ PoolTypes'
<1>1. /\ stopping' = stopping /\ threads' = threads /\ locked' = locked /\ stage' = stage
      /\ slot' = slot /\ thrs' = thrs /\ failed' = failed
  BY DEF poolVars
<1>2. PoolTypes'
  BY <1>1, TypeParts DEF Inv, PoolTypes
<1>3. Slots'
  BY <1>1 DEF Inv, Slots
<1>4. Stage'
  BY <1>1 DEF Inv, Stage
<1>5. StopJoinsAll'
  BY <1>1 DEF Inv, StopJoinsAll, At
<1>6. QED
  BY <1>2, <1>3, <1>4, <1>5

LEMMA KeepsBrokenWhy ==
  ASSUME Inv, ~broken, broken' => \/ stray' # {} \/ \E o \in Own : pthread'[o] = "detached"
                                  \/ failed' /\ stage' = "join" /\ thrs'[slot'] = Null
  PROVE  BrokenWhy'
BY DEF BrokenWhy

LEMMA Parts ==
  ASSUME Inv
  PROVE  /\ ThreadTypes /\ call \in [Caller -> Calls] /\ PoolTypes
         /\ \A o \in Object : ObjectOK(o) /\ Phase(o) /\ Told(o)
         /\ \A o \in Object \ Own : pthread[o] # "detached"
<1>1. \A o \in Object : ObjectOK(o)
  BY DEF Inv, Objects
<1>2. QED
  BY <1>1, TypeParts DEF Inv, ObjectOK, StopJoinsAll

-----------------------------------------------------------------------------
(* run() goes on.                                                          *)

BodySteps(o) == Run(o) \/ BodyOver(o) \/ SetName(o)

LEMMA BodyTypes ==
  ASSUME Inv, NEW o \in Object, BodySteps(o)
  PROVE  /\ ThreadTypes' /\ call' = call /\ ~broken /\ stray' = stray
         /\ \A p \in Object : p # o => Unchanged(p)
         /\ life' = life /\ refs' = refs /\ handle' = handle /\ pthread' = pthread
         /\ body[o] # "none" /\ body'[o] # "none" /\ Phase(o)'
<1>1. ThreadTypes /\ Phase(o)
  BY Parts
<1>2. CASE SetId(o)
  BY <1>1, <1>2 DEF SetId, Body, ThreadTypes, Phase, Unchanged
<1>3. CASE Swap(o)
  BY <1>1, <1>3 DEF Swap, Body, ThreadTypes, Phase, Unchanged
<1>4. CASE Notify(o)
  <2>1. sem[o] = 0
    BY <1>1, <1>4 DEF Notify, Body, Phase
  <2>2. sem'[o] = 1 /\ sem' \in [Object -> {0, 1}] /\ \A p \in Object : p # o => sem'[p] = sem[p]
    BY <1>1, <1>4, <2>1 DEF Notify, ThreadTypes
  <2>3. QED
    BY <1>1, <1>4, <2>2 DEF Notify, Body, ThreadTypes, Phase, Unchanged
<1>5. CASE BodyOver(o)
  BY <1>1, <1>5 DEF BodyOver, Body, ThreadTypes, Phase, Unchanged
<1>6. CASE SetName(o)
  <2>1. UNCHANGED objects /\ call' = call /\ ~broken /\ body[o] = "run" /\ broken' \in BOOLEAN
    BY <1>6 DEF SetName
  <2>2. QED
    BY <1>1, <2>1 DEF objects, ThreadTypes, Phase, Unchanged
<1>7. QED
  BY <1>2, <1>3, <1>4, <1>5, <1>6 DEF BodySteps, Run

LEMMA BodyKeeps ==
  ASSUME Inv, NEW o \in Object, BodySteps(o), SetName(o) => o \in Own, UNCHANGED poolVars
  PROVE  Inv'
<1>1. /\ ThreadTypes' /\ call' = call /\ ~broken /\ stray' = stray
      /\ \A p \in Object : p # o => Unchanged(p)
      /\ life' = life /\ refs' = refs /\ handle' = handle /\ pthread' = pthread
      /\ body[o] # "none" /\ body'[o] # "none" /\ Phase(o)'
  BY BodyTypes
<1>2. stage' = stage
  BY DEF poolVars
<1>3. Objects' /\ Alone'
  BY <1>1, <1>2, BodyStep
<1>4. \A p \in Object : (Busy(Main, p)' <=> Busy(Main, p)) /\ (At(Main, "wait", p)' <=> At(Main, "wait", p))
  BY <1>1 DEF Busy, Makes, Joins, At
<1>5. Slots' /\ Stage' /\ StopJoinsAll' /\ PoolTypes'
  <2>1. \A p \in Object \ Own : pthread[p] # "detached"
    BY Parts
  <2>2. QED
    BY <1>1, <1>4, <2>1, PoolKeeps
<1>6. BrokenWhy'
  <2>1. CASE broken' = broken
    BY <1>1, <2>1, KeepsBrokenWhy
  <2>2. CASE SetName(o)
    <3>1. Phase(o) /\ Told(o) /\ body[o] = "run" /\ broken' = (life[o] = "gone")
      BY <2>2, Parts DEF SetName
    <3>2. broken' => pthread[o] = "detached"
      BY <3>1 DEF Phase, Told
    <3>3. QED
      BY <1>1, <2>2, <3>2, KeepsBrokenWhy
  <2>3. QED
    BY <2>1, <2>2 DEF BodySteps, Run, SetId, Swap, Notify, BodyOver
<1>7. call' \in [Caller -> Calls]
  BY <1>1, Parts
<1>8. QED
  BY <1>1, <1>3, <1>5, <1>6, <1>7, TypePartsNext DEF Inv

-----------------------------------------------------------------------------
(* The constructor.                                                        *)

(* A caller that can begin a method has to do with no object. *)
LEMMA IdleOut ==
  ASSUME Inv, NEW c \in Caller, call[c] = Out, NEW o \in Object
  PROVE  call[c] \in With(o) /\ ~Busy(c, o)
BY DEF With, Busy, Makes, Joins, At, Out

LEMMA InMethod ==
  ASSUME Inv, NEW c \in Caller, NEW o \in Object, NEW w \in Where, In(c, w, o)
  PROVE  /\ call[c] \in With(o) /\ Busy(c, o) /\ At(c, w, o) /\ ~broken
         /\ Method(c, o) /\ Holds(c, o)
         /\ \A d \in Caller : d # c => ~Busy(d, o)
<1>1. call[c] = [at |-> w, obj |-> o] /\ ~broken
  BY DEF In
<1>2. At(c, w, o) /\ Busy(c, o)
  BY <1>1 DEF At, Busy, Makes, Joins, Where
<1>3. call[c] \in With(o)
  BY <1>1 DEF With
<1>4. ObjectOK(o)
  BY Parts
<1>5. QED
  BY <1>1, <1>2, <1>3, <1>4 DEF ObjectOK, Inv, Alone

LEMMA ConstructKeeps ==
  ASSUME Inv, NEW c \in Caller, NEW o \in Object, Construct(c, o), UNCHANGED poolVars,
         IF o \in Own THEN c = Main => stage = "idle"
         ELSE c = Main /\ stage = "start" /\ slot <= ThreadCount
  PROVE  Inv'
<1> DEFINE r == [at |-> "create", obj |-> o]
<1>1. /\ ThreadTypes /\ ObjectOK(o) /\ Phase(o) /\ Told(o) /\ call \in [Caller -> Calls]
      /\ \A p \in Object \ Own : pthread[p] # "detached"
  BY Parts
<1>2. /\ ~broken /\ call[c] = Out /\ life[o] = "unborn" /\ call' = [call EXCEPT ![c] = r]
      /\ life' = [life EXCEPT ![o] = "constructing"] /\ hasCb' = [hasCb EXCEPT ![o] = TRUE]
      /\ refs' = refs /\ handle' = handle /\ hasId' = hasId /\ sem' = sem /\ body' = body
      /\ pthread' = pthread /\ broken' = broken /\ stray' = stray
  BY DEF Construct, Idle, Goes
<1>3. stage' = stage
  BY DEF poolVars
<1>4. \A d \in Caller : ~Busy(d, o)
  BY <1>1, <1>2 DEF ObjectOK, Method, Busy, Makes, Joins
<1>5. ThreadTypes' /\ Phase(o)' /\ \A p \in Object : p # o => Unchanged(p)
  BY <1>1, <1>2 DEF ThreadTypes, Phase, Unchanged
<1>6. life'[o] = "constructing" /\ body[o] = "none"
  BY <1>1, <1>2 DEF ThreadTypes, Phase
<1>7. Told(o)'
  BY <1>6 DEF Told
<1>8. call'[c] = r /\ \A d \in Caller : d # c => call'[d] = call[d]
  BY <1>1, <1>2
<1>9. Method(c, o)' /\ Holds(c, o)'
  <2>1. At(c, "create", o)' /\ ~At(c, "wait", o)' /\ ~At(c, "join", o)' /\ ~At(c, "joined", o)'
    BY <1>8 DEF At
  <2>2. QED
    BY <1>2, <1>3, <1>6, <2>1 DEF Method, Holds, Makes, Joins
<1>10. call' \in [Caller -> Calls] /\ Objects' /\ Alone'
  <2>1. call[c] \in With(o) /\ r \in With(o)
    BY <1>2 DEF With, Where
  <2>2. refs'[o] \subseteq (IF o \in Own THEN Caller ELSE {Pool})
    BY <1>1, <1>2 DEF ObjectOK
  <2>3. QED
    BY <1>2, <1>3, <1>4, <1>5, <1>7, <1>9, <2>1, <2>2, CallerStep
<1>11. Slots' /\ Stage' /\ StopJoinsAll' /\ PoolTypes'
  <2>1. ASSUME NEW p \in Object, Busy(Main, p)'
        PROVE  Busy(Main, p) \/ stage \notin {"start", "join"} \/ (stage = "start" /\ slot <= ThreadCount)
    <3>1. CASE c = Main
      BY <3>1, <1>1
    <3>2. CASE c # Main
      BY <3>2, <2>1, <1>8, ThreadPoolAssumption DEF Busy, Makes, Joins, At
    <3>3. QED
      BY <3>1, <3>2
  <2>2. \A p \in Object : ~At(Main, "wait", p) \/ At(Main, "wait", p)'
    BY <1>2, <1>8, ThreadPoolAssumption DEF At, Out
  <2>3. \A p \in Object : life[p] \in {"alive", "gone"} => life'[p] \in {"alive", "gone"}
    BY <1>1, <1>2 DEF ThreadTypes
  <2>4. QED
    BY <1>1, <1>2, <1>5, <2>1, <2>2, <2>3, PoolKeeps
<1>12. BrokenWhy'
  BY <1>2, KeepsBrokenWhy
<1>13. QED
  BY <1>5, <1>10, <1>11, <1>12, TypePartsNext DEF Inv

(* Main is as it was, if another caller moved. *)
LEMMA MainStays ==
  ASSUME NEW c \in Caller, c # Main, \A d \in Caller : d # c => call'[d] = call[d]
  PROVE  \A p \in Object : (Busy(Main, p)' <=> Busy(Main, p)) /\ (At(Main, "wait", p)' <=> At(Main, "wait", p))
BY ThreadPoolAssumption DEF Busy, Makes, Joins, At

LEMMA NowIn ==
  ASSUME NEW c \in Caller, NEW o \in Object, NEW w \in Where, call'[c] = [at |-> w, obj |-> o]
  PROVE  \A p \in Object, x \in Where : At(c, x, p)' <=> x = w /\ p = o
<1> SUFFICES ASSUME NEW p \in Object, NEW x \in Where, At(c, x, p)' PROVE x = w /\ p = o
  BY DEF At
<1>1. [at |-> x, obj |-> p] = [at |-> w, obj |-> o]
  BY DEF At
<1>2. QED
  BY <1>1

LEMMA NowOut ==
  ASSUME NEW c \in Caller, call'[c] = Out
  PROVE  \A p \in Object : ~Busy(c, p)' /\ \A x \in Where : ~At(c, x, p)'
BY DEF Busy, Makes, Joins, At, Out

LEMMA CreateKeeps ==
  ASSUME Inv, NEW c \in Caller, NEW o \in Object, Create(c, o), UNCHANGED poolVars
  PROVE  Inv'
<1> DEFINE r == [at |-> "wait", obj |-> o]
<1>1. /\ ThreadTypes /\ ObjectOK(o) /\ Phase(o) /\ Told(o) /\ call \in [Caller -> Calls]
      /\ \A p \in Object \ Own : pthread[p] # "detached"
  BY Parts
<1>2. /\ In(c, "create", o) /\ call' = [call EXCEPT ![c] = r]
      /\ handle' = [handle EXCEPT ![o] = TRUE] /\ pthread' = [pthread EXCEPT ![o] = "joinable"]
      /\ body' = [body EXCEPT ![o] = "begin"]
      /\ life' = life /\ refs' = refs /\ hasId' = hasId /\ hasCb' = hasCb /\ sem' = sem
      /\ broken' = broken /\ stray' = stray
  BY DEF Create, Goes
<1>3. stage' = stage
  BY DEF poolVars
<1>4. /\ call[c] \in With(o) /\ Busy(c, o) /\ At(c, "create", o) /\ ~broken
      /\ Method(c, o) /\ Holds(c, o)
      /\ \A d \in Caller : d # c => ~Busy(d, o)
  BY <1>2, InMethod DEF Where
<1>5. life[o] = "constructing" /\ body[o] = "none" /\ sem[o] = 0
  BY <1>1, <1>4 DEF Method, Phase
<1>6. ThreadTypes' /\ Phase(o)' /\ \A p \in Object : p # o => Unchanged(p)
  BY <1>1, <1>2, <1>5 DEF ThreadTypes, Phase, Unchanged
<1>7. Told(o)'
  BY <1>2, <1>5 DEF Told
<1>8. call'[c] = r /\ \A d \in Caller : d # c => call'[d] = call[d]
  BY <1>1, <1>2
<1>9. Method(c, o)' /\ Holds(c, o)'
  <2>1. At(c, "wait", o)' /\ ~At(c, "create", o)' /\ ~At(c, "join", o)' /\ ~At(c, "joined", o)'
    BY <1>8, NowIn DEF Where
  <2>2. handle'[o] /\ pthread'[o] = "joinable" /\ life'[o] = "constructing"
    BY <1>1, <1>2, <1>5 DEF ThreadTypes
  <2>3. Method(c, o)'
    BY <2>1, <2>2 DEF Method
  <2>4. Holds(c, o)'
    BY <1>3, <1>4, <2>1 DEF Holds, Makes, Joins
  <2>5. QED
    BY <2>3, <2>4
<1>10. call' \in [Caller -> Calls] /\ Objects' /\ Alone'
  <2>1. r \in With(o)
    BY DEF With, Where
  <2>2. refs'[o] \subseteq (IF o \in Own THEN Caller ELSE {Pool})
    BY <1>1, <1>2 DEF ObjectOK
  <2>3. QED
    BY <1>2, <1>3, <1>4, <1>6, <1>7, <1>9, <2>1, <2>2, CallerStep
<1>11. Slots' /\ Stage' /\ StopJoinsAll' /\ PoolTypes'
  <2>1. ASSUME NEW p \in Object, Busy(Main, p)' PROVE Busy(Main, p)
    <3>1. CASE c = Main
      BY <3>1, <2>1, <1>4, <1>8, NowIn DEF Busy, Makes, Joins, Where
    <3>2. CASE c # Main
      BY <3>2, <2>1, <1>8, MainStays
    <3>3. QED
      BY <3>1, <3>2
  <2>2. ASSUME NEW p \in Object \ Own, pthread'[p] = "joinable"
        PROVE  At(Main, "wait", p)' \/ (pthread[p] = "joinable" /\ ~At(Main, "wait", p))
    <3>1. CASE p = o
      <4>1. c = Main
        BY <3>1, <1>4 DEF Holds
      <4>2. QED
        BY <3>1, <4>1, <1>8 DEF At
    <3>2. CASE p # o
      <4>1. pthread[p] = "joinable"
        BY <3>2, <2>2, <1>6 DEF Unchanged
      <4>2. At(Main, "wait", p) => c # Main
        BY <3>2, <1>4, OneMethod
      <4>3. QED
        BY <4>1, <4>2, <1>8, MainStays
    <3>3. QED
      BY <3>1, <3>2
  <2>3. \A p \in Object : life[p] \in {"alive", "gone"} => life'[p] \in {"alive", "gone"} /\ (handle'[p] => handle[p])
    <3>1. \A p \in Object : life[p] \in {"alive", "gone"} => p # o
      BY <1>5
    <3>2. QED
      BY <1>6, <3>1 DEF Unchanged
  <2>4. \A p \in Object \ Own : pthread'[p] # "detached"
    BY <1>1, <1>2 DEF ThreadTypes
  <2>5. QED
    BY <1>6, <2>1, <2>2, <2>3, <2>4, PoolKeeps
<1>12. BrokenWhy'
  BY <1>2, <1>4, KeepsBrokenWhy
<1>13. QED
  BY <1>6, <1>10, <1>11, <1>12, TypePartsNext DEF Inv

LEMMA CreateFailsObjects ==
  ASSUME Inv, NEW c \in Caller, NEW o \in Object, CreateFails(c, o), stage' = stage \/ c = Main
  PROVE  /\ ThreadTypes' /\ call' \in [Caller -> Calls] /\ Objects' /\ Alone'
         /\ call'[c] = Out /\ \A d \in Caller : d # c => call'[d] = call[d]
         /\ \A p \in Object : life[p] \in {"alive", "gone"} => life'[p] = life[p]
         /\ handle' = handle /\ pthread' = pthread /\ At(c, "create", o) /\ Holds(c, o)
         /\ broken' = broken /\ ~broken /\ stray' = stray
<1>1. ThreadTypes /\ ObjectOK(o) /\ Phase(o) /\ Told(o) /\ call \in [Caller -> Calls]
  BY Parts
<1>2. /\ In(c, "create", o) /\ call' = [call EXCEPT ![c] = Out]
      /\ life' = [life EXCEPT ![o] = "failed"]
      /\ refs' = refs /\ handle' = handle /\ hasId' = hasId /\ hasCb' = hasCb /\ sem' = sem
      /\ body' = body /\ pthread' = pthread /\ broken' = broken /\ stray' = stray
  BY DEF CreateFails, Returns
<1>3. /\ call[c] \in With(o) /\ Busy(c, o) /\ At(c, "create", o) /\ ~broken
      /\ Method(c, o) /\ Holds(c, o)
      /\ \A d \in Caller : d # c => ~Busy(d, o)
  BY <1>2, InMethod DEF Where
<1>4. life[o] = "constructing" /\ body[o] = "none"
  BY <1>3 DEF Method
<1>5. ThreadTypes' /\ Phase(o)' /\ \A p \in Object : p # o => Unchanged(p)
  BY <1>1, <1>2, <1>4 DEF ThreadTypes, Phase, Unchanged
<1>6. life'[o] = "failed"
  BY <1>1, <1>2 DEF ThreadTypes
<1>7. Told(o)'
  BY <1>6 DEF Told
<1>8. call'[c] = Out /\ \A d \in Caller : d # c => call'[d] = call[d]
  BY <1>1, <1>2
<1>9. call' \in [Caller -> Calls] /\ Objects' /\ Alone'
  <2>1. Out \in With(o)
    BY DEF With
  <2>2. refs'[o] \subseteq (IF o \in Own THEN Caller ELSE {Pool})
    BY <1>1, <1>2 DEF ObjectOK
  <2>3. ~Busy(c, o)'
    BY <1>8, NowOut
  <2>4. QED
    BY <1>2, <1>3, <1>5, <1>7, <1>8, <2>1, <2>2, <2>3, CallerStep
<1>10. \A p \in Object : life[p] \in {"alive", "gone"} => life'[p] = life[p]
  BY <1>1, <1>2, <1>4 DEF ThreadTypes
<1>11. QED
  BY <1>2, <1>3, <1>5, <1>8, <1>9, <1>10

(* A caller leaves a method: what PoolKeeps asks of Main. *)
LEMMA MainLeaves ==
  ASSUME Inv, NEW c \in Caller, call'[c] = Out, \A d \in Caller : d # c => call'[d] = call[d]
  PROVE  /\ \A p \in Object : Busy(Main, p)' => Busy(Main, p)
         /\ \A p \in Object : ~At(c, "wait", p) => (At(Main, "wait", p) => At(Main, "wait", p)')
<1>1. CASE c = Main
  BY <1>1, NowOut DEF Where
<1>2. CASE c # Main
  BY <1>2, MainStays
<1>3. QED
  BY <1>1, <1>2

LEMMA CreateFailsKeeps ==
  ASSUME Inv, NEW c \in Caller, NEW o \in Object, CreateFails(c, o), UNCHANGED poolVars
  PROVE  Inv'
<1>1. stage' = stage
  BY DEF poolVars
<1>2. /\ ThreadTypes' /\ call' \in [Caller -> Calls] /\ Objects' /\ Alone'
      /\ call'[c] = Out /\ \A d \in Caller : d # c => call'[d] = call[d]
      /\ \A p \in Object : life[p] \in {"alive", "gone"} => life'[p] = life[p]
      /\ handle' = handle /\ pthread' = pthread /\ At(c, "create", o) /\ Holds(c, o)
      /\ broken' = broken /\ ~broken /\ stray' = stray
  BY <1>1, CreateFailsObjects
<1>3. \A p \in Object : ~At(c, "wait", p)
  BY <1>2, OneMethod
<1>4. Slots' /\ Stage' /\ StopJoinsAll' /\ PoolTypes'
  <2>1. \A p \in Object \ Own : pthread[p] # "detached"
    BY Parts
  <2>2. (\A p \in Object : Busy(Main, p)' => Busy(Main, p))
        /\ \A p \in Object : At(Main, "wait", p) => At(Main, "wait", p)'
    BY <1>2, <1>3, MainLeaves
  <2>3. QED
    BY <1>2, <2>1, <2>2, PoolKeeps
<1>5. BrokenWhy'
  BY <1>2, KeepsBrokenWhy
<1>6. QED
  BY <1>2, <1>4, <1>5, TypePartsNext DEF Inv

LEMMA ConstructedObjects ==
  ASSUME Inv, NEW c \in Caller, NEW o \in Object, NEW holder, Constructed(c, o, holder),
         stage' = stage \/ c = Main, holder = IF o \in Own THEN c ELSE Pool
  PROVE  /\ ThreadTypes' /\ call' \in [Caller -> Calls] /\ Objects' /\ Alone'
         /\ call'[c] = Out /\ \A d \in Caller : d # c => call'[d] = call[d]
         /\ \A p \in Object : life[p] \in {"alive", "gone"} => life'[p] = life[p]
         /\ life'[o] = "alive"
         /\ handle' = handle /\ pthread' = pthread /\ At(c, "wait", o) /\ Holds(c, o)
         /\ broken' = broken /\ ~broken /\ stray' = stray
<1>1. ThreadTypes /\ ObjectOK(o) /\ Phase(o) /\ Told(o) /\ call \in [Caller -> Calls]
  BY Parts
<1>2. /\ In(c, "wait", o) /\ call' = [call EXCEPT ![c] = Out] /\ sem[o] > 0
      /\ sem' = [sem EXCEPT ![o] = @ - 1]
      /\ life' = [life EXCEPT ![o] = "alive"] /\ refs' = [refs EXCEPT ![o] = {holder}]
      /\ handle' = handle /\ hasId' = hasId /\ hasCb' = hasCb
      /\ body' = body /\ pthread' = pthread /\ broken' = broken /\ stray' = stray
  BY DEF Constructed, Returns
<1>3. /\ call[c] \in With(o) /\ Busy(c, o) /\ At(c, "wait", o) /\ ~broken
      /\ Method(c, o) /\ Holds(c, o)
      /\ \A d \in Caller : d # c => ~Busy(d, o)
  BY <1>2, InMethod DEF Where
<1>4. life[o] = "constructing" /\ handle[o] /\ pthread[o] = "joinable"
  BY <1>3 DEF Method
<1>5. body[o] \in {"run", "over"} /\ sem[o] = 1
  BY <1>1, <1>2 DEF Phase, ThreadTypes
<1>6. life'[o] = "alive" /\ refs'[o] = {holder} /\ sem'[o] = 0
  BY <1>1, <1>2, <1>5 DEF ThreadTypes
<1>7. ThreadTypes' /\ \A p \in Object : p # o => Unchanged(p)
  <2>1. sem' \in [Object -> {0, 1}] /\ \A p \in Object : p # o => sem'[p] = sem[p]
    BY <1>1, <1>2, <1>5 DEF ThreadTypes
  <2>2. refs' \in [Object -> SUBSET (Caller \cup {Pool})] /\ \A p \in Object : p # o => refs'[p] = refs[p]
    BY <1>1, <1>2 DEF ThreadTypes
  <2>3. QED
    BY <1>1, <1>2, <2>1, <2>2 DEF ThreadTypes, Unchanged
<1>8. Phase(o)' /\ Told(o)'
  BY <1>1, <1>2, <1>4, <1>5, <1>6 DEF Phase, Told
<1>9. call'[c] = Out /\ \A d \in Caller : d # c => call'[d] = call[d]
  BY <1>1, <1>2
<1>10. call' \in [Caller -> Calls] /\ Objects' /\ Alone'
  <2>1. Out \in With(o)
    BY DEF With
  <2>2. refs'[o] \subseteq (IF o \in Own THEN Caller ELSE {Pool})
    BY <1>6
  <2>3. ~Busy(c, o)'
    BY <1>9, NowOut
  <2>4. QED
    BY <1>2, <1>3, <1>7, <1>8, <1>9, <2>1, <2>2, <2>3, CallerStep
<1>11. \A p \in Object : life[p] \in {"alive", "gone"} => life'[p] = life[p]
  BY <1>1, <1>2, <1>4 DEF ThreadTypes
<1>12. QED
  BY <1>2, <1>3, <1>6, <1>7, <1>9, <1>10, <1>11

LEMMA ConstructedKeeps ==
  ASSUME Inv, NEW c \in Caller, NEW o \in Own, Constructed(c, o, c), UNCHANGED poolVars
  PROVE  Inv'
<1>1. stage' = stage /\ o \in Object
  BY ThreadPoolAssumption DEF poolVars
<1>2. /\ ThreadTypes' /\ call' \in [Caller -> Calls] /\ Objects' /\ Alone'
      /\ call'[c] = Out /\ \A d \in Caller : d # c => call'[d] = call[d]
      /\ \A p \in Object : life[p] \in {"alive", "gone"} => life'[p] = life[p]
      /\ life'[o] = "alive"
      /\ handle' = handle /\ pthread' = pthread /\ At(c, "wait", o) /\ Holds(c, o)
      /\ broken' = broken /\ ~broken /\ stray' = stray
  BY <1>1, ConstructedObjects
<1>3. \A p \in Object \ Own : ~At(c, "wait", p)
  BY <1>2, OneMethod
<1>4. Slots' /\ Stage' /\ StopJoinsAll' /\ PoolTypes'
  <2>1. \A p \in Object \ Own : pthread[p] # "detached"
    BY Parts
  <2>2. (\A p \in Object : Busy(Main, p)' => Busy(Main, p))
        /\ \A p \in Object \ Own : At(Main, "wait", p) => At(Main, "wait", p)'
    BY <1>2, <1>3, MainLeaves
  <2>3. QED
    BY <1>2, <2>1, <2>2, PoolKeeps
<1>5. BrokenWhy'
  BY <1>2, KeepsBrokenWhy
<1>6. QED
  BY <1>2, <1>4, <1>5, TypePartsNext DEF Inv

-----------------------------------------------------------------------------
(* join().                                                                 *)

LEMMA JoinKeeps1 ==
  ASSUME Inv, NEW c \in Caller, NEW o \in Object, NEW holder, Join(c, o, holder), UNCHANGED poolVars,
         holder = IF o \in Own THEN c ELSE Pool,
         IF o \in Own THEN c = Main => stage = "idle"
         ELSE c = Main /\ stage = "join" /\ slot <= Len(thrs) /\ thrs[slot] = o
  PROVE  Inv'
<1> DEFINE r == [at |-> "join", obj |-> o]
<1>1. /\ ThreadTypes /\ ObjectOK(o) /\ Phase(o) /\ Told(o) /\ call \in [Caller -> Calls]
      /\ \A p \in Object \ Own : pthread[p] # "detached"
  BY Parts
<1>2. /\ ~broken /\ call[c] = Out /\ holder \in refs[o] /\ handle[o] /\ Joining(o) = {}
      /\ call' = [call EXCEPT ![c] = r] /\ broken' = broken
      /\ life' = life /\ refs' = refs /\ handle' = handle /\ hasId' = hasId /\ hasCb' = hasCb
      /\ sem' = sem /\ body' = body /\ pthread' = pthread /\ stray' = stray
  BY DEF Join, CanJoin, Idle, Goes, objects
<1>3. stage' = stage
  BY DEF poolVars
<1>4. life[o] = "alive"
  BY <1>1, <1>2 DEF Phase
<1>5. \A d \in Caller : ~Busy(d, o)
  <2>1. ASSUME NEW d \in Caller, Joins(d, o) PROVE FALSE
    <3>1. call[d] \in [at : {"join", "joined"}, obj : {o}]
      BY <2>1 DEF Joins, At
    <3>2. d \in Joining(o)
      BY <3>1 DEF Joining
    <3>3. QED
      BY <1>2, <3>2
  <2>2. \A d \in Caller : ~Makes(d, o)
    BY <1>1, <1>4 DEF ObjectOK, Method, Makes, Busy
  <2>3. QED
    BY <2>1, <2>2 DEF Busy
<1>6. pthread[o] = "joinable"
  BY <1>1, <1>2, <1>4, <1>5 DEF Told, Busy, Joins
<1>7. call'[c] = r /\ \A d \in Caller : d # c => call'[d] = call[d]
  BY <1>1, <1>2
<1>8. ThreadTypes' /\ Phase(o)' /\ \A p \in Object : p # o => Unchanged(p)
  BY <1>1, <1>2 DEF ThreadTypes, Phase, Unchanged
<1>9. Told(o)'
  BY <1>2, <1>4, <1>6 DEF Told
<1>10. Method(c, o)' /\ Holds(c, o)'
  <2>1. At(c, "join", o)' /\ ~At(c, "create", o)' /\ ~At(c, "wait", o)' /\ ~At(c, "joined", o)'
    BY <1>7, NowIn DEF Where
  <2>2. QED
    BY <1>2, <1>3, <1>4, <1>6, <2>1 DEF Method, Holds, Makes, Joins
<1>11. call' \in [Caller -> Calls] /\ Objects' /\ Alone'
  <2>1. call[c] \in With(o) /\ r \in With(o)
    BY <1>2 DEF With, Where
  <2>2. refs'[o] \subseteq (IF o \in Own THEN Caller ELSE {Pool})
    BY <1>1, <1>2 DEF ObjectOK
  <2>3. QED
    BY <1>2, <1>3, <1>5, <1>8, <1>9, <1>10, <2>1, <2>2, CallerStep
<1>12. Slots' /\ Stage' /\ StopJoinsAll' /\ PoolTypes'
  <2>1. ASSUME NEW p \in Object, Busy(Main, p)'
        PROVE  Busy(Main, p) \/ stage \notin {"start", "join"}
               \/ (stage = "join" /\ slot <= Len(thrs) /\ thrs[slot] = p)
    <3>1. CASE c = Main
      <4>1. PICK x \in Where : At(c, x, p)'
        BY <3>1, <2>1 DEF Busy, Makes, Joins, Where
      <4>2. [at |-> x, obj |-> p] = r
        BY <4>1, <1>7 DEF At
      <4>3. p = o
        BY <4>2
      <4>4. QED
        BY <3>1, <4>3
    <3>2. CASE c # Main
      BY <3>2, <2>1, <1>7, MainStays
    <3>3. QED
      BY <3>1, <3>2
  <2>2. \A p \in Object : At(Main, "wait", p) => At(Main, "wait", p)'
    <3>1. CASE c = Main
      BY <3>1, <1>2 DEF At, Out
    <3>2. CASE c # Main
      BY <3>2, <1>7, MainStays
    <3>3. QED
      BY <3>1, <3>2
  <2>3. QED
    BY <1>1, <1>2, <1>8, <2>1, <2>2, PoolKeeps
<1>13. BrokenWhy'
  BY <1>2, KeepsBrokenWhy
<1>14. QED
  BY <1>8, <1>11, <1>12, <1>13, TypePartsNext DEF Inv

LEMMA JoinAgainKeeps ==
  ASSUME Inv, NEW c \in Caller, NEW o \in Object, JoinAgain(c, o, c), UNCHANGED poolVars
  PROVE  Inv'
<1>1. /\ ~broken /\ broken' = (pthread[o] # "joinable") /\ stray' = stray \cup {o}
      /\ life' = life /\ refs' = refs /\ handle' = handle /\ hasId' = hasId /\ hasCb' = hasCb
      /\ sem' = sem /\ body' = body /\ pthread' = pthread /\ call' = call
  BY DEF JoinAgain, CanJoin, Idle
<1>2. /\ ThreadTypes /\ call \in [Caller -> Calls] /\ \A p \in Object \ Own : pthread[p] # "detached"
  BY Parts
<1>3. ThreadTypes'
  BY <1>1, <1>2 DEF ThreadTypes
<1>4. stage' = stage
  BY DEF poolVars
<1>5. Objects' /\ Alone'
  BY <1>1, <1>4, SameObjects
<1>6. Slots' /\ Stage' /\ StopJoinsAll' /\ PoolTypes'
  <2>1. \A p \in Object : (Busy(Main, p)' <=> Busy(Main, p)) /\ (At(Main, "wait", p)' <=> At(Main, "wait", p))
    BY <1>1 DEF Busy, Makes, Joins, At
  <2>2. QED
    BY <1>1, <1>2, <1>3, <2>1, PoolKeeps
<1>7. BrokenWhy'
  BY <1>1, KeepsBrokenWhy
<1>8. QED
  BY <1>1, <1>2, <1>3, <1>5, <1>6, <1>7, TypePartsNext DEF Inv

LEMMA JoinedKeeps ==
  ASSUME Inv, NEW c \in Caller, NEW o \in Object, Joined(c, o), UNCHANGED poolVars
  PROVE  Inv'
<1> DEFINE r == [at |-> "joined", obj |-> o]
<1>1. /\ ThreadTypes /\ ObjectOK(o) /\ Phase(o) /\ Told(o) /\ call \in [Caller -> Calls]
      /\ \A p \in Object \ Own : pthread[p] # "detached"
  BY Parts
<1>2. /\ In(c, "join", o) /\ body[o] = "over" /\ call' = [call EXCEPT ![c] = r]
      /\ pthread' = [pthread EXCEPT ![o] = "joined"]
      /\ life' = life /\ refs' = refs /\ handle' = handle /\ hasId' = hasId /\ hasCb' = hasCb
      /\ sem' = sem /\ body' = body /\ broken' = broken /\ stray' = stray
  BY DEF Joined, Goes
<1>3. stage' = stage
  BY DEF poolVars
<1>4. /\ call[c] \in With(o) /\ Busy(c, o) /\ At(c, "join", o) /\ ~broken
      /\ Method(c, o) /\ Holds(c, o)
      /\ \A d \in Caller : d # c => ~Busy(d, o)
  BY <1>2, InMethod DEF Where
<1>5. life[o] = "alive" /\ handle[o]
  BY <1>4 DEF Method
<1>6. call'[c] = r /\ \A d \in Caller : d # c => call'[d] = call[d]
  BY <1>1, <1>2
<1>7. ThreadTypes' /\ Phase(o)' /\ \A p \in Object : p # o => Unchanged(p)
  BY <1>1, <1>2, <1>5 DEF ThreadTypes, Phase, Unchanged
<1>8. At(c, "joined", o)' /\ ~At(c, "create", o)' /\ ~At(c, "wait", o)' /\ ~At(c, "join", o)'
  BY <1>6, NowIn DEF Where
<1>9. Told(o)'
  BY <1>2, <1>5, <1>8 DEF Told
<1>10. Method(c, o)' /\ Holds(c, o)'
  <2>1. pthread'[o] = "joined"
    BY <1>1, <1>2 DEF ThreadTypes
  <2>2. Method(c, o)'
    BY <1>2, <1>5, <1>8, <2>1 DEF Method
  <2>3. Holds(c, o)'
    BY <1>2, <1>3, <1>4, <1>8 DEF Holds, Makes, Joins
  <2>4. QED
    BY <2>2, <2>3
<1>11. call' \in [Caller -> Calls] /\ Objects' /\ Alone'
  <2>1. r \in With(o)
    BY DEF With, Where
  <2>2. refs'[o] \subseteq (IF o \in Own THEN Caller ELSE {Pool})
    BY <1>1, <1>2 DEF ObjectOK
  <2>3. QED
    BY <1>2, <1>3, <1>4, <1>7, <1>9, <1>10, <2>1, <2>2, CallerStep
<1>12. Slots' /\ Stage' /\ StopJoinsAll' /\ PoolTypes'
  <2>1. ASSUME NEW p \in Object, Busy(Main, p)' PROVE Busy(Main, p)
    <3>1. CASE c = Main
      BY <3>1, <2>1, <1>4, <1>6, NowIn DEF Busy, Makes, Joins, Where
    <3>2. CASE c # Main
      BY <3>2, <2>1, <1>6, MainStays
    <3>3. QED
      BY <3>1, <3>2
  <2>2. \A p \in Object : At(Main, "wait", p) => At(Main, "wait", p)'
    <3>1. CASE c = Main
      <4>1. \A p \in Object : ~At(Main, "wait", p)
        BY <3>1, <1>4, OneMethod
      <4>2. QED
        BY <4>1
    <3>2. CASE c # Main
      BY <3>2, <1>6, MainStays
    <3>3. QED
      BY <3>1, <3>2
  <2>3. \A p \in Object \ Own : pthread'[p] # "detached" /\ (pthread'[p] = "joinable" => pthread[p] = "joinable")
    BY <1>1, <1>2 DEF ThreadTypes
  <2>4. QED
    BY <1>2, <1>7, <2>1, <2>2, <2>3, PoolKeeps
<1>13. BrokenWhy'
  BY <1>2, <1>4, KeepsBrokenWhy
<1>14. QED
  BY <1>7, <1>11, <1>12, <1>13, TypePartsNext DEF Inv

LEMMA JoinReturnsObjects ==
  ASSUME Inv, NEW c \in Caller, NEW o \in Object, JoinReturns(c, o), stage' = stage \/ c = Main
  PROVE  /\ ThreadTypes' /\ call' \in [Caller -> Calls] /\ Objects' /\ Alone'
         /\ call'[c] = Out /\ \A d \in Caller : d # c => call'[d] = call[d]
         /\ life' = life /\ pthread' = pthread /\ ~handle'[o]
         /\ \A p \in Object : handle'[p] => handle[p]
         /\ At(c, "joined", o) /\ Holds(c, o) /\ pthread[o] = "joined"
         /\ broken' = broken /\ ~broken /\ stray' = stray
<1>1. ThreadTypes /\ ObjectOK(o) /\ Phase(o) /\ Told(o) /\ call \in [Caller -> Calls]
  BY Parts
<1>2. /\ In(c, "joined", o) /\ call' = [call EXCEPT ![c] = Out]
      /\ handle' = [handle EXCEPT ![o] = FALSE]
      /\ life' = life /\ refs' = refs /\ hasId' = hasId /\ hasCb' = hasCb /\ sem' = sem
      /\ body' = body /\ pthread' = pthread /\ broken' = broken /\ stray' = stray
  BY DEF JoinReturns, Returns
<1>3. /\ call[c] \in With(o) /\ Busy(c, o) /\ At(c, "joined", o) /\ ~broken
      /\ Method(c, o) /\ Holds(c, o)
      /\ \A d \in Caller : d # c => ~Busy(d, o)
  BY <1>2, InMethod DEF Where
<1>4. life[o] = "alive" /\ pthread[o] = "joined"
  BY <1>3 DEF Method
<1>5. ThreadTypes' /\ Phase(o)' /\ \A p \in Object : p # o => Unchanged(p)
  BY <1>1, <1>2 DEF ThreadTypes, Phase, Unchanged
<1>6. ~handle'[o] /\ \A p \in Object : handle'[p] => handle[p]
  BY <1>1, <1>2 DEF ThreadTypes
<1>7. Told(o)'
  BY <1>2, <1>4, <1>6 DEF Told
<1>8. call'[c] = Out /\ \A d \in Caller : d # c => call'[d] = call[d]
  BY <1>1, <1>2
<1>9. call' \in [Caller -> Calls] /\ Objects' /\ Alone'
  <2>1. Out \in With(o)
    BY DEF With
  <2>2. refs'[o] \subseteq (IF o \in Own THEN Caller ELSE {Pool})
    BY <1>1, <1>2 DEF ObjectOK
  <2>3. ~Busy(c, o)'
    BY <1>8, NowOut
  <2>4. QED
    BY <1>2, <1>3, <1>5, <1>7, <1>8, <2>1, <2>2, <2>3, CallerStep
<1>10. QED
  BY <1>2, <1>3, <1>4, <1>5, <1>6, <1>8, <1>9

LEMMA JoinReturnsKeeps ==
  ASSUME Inv, NEW c \in Caller, NEW o \in Object, JoinReturns(c, o), UNCHANGED poolVars
  PROVE  Inv'
<1>1. stage' = stage
  BY DEF poolVars
<1>2. /\ ThreadTypes' /\ call' \in [Caller -> Calls] /\ Objects' /\ Alone'
      /\ call'[c] = Out /\ \A d \in Caller : d # c => call'[d] = call[d]
      /\ life' = life /\ pthread' = pthread /\ ~handle'[o]
      /\ \A p \in Object : handle'[p] => handle[p]
      /\ At(c, "joined", o) /\ Holds(c, o) /\ pthread[o] = "joined"
      /\ broken' = broken /\ ~broken /\ stray' = stray
  BY <1>1, JoinReturnsObjects
<1>3. \A p \in Object : ~At(c, "wait", p)
  BY <1>2, OneMethod
<1>4. Slots' /\ Stage' /\ StopJoinsAll' /\ PoolTypes'
  <2>1. \A p \in Object \ Own : pthread[p] # "detached"
    BY Parts
  <2>2. (\A p \in Object : Busy(Main, p)' => Busy(Main, p))
        /\ \A p \in Object : At(Main, "wait", p) => At(Main, "wait", p)'
    BY <1>2, <1>3, MainLeaves
  <2>3. QED
    BY <1>2, <2>1, <2>2, PoolKeeps
<1>5. BrokenWhy'
  BY <1>2, KeepsBrokenWhy
<1>6. QED
  BY <1>2, <1>4, <1>5, TypePartsNext DEF Inv

-----------------------------------------------------------------------------
(* The shared_ptrs.                                                        *)

LEMMA ShareKeeps ==
  ASSUME Inv, NEW c \in Caller, NEW d \in Caller, NEW o \in Own, Share(c, d, o), UNCHANGED poolVars
  PROVE  Inv'
<1>1. /\ o \in Object /\ ThreadTypes /\ ObjectOK(o) /\ Phase(o) /\ Told(o) /\ call \in [Caller -> Calls]
      /\ \A p \in Object \ Own : pthread[p] # "detached"
  BY Parts, ThreadPoolAssumption
<1>2. /\ ~broken /\ c \in refs[o] /\ refs' = [refs EXCEPT ![o] = @ \cup {d}]
      /\ life' = life /\ handle' = handle /\ hasId' = hasId /\ hasCb' = hasCb /\ sem' = sem
      /\ body' = body /\ pthread' = pthread /\ call' = call /\ broken' = broken /\ stray' = stray
  BY DEF Share, Idle
<1>3. stage' = stage
  BY DEF poolVars
<1>4. refs'[o] = refs[o] \cup {d} /\ ThreadTypes' /\ \A p \in Object : p # o => Unchanged(p)
  BY <1>1, <1>2 DEF ThreadTypes, Unchanged
<1>5. \A e \in Caller, p \in Object, w \in Where : At(e, w, p)' <=> At(e, w, p)
  BY <1>2 DEF At
<1>6. ObjectOK(o)'
  <2>1. Phase(o)' /\ Told(o)'
    BY <1>1, <1>2, <1>4, <1>5 DEF Phase, Told, Where
  <2>2. ASSUME NEW e \in Caller, Busy(e, o)' PROVE Method(e, o)' /\ Holds(e, o)'
    <3>1. Busy(e, o) /\ (Makes(e, o)' <=> Makes(e, o)) /\ (Joins(e, o)' <=> Joins(e, o))
      BY <1>1, <1>5, <2>2 DEF Busy, Makes, Joins, Where
    <3>2. Method(e, o) /\ Holds(e, o)
      BY <1>1, <3>1 DEF ObjectOK
    <3>3. Method(e, o)'
      BY <1>1, <1>2, <1>5, <3>2 DEF Method, Where
    <3>4. QED
      BY <1>3, <1>4, <3>1, <3>2, <3>3 DEF Holds
  <2>3. QED
    BY <1>1, <1>4, <2>1, <2>2 DEF ObjectOK
<1>7. Objects'
  BY <1>1, <1>3, <1>4, <1>5, <1>6, OthersKeep
<1>8. Alone'
  BY <1>5 DEF Inv, Alone, Busy, Makes, Joins, Where
<1>9. Slots' /\ Stage' /\ StopJoinsAll' /\ PoolTypes'
  <2>1. \A p \in Object : (Busy(Main, p)' <=> Busy(Main, p)) /\ (At(Main, "wait", p)' <=> At(Main, "wait", p))
    BY <1>2 DEF Busy, Makes, Joins, At
  <2>2. QED
    BY <1>1, <1>2, <1>4, <2>1, PoolKeeps
<1>10. BrokenWhy'
  BY <1>2, KeepsBrokenWhy
<1>11. QED
  BY <1>1, <1>2, <1>4, <1>7, <1>8, <1>9, <1>10, TypePartsNext DEF Inv

(* Nobody joins an object that is let go for good, so its thread is        *)
(* detached if it was not joined, and the system has not heard of it yet.  *)
LEMMA ReleasedObjects ==
  ASSUME Inv, NEW o \in Object, NEW holder, Released(o, holder), holder \in refs[o],
         ~broken, call' = call, stage' = stage, stray' = stray,
         UNCHANGED <<handle, hasId, hasCb, sem, body>>,
         \A d \in Caller : Joins(d, o) => holder # IF o \in Own THEN d ELSE Pool
  PROVE  /\ ThreadTypes' /\ Objects' /\ Alone' /\ broken' = FALSE
         /\ \A p \in Object : life[p] \in {"alive", "gone"} => life'[p] \in {"alive", "gone"}
         /\ \A p \in Object : p # o => pthread'[p] = pthread[p]
         /\ pthread'[o] = pthread[o] \/ (pthread'[o] = "detached" /\ handle[o])
<1> DEFINE rest == refs[o] \ {holder}
<1>1. /\ ThreadTypes /\ ObjectOK(o) /\ Phase(o) /\ Told(o)
  BY Parts
<1>2. /\ refs' = [refs EXCEPT ![o] = rest]
      /\ life' = [life EXCEPT ![o] = IF refs'[o] = {} THEN "gone" ELSE life[o]]
      /\ pthread' = [pthread EXCEPT ![o] = IF refs'[o] = {} /\ handle[o] THEN "detached" ELSE pthread[o]]
      /\ broken' = (refs'[o] = {} /\ handle[o] /\ pthread[o] # "joinable")
      /\ handle' = handle /\ hasId' = hasId /\ hasCb' = hasCb /\ sem' = sem /\ body' = body
  BY DEF Released
<1>3. refs'[o] = rest /\ life[o] = "alive"
  BY <1>1, <1>2 DEF ThreadTypes, Phase
<1>4. /\ rest = {} => life'[o] = "gone"
      /\ rest # {} => life'[o] = "alive"
      /\ rest = {} /\ handle[o] => pthread'[o] = "detached"
      /\ ~(rest = {} /\ handle[o]) => pthread'[o] = pthread[o]
  BY <1>1, <1>2, <1>3 DEF ThreadTypes
<1>5. \A d \in Caller : rest = {} => ~Joins(d, o)
  <2> SUFFICES ASSUME NEW d \in Caller, rest = {}, Joins(d, o) PROVE FALSE
    OBVIOUS
  <2>1. Holds(d, o)
    BY <1>1 DEF ObjectOK, Busy
  <2>2. CASE o \in Own
    <3>1. d \in refs[o] /\ holder # d
      BY <2>1, <2>2 DEF Holds
    <3>2. QED
      BY <3>1
  <2>3. CASE o \notin Own
    <3>1. refs[o] \subseteq {Pool} /\ holder # Pool
      BY <1>1, <2>3 DEF ObjectOK
    <3>2. QED
      BY <3>1
  <2>4. QED
    BY <2>2, <2>3
<1>6. rest = {} /\ handle[o] => pthread[o] = "joinable"
  BY <1>1, <1>3, <1>5 DEF Told, Joins
<1>7. broken' = FALSE
  BY <1>2, <1>3, <1>6
<1>8. ThreadTypes' /\ \A p \in Object : p # o => Unchanged(p)
  <2>1. refs' \in [Object -> SUBSET (Caller \cup {Pool})]
    BY <1>1, <1>2 DEF ThreadTypes
  <2>2. life' \in [Object -> {"unborn", "constructing", "failed", "alive", "gone"}]
    BY <1>1, <1>2 DEF ThreadTypes
  <2>3. pthread' \in [Object -> {"none", "joinable", "joined", "detached"}]
    BY <1>1, <1>2 DEF ThreadTypes
  <2>4. \A p \in Object : p # o => Unchanged(p)
    BY <1>1, <1>2 DEF ThreadTypes, Unchanged
  <2>5. QED
    BY <1>1, <1>2, <1>7, <2>1, <2>2, <2>3, <2>4 DEF ThreadTypes
<1>9. \A d \in Caller, p \in Object, w \in Where : At(d, w, p)' <=> At(d, w, p)
  BY DEF At
<1>10. \A d \in Caller : (Busy(d, o)' <=> Busy(d, o)) /\ (Makes(d, o)' <=> Makes(d, o)) /\ (Joins(d, o)' <=> Joins(d, o))
  BY <1>9 DEF Busy, Makes, Joins, Where
<1>11. Phase(o)'
  BY <1>1, <1>2, <1>3, <1>4 DEF Phase
<1>12. Told(o)'
  <2>1. CASE rest = {}
    BY <1>1, <1>3, <1>4, <2>1 DEF Told
  <2>2. CASE rest # {}
    BY <1>1, <1>2, <1>3, <1>4, <1>9, <2>2 DEF Told, Where
  <2>3. QED
    BY <2>1, <2>2
<1>13. ASSUME NEW d \in Caller, Busy(d, o)' PROVE Method(d, o)' /\ Holds(d, o)'
  <2>1. Busy(d, o) /\ Method(d, o) /\ Holds(d, o)
    BY <1>1, <1>10, <1>13 DEF ObjectOK
  <2>2. ~Makes(d, o)
    BY <1>3, <2>1 DEF Makes, Method
  <2>3. Joins(d, o) /\ rest # {}
    BY <1>5, <2>1, <2>2 DEF Busy
  <2>4. Method(d, o)'
    BY <1>2, <1>3, <1>4, <1>9, <2>1, <2>2, <2>3 DEF Method, Makes, Where
  <2>5. o \in Own => d \in rest
    BY <2>1, <2>3 DEF Holds
  <2>6. Holds(d, o)'
    BY <1>3, <1>10, <2>1, <2>5 DEF Holds
  <2>7. QED
    BY <2>4, <2>6
<1>14. ObjectOK(o)'
  BY <1>1, <1>3, <1>11, <1>12, <1>13 DEF ObjectOK
<1>15. Objects'
  BY <1>8, <1>9, <1>14, OthersKeep
<1>16. Alone'
  BY <1>9 DEF Inv, Alone, Busy, Makes, Joins, Where
<1>17. \A p \in Object : life[p] \in {"alive", "gone"} => life'[p] \in {"alive", "gone"}
  BY <1>3, <1>4, <1>8 DEF Unchanged
<1>18. QED
  BY <1>4, <1>7, <1>8, <1>15, <1>16, <1>17 DEF Unchanged

LEMMA DropKeeps ==
  ASSUME Inv, NEW c \in Caller, NEW o \in Own, Drop(c, o), UNCHANGED poolVars
  PROVE  Inv'
<1>1. /\ o \in Object /\ call \in [Caller -> Calls]
      /\ \A p \in Object \ Own : pthread[p] # "detached"
  BY Parts, ThreadPoolAssumption
<1>2. /\ ~broken /\ c \in refs[o] /\ call[c] = Out /\ call' = call /\ stray' = stray
      /\ UNCHANGED <<handle, hasId, hasCb, sem, body>> /\ Released(o, c)
  BY DEF Drop, Idle
<1>3. stage' = stage
  BY DEF poolVars
<1>4. \A d \in Caller : Joins(d, o) => d # c
  BY <1>2 DEF Joins, At, Out
<1>5. /\ ThreadTypes' /\ Objects' /\ Alone' /\ broken' = FALSE
      /\ \A p \in Object : life[p] \in {"alive", "gone"} => life'[p] \in {"alive", "gone"}
      /\ \A p \in Object : p # o => pthread'[p] = pthread[p]
  BY <1>1, <1>2, <1>3, <1>4, ReleasedObjects
<1>6. Slots' /\ Stage' /\ StopJoinsAll' /\ PoolTypes'
  <2>1. \A p \in Object : (Busy(Main, p)' <=> Busy(Main, p)) /\ (At(Main, "wait", p)' <=> At(Main, "wait", p))
    BY <1>2 DEF Busy, Makes, Joins, At
  <2>2. QED
    BY <1>1, <1>2, <1>5, <2>1, PoolKeeps
<1>7. BrokenWhy'
  BY <1>2, <1>5, KeepsBrokenWhy
<1>8. QED
  BY <1>1, <1>2, <1>5, <1>6, <1>7, TypePartsNext DEF Inv

-----------------------------------------------------------------------------
(* start() and stop().                                                     *)

LEMMA SlotTypes ==
  ASSUME Inv
  PROVE  /\ PoolTypes /\ slot \in Nat /\ ThreadCount \in Nat /\ ThreadCount > 0
         /\ Len(threads) \in Nat /\ DOMAIN threads = 1 .. Len(threads)
         /\ Len(thrs) \in Nat /\ DOMAIN thrs = 1 .. Len(thrs)
         /\ Len(<<>>) = 0 /\ DOMAIN <<>> = {}
<1>1. PoolTypes
  BY Parts
<1>2. QED
  BY <1>1, ThreadPoolAssumption DEF PoolTypes

LEMMA SlotsUsed ==
  ASSUME Inv
  PROVE  Len(thrs) <= ThreadCount
<1>1. ASSUME NEW n \in Nat, n = Len(thrs) PROVE n <= ThreadCount
  <2>1. n = 0 \/ n = ThreadCount
    BY <1>1 DEF Inv, Slots
  <2>2. ThreadCount \in Nat
    BY ThreadPoolAssumption
  <2>3. QED
    BY <2>1, <2>2
<1>2. Len(thrs) \in Nat
  BY SlotTypes
<1>3. QED
  BY <1>1, <1>2

(* A step of Main, outside its calls, that leaves the objects alone.       *)
LEMMA MainOnly ==
  ASSUME Inv, call[Main] = Out, UNCHANGED <<objects, call>>, ~broken, broken' = FALSE,
         PoolTypes', Slots', Stage', StopJoinsAll'
  PROVE  Inv'
<1>1. /\ life' = life /\ refs' = refs /\ handle' = handle /\ hasId' = hasId /\ hasCb' = hasCb
      /\ sem' = sem /\ body' = body /\ pthread' = pthread /\ stray' = stray /\ call' = call
  BY DEF objects
<1>2. Objects' /\ Alone'
  BY <1>1, SameObjects
<1>3. ThreadTypes /\ call \in [Caller -> Calls]
  BY Parts
<1>4. ThreadTypes' /\ call' \in [Caller -> Calls]
  BY <1>1, <1>3 DEF ThreadTypes
<1>5. BrokenWhy'
  BY DEF BrokenWhy
<1>6. QED
  BY <1>2, <1>4, <1>5, TypePartsNext DEF Inv

LEMMA MainIdle ==
  ASSUME Inv, NEW here, MainIn(here)
  PROVE  /\ stage = here /\ call[Main] = Out /\ broken = FALSE
         /\ \A p \in Object : ~Busy(Main, p) /\ ~At(Main, "wait", p)
         /\ UNCHANGED call => \A p \in Object : ~Busy(Main, p)'
BY Parts DEF ThreadTypes, MainIn, Idle, Busy, Makes, Joins, At, Out

LEMMA StartKeeps == ASSUME Inv, Start PROVE Inv'
<1>1. /\ PoolTypes /\ slot \in Nat /\ ThreadCount \in Nat /\ ThreadCount > 0
      /\ Len(thrs) \in Nat /\ Len(<<>>) = 0 /\ DOMAIN <<>> = {}
  BY SlotTypes
<1>2. /\ stage = "idle" /\ call[Main] = Out /\ ~broken /\ stopping
      /\ broken' = (threads # <<>>) /\ stopping' = FALSE /\ locked' = TRUE
      /\ threads' = [k \in 1 .. ThreadCount |-> Null] /\ stage' = "start" /\ slot' = 1
      /\ UNCHANGED <<objects, call>> /\ thrs' = thrs /\ failed' = failed
  BY MainIdle DEF Start
<1>3. \A p \in Object : ~Busy(Main, p)' /\ ~At(Main, "wait", p)
  BY <1>2, MainIdle DEF Start
<1>4. threads = <<>> /\ broken' = FALSE
  BY <1>2 DEF Inv, Stage
<1>5. threads' \in Seq(Object \cup {Null}) /\ Len(threads') = ThreadCount
      /\ DOMAIN threads' = 1 .. ThreadCount /\ \A k \in 1 .. ThreadCount : threads'[k] = Null
  BY <1>1, <1>2
<1>6. PoolTypes'
  <2>1. 1 \in 0 .. ThreadCount + 1
    BY <1>1
  <2>2. thrs \in Seq(Object \cup {Null}) /\ failed \in BOOLEAN
    BY <1>1 DEF PoolTypes
  <2>3. QED
    BY <1>2, <1>5, <2>1, <2>2 DEF PoolTypes
<1>7. Slots'
  <2>1. life' = life /\ handle' = handle
    BY <1>2 DEF objects
  <2>2. \A k \in 1 .. ThreadCount : k >= slot'
    BY <1>1, <1>2
  <2>3. QED
    BY <1>2, <1>5, <2>1, <2>2 DEF Inv, Slots
<1>8. Stage'
  <2>1. Len(threads') = ThreadCount /\ slot' >= 1
    <3>1. slot' = 1
      BY <1>2
    <3>2. QED
      BY <3>1, <1>5
  <2>2. QED
    BY <1>2, <1>3, <2>1 DEF Stage
<1>9. StopJoinsAll'
  <2>1. pthread' = pthread
    BY <1>2 DEF objects
  <2>2. \A o \in Object \ Own : pthread[o] # "detached" /\ pthread[o] # "joinable"
    <3>1. \A k \in DOMAIN threads : FALSE
      BY <1>4, <1>1
    <3>2. \A o \in Object : call[Main] # [at |-> "wait", obj |-> o]
      BY <1>3 DEF At
    <3>3. QED
      BY <1>2, <3>1, <3>2 DEF Inv, StopJoinsAll
  <2>3. QED
    BY <2>1, <2>2 DEF StopJoinsAll
<1>10. QED
  BY <1>2, <1>4, <1>6, <1>7, <1>8, <1>9, MainOnly

LEMMA StartOneKeeps == ASSUME Inv, NEW o \in Object, StartOne(o) PROVE Inv'
<1>1. stage = "start" /\ slot <= ThreadCount /\ o \notin Own /\ Construct(Main, o) /\ UNCHANGED poolVars
  BY DEF StartOne, MainIn, Unborn
<1>2. QED
  BY <1>1, ConstructKeeps, ThreadPoolAssumption

LEMMA StartedOneKeeps == ASSUME Inv, NEW o \in Object, StartedOne(o) PROVE Inv'
<1>1. /\ PoolTypes /\ slot \in Nat /\ ThreadCount \in Nat /\ ThreadCount > 0
      /\ Len(threads) \in Nat /\ DOMAIN threads = 1 .. Len(threads)
  BY SlotTypes
<1>2. /\ stage = "start" /\ Constructed(Main, o, Pool)
      /\ threads' = [threads EXCEPT ![slot] = o] /\ slot' = slot + 1
      /\ stopping' = stopping /\ locked' = locked /\ stage' = stage /\ thrs' = thrs /\ failed' = failed
  BY DEF StartedOne
<1>3. In(Main, "wait", o) /\ Main \in Caller
  BY <1>2, ThreadPoolAssumption DEF Constructed
<1>4. Holds(Main, o) /\ Busy(Main, o)
  BY <1>3, InMethod DEF Where
<1>5. o \notin Own
  BY <1>2, <1>4 DEF Holds
<1>6. /\ ThreadTypes' /\ call' \in [Caller -> Calls] /\ Objects' /\ Alone'
      /\ call'[Main] = Out
      /\ \A p \in Object : life[p] \in {"alive", "gone"} => life'[p] = life[p]
      /\ life'[o] = "alive"
      /\ handle' = handle /\ pthread' = pthread /\ At(Main, "wait", o)
      /\ broken' = broken /\ ~broken /\ stray' = stray
  BY <1>2, <1>3, <1>5, ConstructedObjects
<1>7. slot <= ThreadCount /\ slot >= 1 /\ Len(threads) = ThreadCount
  BY <1>2, <1>4 DEF Inv, Stage
<1>8. /\ threads' \in Seq(Object \cup {Null}) /\ Len(threads') = ThreadCount
      /\ DOMAIN threads' = DOMAIN threads /\ threads'[slot] = o /\ slot \in DOMAIN threads
      /\ \A k \in DOMAIN threads : k # slot => threads'[k] = threads[k]
  BY <1>1, <1>2, <1>7 DEF PoolTypes
<1>9. PoolTypes'
  BY <1>1, <1>2, <1>7, <1>8 DEF PoolTypes
<1>10. o # Null
  BY ThreadPoolAssumption
<1>11. Slots'
  <2>1. ASSUME NEW k \in DOMAIN threads'
        PROVE  /\ threads'[k] # Null => threads'[k] \in Object \ Own /\ life'[threads'[k]] \in {"alive", "gone"}
               /\ threads'[k] = Null => failed' \/ (stage' = "start" /\ k >= slot')
    <3>1. CASE k = slot
      BY <3>1, <1>5, <1>6, <1>8, <1>10
    <3>2. CASE k # slot
      <4>1. threads'[k] = threads[k] /\ k \in DOMAIN threads /\ k \in Nat
        BY <3>2, <1>1, <1>8
      <4>2. k >= slot => k >= slot + 1
        BY <3>2, <4>1, <1>1
      <4>3. QED
        BY <4>1, <4>2, <1>2, <1>6 DEF Inv, Slots
    <3>3. QED
      BY <3>1, <3>2
  <2>2. ASSUME NEW k \in DOMAIN threads', k >= slot' PROVE threads'[k] = Null
    <3>1. k \in DOMAIN threads /\ k >= slot /\ k # slot
      BY <2>2, <1>1, <1>2, <1>8
    <3>2. QED
      BY <3>1, <1>2, <1>8 DEF Inv, Slots
  <2>3. Len(threads') \in {0, ThreadCount}
    BY <1>8
  <2>4. QED
    BY <1>2, <1>6, <2>1, <2>2, <2>3 DEF Inv, Slots
<1>12. Stage'
  <2>1. \A p \in Object : ~Busy(Main, p)'
    BY <1>3, <1>6, NowOut
  <2>2. slot' >= 1
    BY <1>1, <1>2
  <2>3. QED
    BY <1>2, <1>8, <2>1, <2>2 DEF Inv, Stage
<1>13. StopJoinsAll'
  <2> SUFFICES ASSUME NEW p \in Object \ Own
               PROVE  /\ pthread'[p] # "detached"
                      /\ pthread'[p] = "joinable" => \E k \in DOMAIN threads' : threads'[k] = p
    BY DEF StopJoinsAll
  <2>1. CASE p = o
    BY <2>1, <1>6, <1>8, Parts
  <2>2. CASE p # o
    <3>1. ~At(Main, "wait", p)
      BY <2>2, <1>6, OneMethod
    <3>2. pthread[p] = "joinable" => \E k \in DOMAIN threads : threads[k] = p
      BY <1>2, <3>1 DEF Inv, StopJoinsAll, At
    <3>3. \A k \in DOMAIN threads : threads[k] = p => k # slot
      <4>1. threads[slot] = Null /\ p # Null
        <5>1. slot >= slot /\ slot \in DOMAIN threads
          BY <1>1, <1>8
        <5>2. \A k \in DOMAIN threads : k >= slot => threads[k] = Null
          BY <1>2 DEF Inv, Slots
        <5>3. QED
          BY <5>1, <5>2, ThreadPoolAssumption
      <4>2. QED
        BY <4>1
    <3>4. QED
      BY <1>6, <1>8, <3>2, <3>3, Parts
  <2>3. QED
    BY <2>1, <2>2
<1>14. BrokenWhy'
  BY <1>6, KeepsBrokenWhy
<1>15. QED
  BY <1>6, <1>9, <1>11, <1>12, <1>13, <1>14, TypePartsNext DEF Inv

LEMMA StartFailsKeeps == ASSUME Inv, NEW o \in Object, StartFails(o) PROVE Inv'
<1>1. /\ PoolTypes /\ slot \in Nat /\ ThreadCount \in Nat
      /\ Len(threads) \in Nat /\ DOMAIN threads = 1 .. Len(threads)
  BY SlotTypes
<1>2. /\ stage = "start" /\ CreateFails(Main, o)
      /\ failed' = TRUE /\ locked' = FALSE /\ stage' = "idle"
      /\ stopping' = stopping /\ threads' = threads /\ slot' = slot /\ thrs' = thrs
  BY DEF StartFails
<1>3. Main \in Caller
  BY ThreadPoolAssumption
<1>4. /\ ThreadTypes' /\ call' \in [Caller -> Calls] /\ Objects' /\ Alone'
      /\ call'[Main] = Out /\ \A d \in Caller : d # Main => call'[d] = call[d]
      /\ \A p \in Object : life[p] \in {"alive", "gone"} => life'[p] = life[p]
      /\ handle' = handle /\ pthread' = pthread /\ At(Main, "create", o) /\ Holds(Main, o)
      /\ broken' = broken /\ ~broken /\ stray' = stray
  BY <1>2, <1>3, CreateFailsObjects
<1>5. PoolTypes'
  BY <1>1, <1>2 DEF PoolTypes
<1>6. Slots'
  BY <1>2, <1>4 DEF Inv, Slots
<1>7. \A p \in Object : ~At(Main, "wait", p)
  BY <1>4, OneMethod
<1>8. Stage'
  BY <1>2 DEF Inv, Stage
<1>9. StopJoinsAll'
  BY <1>2, <1>4, <1>7 DEF Inv, StopJoinsAll, At
<1>10. BrokenWhy'
  BY <1>4 DEF BrokenWhy
<1>11. QED
  BY <1>4, <1>5, <1>6, <1>8, <1>9, <1>10, TypePartsNext DEF Inv

LEMMA StartReturnsKeeps == ASSUME Inv, StartReturns PROVE Inv'
<1>1. /\ PoolTypes /\ slot \in Nat /\ ThreadCount \in Nat
      /\ Len(threads) \in Nat /\ DOMAIN threads = 1 .. Len(threads)
  BY SlotTypes
<1>2. /\ MainIn("start") /\ slot > ThreadCount /\ locked' = FALSE /\ stage' = "idle"
      /\ UNCHANGED <<objects, call>> /\ broken' = broken
      /\ stopping' = stopping /\ threads' = threads /\ slot' = slot /\ thrs' = thrs /\ failed' = failed
  BY DEF StartReturns, threadVars
<1>3. /\ stage = "start" /\ call[Main] = Out /\ broken = FALSE
      /\ \A p \in Object : ~At(Main, "wait", p)
  BY <1>2, MainIdle
<1>4. life' = life /\ handle' = handle /\ pthread' = pthread
  BY <1>2 DEF objects
<1>5. PoolTypes'
  BY <1>1, <1>2 DEF PoolTypes
<1>6. Slots'
  <2>1. Len(threads) = ThreadCount
    BY <1>3 DEF Inv, Stage
  <2>2. \A k \in DOMAIN threads : ~(k >= slot)
    BY <2>1, <1>1, <1>2
  <2>3. QED
    BY <1>2, <1>3, <1>4, <2>2 DEF Inv, Slots
<1>7. Stage'
  BY <1>2, <1>3 DEF Inv, Stage
<1>8. StopJoinsAll'
  BY <1>2, <1>3, <1>4 DEF Inv, StopJoinsAll, At
<1>9. QED
  BY <1>2, <1>3, <1>5, <1>6, <1>7, <1>8, MainOnly

LEMMA StopKeeps == ASSUME Inv, Stop PROVE Inv'
<1>1. PoolTypes
  BY SlotTypes
<1>2. /\ MainIn("idle") /\ stopping' = TRUE /\ stage' = "stop"
      /\ UNCHANGED <<objects, call>> /\ broken' = broken
      /\ locked' = locked /\ threads' = threads /\ slot' = slot /\ thrs' = thrs /\ failed' = failed
  BY DEF Stop, threadVars
<1>3. /\ stage = "idle" /\ call[Main] = Out /\ broken = FALSE
      /\ \A p \in Object : ~At(Main, "wait", p)
  BY <1>2, MainIdle
<1>4. life' = life /\ handle' = handle /\ pthread' = pthread
  BY <1>2 DEF objects
<1>5. PoolTypes'
  BY <1>1, <1>2 DEF PoolTypes
<1>6. Slots'
  BY <1>2, <1>3, <1>4 DEF Inv, Slots
<1>7. Stage'
  BY <1>2 DEF Stage
<1>8. StopJoinsAll'
  BY <1>2, <1>3, <1>4 DEF Inv, StopJoinsAll, At
<1>9. QED
  BY <1>2, <1>3, <1>5, <1>6, <1>7, <1>8, MainOnly

LEMMA StopSwapsKeeps == ASSUME Inv, StopSwaps PROVE Inv'
<1>1. /\ PoolTypes /\ slot \in Nat /\ ThreadCount \in Nat /\ ThreadCount > 0
      /\ Len(threads) \in Nat /\ DOMAIN threads = 1 .. Len(threads)
      /\ Len(<<>>) = 0 /\ DOMAIN <<>> = {}
  BY SlotTypes
<1>2. /\ MainIn("stop") /\ thrs' = threads /\ threads' = <<>> /\ stage' = "join" /\ slot' = 1
      /\ UNCHANGED <<objects, call>> /\ broken' = broken
      /\ stopping' = stopping /\ locked' = locked /\ failed' = failed
  BY DEF StopSwaps, threadVars
<1>3. /\ stage = "stop" /\ call[Main] = Out /\ broken = FALSE
      /\ \A p \in Object : ~At(Main, "wait", p) /\ ~Busy(Main, p)'
  BY <1>2, MainIdle
<1>4. life' = life /\ handle' = handle /\ pthread' = pthread
  BY <1>2 DEF objects
<1>5. slot' \in 0 .. ThreadCount + 1 /\ slot' >= 1
  <2>1. slot' = 1
    BY <1>2
  <2>2. QED
    BY <2>1, <1>1
<1>6. PoolTypes'
  BY <1>1, <1>2, <1>5 DEF PoolTypes
<1>7. Slots'
  <2>1. \A k \in DOMAIN threads : k >= slot'
    BY <1>1, <1>2
  <2>2. \A k \in DOMAIN threads : ~(k < slot')
    BY <1>1, <1>2
  <2>3. QED
    BY <1>1, <1>2, <1>3, <1>4, <2>2 DEF Inv, Slots
<1>8. Stage'
  BY <1>2, <1>3, <1>5 DEF Stage
<1>9. StopJoinsAll'
  <2>1. \A k \in DOMAIN threads : k >= slot'
    BY <1>1, <1>2
  <2>2. QED
    BY <1>2, <1>3, <1>4, <2>1 DEF Inv, StopJoinsAll, At
<1>10. QED
  BY <1>2, <1>3, <1>6, <1>7, <1>8, <1>9, MainOnly

LEMMA StopJoinsKeeps == ASSUME Inv, NEW o \in Object, StopJoins(o) PROVE Inv'
<1>1. /\ stage = "join" /\ slot <= Len(thrs) /\ thrs[slot] = o
      /\ Join(Main, o, Pool) /\ UNCHANGED poolVars
  BY DEF StopJoins, MainIn
<1>2. o \notin Own
  <2>1. /\ slot \in Nat /\ Len(thrs) \in Nat /\ DOMAIN thrs = 1 .. Len(thrs)
    BY SlotTypes
  <2>2. slot >= 1
    BY <1>1 DEF Inv, Stage
  <2>3. slot \in DOMAIN thrs /\ o # Null
    BY <1>1, <2>1, <2>2, ThreadPoolAssumption
  <2>4. QED
    BY <1>1, <2>3 DEF Inv, Slots
<1>3. QED
  BY <1>1, <1>2, JoinKeeps1, ThreadPoolAssumption

LEMMA StopJoinedKeeps == ASSUME Inv, NEW o \in Object, StopJoined(o) PROVE Inv'
<1>1. /\ PoolTypes /\ slot \in Nat /\ ThreadCount \in Nat /\ ThreadCount > 0
      /\ Len(thrs) \in Nat /\ DOMAIN thrs = 1 .. Len(thrs)
  BY SlotTypes
<1>2. /\ stage = "join" /\ JoinReturns(Main, o) /\ slot' = slot + 1
      /\ stopping' = stopping /\ threads' = threads /\ locked' = locked /\ stage' = stage
      /\ thrs' = thrs /\ failed' = failed
  BY DEF StopJoined
<1>3. Main \in Caller
  BY ThreadPoolAssumption
<1>4. /\ ThreadTypes' /\ call' \in [Caller -> Calls] /\ Objects' /\ Alone'
      /\ call'[Main] = Out
      /\ life' = life /\ pthread' = pthread /\ ~handle'[o]
      /\ \A p \in Object : handle'[p] => handle[p]
      /\ At(Main, "joined", o) /\ Holds(Main, o) /\ pthread[o] = "joined"
      /\ broken' = broken /\ ~broken /\ stray' = stray
  BY <1>2, <1>3, JoinReturnsObjects
<1>5. o \notin Own /\ Busy(Main, o)
  BY <1>2, <1>4 DEF Holds, Busy, Joins
<1>6. slot <= Len(thrs) /\ thrs[slot] = o /\ slot >= 1 /\ slot \in DOMAIN thrs
  <2>1. slot <= Len(thrs) /\ thrs[slot] = o /\ slot >= 1
    BY <1>2, <1>5 DEF Inv, Stage
  <2>2. QED
    BY <2>1, <1>1
<1>7. Len(thrs) <= ThreadCount
  BY SlotsUsed
<1>8. PoolTypes'
  <2>1. slot + 1 \in 0 .. ThreadCount + 1
    BY <1>1, <1>6, <1>7
  <2>2. QED
    BY <1>1, <1>2, <2>1 DEF PoolTypes
<1>9. Slots'
  <2>1. ASSUME NEW k \in DOMAIN thrs, k < slot' PROVE thrs[k] # Null /\ ~handle'[thrs[k]]
    <3>1. CASE k = slot
      BY <3>1, <1>4, <1>6, ThreadPoolAssumption
    <3>2. CASE k # slot
      <4>1. k < slot
        BY <3>2, <2>1, <1>1, <1>2
      <4>2. thrs[k] # Null /\ ~handle[thrs[k]] /\ thrs[k] \in Object
        BY <4>1, <1>2 DEF Inv, Slots
      <4>3. QED
        BY <4>2, <1>4
    <3>3. QED
      BY <3>1, <3>2
  <2>2. QED
    BY <1>2, <1>4, <2>1 DEF Inv, Slots
<1>10. Stage'
  <2>1. \A p \in Object : ~Busy(Main, p)'
    BY <1>3, <1>4, NowOut
  <2>2. slot' >= 1
    BY <1>1, <1>2
  <2>3. QED
    BY <1>2, <2>1, <2>2 DEF Inv, Stage
<1>11. StopJoinsAll'
  <2> SUFFICES ASSUME NEW p \in Object \ Own
               PROVE  /\ pthread'[p] # "detached"
                      /\ pthread'[p] = "joinable" =>
                           \/ \E k \in DOMAIN threads' : threads'[k] = p
                           \/ stage' = "join" /\ \E k \in DOMAIN thrs' : k >= slot' /\ thrs'[k] = p
    BY DEF StopJoinsAll
  <2>1. ~At(Main, "wait", p)
    BY <1>4, OneMethod
  <2>2. pthread[p] # "detached" /\ (pthread[p] = "joinable" =>
          \/ \E k \in DOMAIN threads : threads[k] = p
          \/ \E k \in DOMAIN thrs : k >= slot /\ thrs[k] = p)
    BY <2>1 DEF Inv, StopJoinsAll, At
  <2>3. \A k \in DOMAIN thrs : k >= slot /\ k # slot => k >= slot'
    BY <1>1, <1>2
  <2>4. pthread[p] = "joinable" => p # o
    BY <1>4
  <2>5. QED
    BY <1>2, <1>4, <1>6, <2>2, <2>3, <2>4
<1>12. BrokenWhy'
  BY <1>4 DEF BrokenWhy
<1>13. QED
  BY <1>4, <1>8, <1>9, <1>10, <1>11, <1>12, TypePartsNext DEF Inv

LEMMA StopJoinsNullKeeps == ASSUME Inv, StopJoinsNull PROVE Inv'
<1>1. /\ PoolTypes /\ slot \in Nat /\ Len(thrs) \in Nat /\ DOMAIN thrs = 1 .. Len(thrs)
  BY SlotTypes
<1>2. /\ stage = "join" /\ slot <= Len(thrs) /\ thrs[slot] = Null /\ broken' = TRUE
      /\ UNCHANGED <<objects, call, poolVars>>
  BY DEF StopJoinsNull, MainIn
<1>3. /\ life' = life /\ refs' = refs /\ handle' = handle /\ hasId' = hasId /\ hasCb' = hasCb
      /\ sem' = sem /\ body' = body /\ pthread' = pthread /\ stray' = stray /\ call' = call
      /\ stopping' = stopping /\ threads' = threads /\ locked' = locked /\ stage' = stage
      /\ slot' = slot /\ thrs' = thrs /\ failed' = failed
  BY <1>2 DEF objects, poolVars
<1>4. Objects' /\ Alone'
  BY <1>3, SameObjects
<1>5. ThreadTypes' /\ call' \in [Caller -> Calls] /\ PoolTypes'
  BY <1>1, <1>2, <1>3, Parts DEF ThreadTypes, PoolTypes
<1>6. Slots'
  BY <1>3 DEF Inv, Slots
<1>7. Stage'
  BY <1>3 DEF Inv, Stage, Busy, Makes, Joins, At
<1>8. StopJoinsAll'
  BY <1>3 DEF Inv, StopJoinsAll
<1>9. BrokenWhy'
  <2>1. slot >= 1
    BY <1>2 DEF Inv, Stage
  <2>2. slot \in DOMAIN thrs
    BY <2>1, <1>1, <1>2
  <2>3. failed
    BY <2>2, <1>2 DEF Inv, Slots
  <2>4. QED
    BY <2>3, <1>2, <1>3 DEF BrokenWhy
<1>10. QED
  BY <1>4, <1>5, <1>6, <1>7, <1>8, <1>9, TypePartsNext DEF Inv

LEMMA StopJoinedAllKeeps == ASSUME Inv, StopJoinedAll PROVE Inv'
<1>1. /\ PoolTypes /\ ThreadCount \in Nat /\ slot \in Nat
      /\ Len(thrs) \in Nat /\ DOMAIN thrs = 1 .. Len(thrs)
  BY SlotTypes
<1>2. /\ MainIn("join") /\ slot > Len(thrs) /\ stage' = "release" /\ slot' = 1
      /\ UNCHANGED <<objects, call>> /\ broken' = broken
      /\ stopping' = stopping /\ threads' = threads /\ locked' = locked /\ thrs' = thrs /\ failed' = failed
  BY DEF StopJoinedAll, threadVars
<1>3. /\ stage = "join" /\ call[Main] = Out /\ broken = FALSE
      /\ \A p \in Object : ~At(Main, "wait", p)
  BY <1>2, MainIdle
<1>4. life' = life /\ handle' = handle /\ pthread' = pthread
  BY <1>2 DEF objects
<1>5. slot' \in 0 .. ThreadCount + 1 /\ slot' >= 1
  <2>1. slot' = 1
    BY <1>2
  <2>2. QED
    BY <2>1, <1>1
<1>6. PoolTypes'
  BY <1>1, <1>2, <1>5 DEF PoolTypes
<1>7. \A k \in DOMAIN thrs : k < slot
  BY <1>1, <1>2
<1>8. Slots'
  BY <1>2, <1>3, <1>4, <1>7 DEF Inv, Slots
<1>9. Stage'
  BY <1>2, <1>3, <1>5 DEF Inv, Stage
<1>10. StopJoinsAll'
  <2>1. \A k \in DOMAIN thrs : ~(k >= slot)
    BY <1>1, <1>2
  <2>2. QED
    BY <1>2, <1>3, <1>4, <2>1 DEF Inv, StopJoinsAll, At
<1>11. QED
  BY <1>2, <1>3, <1>6, <1>8, <1>9, <1>10, MainOnly

LEMMA StopReleasesKeeps == ASSUME Inv, NEW o \in Object, StopReleases(o) PROVE Inv'
<1>1. /\ PoolTypes /\ slot \in Nat /\ ThreadCount \in Nat /\ ThreadCount > 0
      /\ Len(thrs) \in Nat /\ DOMAIN thrs = 1 .. Len(thrs)
  BY SlotTypes
<1>2. /\ MainIn("release") /\ slot <= Len(thrs) /\ thrs[slot] = o
      /\ Released(o, Pool) /\ slot' = slot + 1
      /\ UNCHANGED <<handle, hasId, hasCb, sem, body>> /\ call' = call /\ stray' = stray
      /\ stopping' = stopping /\ threads' = threads /\ locked' = locked /\ stage' = stage
      /\ thrs' = thrs /\ failed' = failed
  BY DEF StopReleases
<1>3. /\ stage = "release" /\ broken = FALSE
      /\ \A p \in Object : ~Busy(Main, p)' /\ ~At(Main, "wait", p)
  BY <1>2, MainIdle
<1>4. slot >= 1 /\ Len(thrs) <= ThreadCount
  BY <1>3, SlotsUsed DEF Inv, Stage
<1>5. slot \in DOMAIN thrs /\ o # Null
  BY <1>1, <1>2, <1>4, ThreadPoolAssumption
<1>6. o \notin Own /\ life[o] \in {"alive", "gone"} /\ ~handle[o]
  BY <1>2, <1>3, <1>5 DEF Inv, Slots
<1>7. \A d \in Caller : ~Joins(d, o)
  <2>1. ASSUME NEW d \in Caller, Joins(d, o) PROVE FALSE
    <3>1. Busy(d, o)
      BY <2>1 DEF Busy
    <3>2. Method(d, o)
      BY <3>1, Parts DEF ObjectOK
    <3>3. QED
      BY <2>1, <3>2, <1>6 DEF Joins, Method
  <2>2. QED
    BY <2>1
<1>8. ThreadTypes /\ ObjectOK(o) /\ Phase(o) /\ call \in [Caller -> Calls]
  BY Parts
<1>9. /\ ThreadTypes' /\ Objects' /\ Alone' /\ broken' = FALSE
      /\ \A p \in Object : life[p] \in {"alive", "gone"} => life'[p] \in {"alive", "gone"}
      /\ \A p \in Object : pthread'[p] = pthread[p]
  <2>1. CASE Pool \in refs[o]
    BY <2>1, <1>2, <1>3, <1>6, <1>7, ReleasedObjects
  <2>2. CASE Pool \notin refs[o]
    <3>1. refs[o] = {}
      BY <2>2, <1>6, <1>8 DEF ObjectOK
    <3>2. life[o] = "gone"
      BY <3>1, <1>6, <1>8 DEF Phase
    <3>3. /\ refs' = [refs EXCEPT ![o] = refs[o] \ {Pool}]
          /\ life' = [life EXCEPT ![o] = IF refs'[o] = {} THEN "gone" ELSE life[o]]
          /\ pthread' = [pthread EXCEPT ![o] = IF refs'[o] = {} /\ handle[o] THEN "detached" ELSE pthread[o]]
          /\ broken' = (refs'[o] = {} /\ handle[o] /\ pthread[o] # "joinable")
      BY <1>2 DEF Released
    <3>4. refs' = refs
      BY <3>1, <3>3, <1>8 DEF ThreadTypes
    <3>5. life' = life /\ pthread' = pthread /\ broken' = FALSE
      BY <3>2, <3>3, <1>6, <1>8 DEF ThreadTypes
    <3>6. Objects' /\ Alone'
      BY <3>4, <3>5, <1>2, SameObjects
    <3>7. ThreadTypes'
      BY <3>4, <3>5, <1>2, <1>8 DEF ThreadTypes
    <3>8. QED
      BY <3>5, <3>6, <3>7
  <2>3. QED
    BY <2>1, <2>2
<1>10. PoolTypes'
  <2>1. slot + 1 \in 0 .. ThreadCount + 1
    BY <1>1, <1>2, <1>4
  <2>2. QED
    BY <1>1, <1>2, <2>1 DEF PoolTypes
<1>11. Slots'
  BY <1>2, <1>3, <1>9 DEF Inv, Slots
<1>12. Stage'
  <2>1. slot' >= 1
    BY <1>1, <1>2
  <2>2. QED
    BY <1>2, <1>3, <2>1 DEF Inv, Stage
<1>13. StopJoinsAll'
  BY <1>2, <1>3, <1>9 DEF Inv, StopJoinsAll, At
<1>14. BrokenWhy'
  BY <1>9 DEF BrokenWhy
<1>15. QED
  BY <1>2, <1>8, <1>9, <1>10, <1>11, <1>12, <1>13, <1>14, TypePartsNext DEF Inv

LEMMA StopReturnsKeeps == ASSUME Inv, StopReturns PROVE Inv'
<1>1. PoolTypes /\ Len(<<>>) = 0 /\ DOMAIN <<>> = {}
  BY SlotTypes
<1>2. /\ MainIn("release") /\ stage' = "idle" /\ thrs' = <<>>
      /\ UNCHANGED <<objects, call>> /\ broken' = broken
      /\ stopping' = stopping /\ threads' = threads /\ locked' = locked /\ slot' = slot /\ failed' = failed
  BY DEF StopReturns, threadVars
<1>3. /\ stage = "release" /\ call[Main] = Out /\ broken = FALSE
      /\ \A p \in Object : ~At(Main, "wait", p)
  BY <1>2, MainIdle
<1>4. life' = life /\ handle' = handle /\ pthread' = pthread
  BY <1>2 DEF objects
<1>5. PoolTypes'
  BY <1>1, <1>2 DEF PoolTypes
<1>6. Slots'
  BY <1>1, <1>2, <1>3, <1>4 DEF Inv, Slots
<1>7. Stage'
  BY <1>2, <1>3 DEF Inv, Stage
<1>8. StopJoinsAll'
  BY <1>2, <1>3, <1>4 DEF Inv, StopJoinsAll, At
<1>9. QED
  BY <1>2, <1>3, <1>5, <1>6, <1>7, <1>8, MainOnly

-----------------------------------------------------------------------------
(* All of it.                                                              *)

LEMMA Begins == Init => Inv
<1> SUFFICES ASSUME Init PROVE Inv
  OBVIOUS
<1>1. /\ life = [o \in Object |-> "unborn"] /\ refs = [o \in Object |-> {}]
      /\ handle = [o \in Object |-> FALSE]
      /\ hasId = [o \in Object |-> FALSE]
      /\ body = [o \in Object |-> "none"] /\ pthread = [o \in Object |-> "none"]
      /\ sem = [o \in Object |-> 0]
      /\ call = [c \in Caller |-> Out] /\ broken = FALSE /\ stray = {}
      /\ stopping = TRUE /\ threads = <<>> /\ locked = FALSE
      /\ stage = "idle" /\ slot = 0 /\ thrs = <<>> /\ failed = FALSE
  BY DEF Init, ThreadInit
<1>2. hasCb \in [Object -> BOOLEAN]
  BY DEF Init, ThreadInit
<1>3. Len(<<>>) = 0 /\ DOMAIN <<>> = {}
  OBVIOUS
<1>4. \A c \in Caller, o \in Object, w \in Where : ~At(c, w, o)
  BY <1>1 DEF At, Out
<1>5. \A c \in Caller, o \in Object : ~Busy(c, o)
  BY <1>4 DEF Busy, Makes, Joins, Where
<1>6. TypeOK
  <2>1. ThreadTypes
    BY <1>1, <1>2 DEF ThreadTypes
  <2>2. call \in [Caller -> Calls]
    BY <1>1 DEF Calls
  <2>3. 0 \in 0 .. ThreadCount + 1
    BY ThreadPoolAssumption
  <2>4. <<>> \in Seq(Object \cup {Null})
    OBVIOUS
  <2>5. PoolTypes
    BY <1>1, <2>3, <2>4 DEF PoolTypes
  <2>6. QED
    BY <2>1, <2>2, <2>5, TypeParts
<1>7. Objects
  BY <1>1, <1>5 DEF Objects, ObjectOK, Phase, Told
<1>8. Alone
  BY <1>5 DEF Alone
<1>9. Slots
  BY <1>1, <1>3 DEF Slots
<1>10. Stage
  BY <1>1 DEF Stage
<1>11. StopJoinsAll
  BY <1>1 DEF StopJoinsAll
<1>12. QED
  BY <1>1, <1>6, <1>7, <1>8, <1>9, <1>10, <1>11 DEF Inv, BrokenWhy

LEMMA PoolStep ==
  ASSUME Inv, Start \/ Stop \/ PoolGoes
  PROVE  Inv'
<1>1. CASE Start
  BY <1>1, StartKeeps
<1>2. CASE Stop
  BY <1>2, StopKeeps
<1>3. CASE StartReturns
  BY <1>3, StartReturnsKeeps
<1>4. CASE StopSwaps
  BY <1>4, StopSwapsKeeps
<1>5. CASE StopJoinsNull
  BY <1>5, StopJoinsNullKeeps
<1>6. CASE StopJoinedAll
  BY <1>6, StopJoinedAllKeeps
<1>7. CASE StopReturns
  BY <1>7, StopReturnsKeeps
<1>8. ASSUME NEW o \in Object,
             StartOne(o) \/ StartedOne(o) \/ StartFails(o) \/ StopJoins(o) \/ StopJoined(o) \/ StopReleases(o)
      PROVE  Inv'
  BY <1>8, StartOneKeeps, StartedOneKeeps, StartFailsKeeps, StopJoinsKeeps, StopJoinedKeeps,
     StopReleasesKeeps
<1>9. QED
  BY <1>1, <1>2, <1>3, <1>4, <1>5, <1>6, <1>7, <1>8 DEF PoolGoes

LEMMA ThreadStep ==
  ASSUME Inv, NEW o \in Object, ThreadGoes(o) \/ WorkerOver(o)
  PROVE  Inv'
<1>1. UNCHANGED poolVars
  BY DEF ThreadGoes, WorkerOver
<1>2. CASE Run(o) \/ BodyOver(o)
  <2>1. BodySteps(o) /\ (SetName(o) => o \in Own)
    <3>1. body[o] # body'[o]
      BY <1>2, Parts DEF ThreadTypes, Run, SetId, Swap, Notify, BodyOver, Body
    <3>2. ~SetName(o)
      BY <3>1 DEF SetName, objects
    <3>3. QED
      BY <1>2, <3>2 DEF BodySteps
  <2>2. QED
    BY <1>1, <2>1, BodyKeeps
<1>3. ASSUME NEW c \in Caller, Create(c, o) \/ Joined(c, o) PROVE Inv'
  BY <1>1, <1>3, CreateKeeps, JoinedKeeps
<1>4. QED
  BY <1>2, <1>3 DEF ThreadGoes, WorkerOver

LEMMA OwnStep ==
  ASSUME Inv, NEW c \in Caller, NEW o \in Own, OwnUse(c, o)
  PROVE  Inv'
<1>1. /\ o \in Object /\ UNCHANGED poolVars /\ (c = Main => stage = "idle")
  BY ThreadPoolAssumption DEF OwnUse
<1>2. CASE Construct(c, o)
  BY <1>1, <1>2, ConstructKeeps
<1>3. CASE CreateFails(c, o)
  BY <1>1, <1>3, CreateFailsKeeps
<1>4. CASE Constructed(c, o, c)
  BY <1>1, <1>4, ConstructedKeeps
<1>5. CASE Join(c, o, c)
  BY <1>1, <1>5, JoinKeeps1
<1>6. CASE JoinAgain(c, o, c)
  BY <1>1, <1>6, JoinAgainKeeps
<1>7. CASE JoinReturns(c, o)
  BY <1>1, <1>7, JoinReturnsKeeps
<1>8. CASE \E d \in Caller : Share(c, d, o)
  BY <1>1, <1>8, ShareKeeps
<1>9. CASE Drop(c, o)
  BY <1>1, <1>9, DropKeeps
<1>10. QED
  BY <1>2, <1>3, <1>4, <1>5, <1>6, <1>7, <1>8, <1>9 DEF OwnUse

LEMMA NextKeeps ==
  ASSUME Inv, [Next]_vars
  PROVE  Inv'
<1>1. CASE Start \/ Stop \/ PoolGoes
  BY <1>1, PoolStep
<1>2. CASE \E o \in Object : ThreadGoes(o) \/ WorkerOver(o)
  BY <1>2, ThreadStep
<1>3. CASE \E c \in Caller, o \in Own : OwnUse(c, o)
  BY <1>3, OwnStep
<1>4. CASE \E o \in Own : SetName(o) /\ UNCHANGED poolVars
  <2>1. PICK o \in Own : SetName(o) /\ UNCHANGED poolVars
    BY <1>4
  <2>2. o \in Object /\ BodySteps(o)
    BY <2>1, ThreadPoolAssumption DEF BodySteps
  <2>3. QED
    BY <2>1, <2>2, BodyKeeps
<1>5. CASE UNCHANGED vars
  <2>1. /\ UNCHANGED poolVars /\ broken' = broken /\ call' = call /\ stray' = stray
        /\ life' = life /\ refs' = refs /\ handle' = handle /\ hasId' = hasId /\ hasCb' = hasCb
        /\ sem' = sem /\ body' = body /\ pthread' = pthread
    BY <1>5 DEF vars, threadVars, objects
  <2>2. /\ stopping' = stopping /\ threads' = threads /\ locked' = locked /\ stage' = stage
        /\ slot' = slot /\ thrs' = thrs /\ failed' = failed
    BY <2>1 DEF poolVars
  <2>3. Objects' /\ Alone'
    BY <2>1, <2>2, SameObjects
  <2>4. TypeOK'
    BY <2>1, <2>2 DEF Inv, TypeOK
  <2>5. Slots'
    BY <2>1, <2>2 DEF Inv, Slots
  <2>6. Stage'
    BY <2>1, <2>2 DEF Inv, Stage, Busy, Makes, Joins, At
  <2>7. StopJoinsAll' /\ BrokenWhy'
    BY <2>1, <2>2 DEF Inv, StopJoinsAll, BrokenWhy
  <2>8. QED
    BY <2>3, <2>4, <2>5, <2>6, <2>7 DEF Inv
<1>6. QED
  BY <1>1, <1>2, <1>3, <1>4, <1>5 DEF Next

(* What every other theorem rests on: objects, callers in their methods    *)
(* and the slots of the pool agree at every step (thread.cpp:37-109,       *)
(* scheduler.cpp:55-69 and 123-131).                                       *)
THEOREM PoolInvariant == Spec => []Inv
<1>1. Inv /\ [Next]_vars => Inv'
  BY NextKeeps
<1>2. QED
  BY <1>1, Begins, PTL DEF Spec

(* The thread uses the object only while its constructor waits for it, so  *)
(* the object may go while the thread runs on (thread.cpp:52, 94-109).     *)
THEOREM PoolHandsOver == Spec => []HandedOver
<1>1. Inv => HandedOver
  <2> SUFFICES ASSUME Inv, NEW o \in Object
               PROVE  /\ body[o] \in {"begin", "id", "moved"} => life[o] = "constructing"
                      /\ life[o] \in {"alive", "gone"} => hasId[o] /\ ~hasCb[o] /\ body[o] \in {"run", "over"}
    BY DEF HandedOver
  <2>1. QED
    BY Parts DEF Phase
<1>2. QED
  BY <1>1, PoolInvariant, PTL

(* The system learns once what becomes of each thread, and stop() joins    *)
(* each one that start() has made (thread.cpp:58-80, scheduler.cpp:127).   *)
THEOREM PoolReleasesOnce == Spec => []ReleasedOnce
<1>1. Inv => ReleasedOnce
  <2> SUFFICES ASSUME Inv PROVE ToldOnce
    BY DEF ReleasedOnce, Inv
  <2> SUFFICES ASSUME NEW o \in Object, ~broken
               PROVE  /\ life[o] = "gone" => pthread[o] \in {"joined", "detached"}
                      /\ life[o] = "alive" /\ handle[o] => pthread[o] = "joinable" \/ Joining(o) # {}
                      /\ life[o] = "alive" /\ ~handle[o] => pthread[o] = "joined"
    BY DEF ToldOnce
  <2>1. Told(o)
    BY Parts
  <2>2. ASSUME NEW c \in Caller, At(c, "joined", o) PROVE Joining(o) # {}
    <3>1. call[c] \in [at : {"join", "joined"}, obj : {o}]
      BY <2>2 DEF At
    <3>2. c \in Joining(o)
      BY <3>1 DEF Joining
    <3>3. QED
      BY <3>2
  <2>3. QED
    BY <2>1, <2>2 DEF Told
<1>2. QED
  BY <1>1, PoolInvariant, PTL

(* Nothing breaks the program but two join() of one thread, a callback     *)
(* that outlives its object, and stop() after a start() that threw         *)
(* (thread.cpp:28, 58-80, scheduler.cpp:62, 128).                          *)
THEOREM PoolBrokenWhy == Spec => []BrokenWhy
<1>1. Inv => BrokenWhy
  BY DEF Inv
<1>2. QED
  BY <1>1, PoolInvariant, PTL
=============================================================================

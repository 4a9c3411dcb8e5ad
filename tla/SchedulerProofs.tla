-------------------------- MODULE SchedulerProofs --------------------------
(***************************************************************************)
(* Theorems about Scheduler, for every set of threads, fibers and          *)
(* callbacks and every bound.                                              *)
(***************************************************************************)
EXTENDS SchedulerInvariant, SequenceTheorems, FiniteSetTheorems, TLAPS
LOCAL INSTANCE SequencesExt

Entry == [task : Task, thread : Thread \cup {AnyThread}]

-----------------------------------------------------------------------------
(* Facts about the list of tasks. *)

LEMMA RemoveAtFacts ==
  ASSUME NEW S, NEW q \in Seq(S), NEW i \in DOMAIN q
  PROVE  /\ RemoveAt(q, i) \in Seq(S)
         /\ Len(RemoveAt(q, i)) = Len(q) - 1
         /\ \A j \in 1 .. Len(q) - 1 :
              RemoveAt(q, i)[j] = IF j < i THEN q[j] ELSE q[j + 1]
<1> DEFINE a == SubSeq(q, 1, i - 1)
           b == SubSeq(q, i + 1, Len(q))
<1>0. Len(q) \in Nat /\ i \in 1 .. Len(q)
  OBVIOUS
<1>1. a \in Seq(S) /\ Len(a) = i - 1 /\ \A j \in 1 .. i - 1 : a[j] = q[j]
  BY <1>0
<1>2. b \in Seq(S) /\ Len(b) = Len(q) - i /\ \A j \in 1 .. Len(q) - i : b[j] = q[i + j]
  BY <1>0
<1>3. RemoveAt(q, i) = a \o b
  BY DEF RemoveAt
<1> HIDE DEF a, b
<1>4. /\ a \o b \in Seq(S)
      /\ Len(a \o b) = Len(q) - 1
      /\ \A j \in 1 .. Len(q) - 1 : (a \o b)[j] = IF j <= i - 1 THEN a[j] ELSE b[j - (i - 1)]
  BY <1>0, <1>1, <1>2, ConcatProperties
<1>5. ASSUME NEW j \in 1 .. Len(q) - 1
      PROVE  (a \o b)[j] = IF j < i THEN q[j] ELSE q[j + 1]
  <2>1. CASE j <= i - 1
    BY <1>0, <1>1, <1>4, <2>1
  <2>2. CASE ~(j <= i - 1)
    <3>1. j - (i - 1) \in 1 .. Len(q) - i /\ i + (j - (i - 1)) = j + 1
      BY <1>0, <2>2
    <3>2. QED BY <1>0, <1>2, <1>4, <2>2, <3>1
  <2>3. QED BY <2>1, <2>2
<1>6. QED BY <1>3, <1>4, <1>5

LEMMA TasksAppend ==
  ASSUME NEW q \in Seq(Entry), NEW e \in Entry
  PROVE  /\ Append(q, e) \in Seq(Entry)
         /\ Tasks(Append(q, e)) = Tasks(q) \cup {e.task}
         /\ Distinct(q) /\ e.task \notin Tasks(q) => Distinct(Append(q, e))
<1> DEFINE r == Append(q, e)
<1>1. /\ r \in Seq(Entry) /\ Len(r) = Len(q) + 1
      /\ DOMAIN r = 1 .. Len(q) + 1 /\ DOMAIN q = 1 .. Len(q)
      /\ \A i \in 1 .. Len(q) : r[i] = q[i]
      /\ r[Len(q) + 1] = e /\ Len(q) \in Nat
  OBVIOUS
<1> HIDE DEF r
<1>2. Tasks(r) = Tasks(q) \cup {e.task}
  <2>1. \A i \in DOMAIN r : i \in DOMAIN q \/ i = Len(q) + 1
    BY <1>1
  <2>2. ASSUME NEW x \in Tasks(r) PROVE x \in Tasks(q) \cup {e.task}
    BY <1>1, <2>1 DEF Tasks
  <2>3. ASSUME NEW x \in Tasks(q) \cup {e.task} PROVE x \in Tasks(r)
    BY <1>1 DEF Tasks
  <2>4. QED BY <2>2, <2>3
<1>3. ASSUME Distinct(q), e.task \notin Tasks(q) PROVE Distinct(r)
  BY <1>1, <1>3 DEF Distinct, Tasks
<1>4. QED BY <1>1, <1>2, <1>3 DEF r

LEMMA TasksRemove ==
  ASSUME NEW q \in Seq(Entry), NEW i \in DOMAIN q
  PROVE  /\ RemoveAt(q, i) \in Seq(Entry)
         /\ Tasks(RemoveAt(q, i)) \subseteq Tasks(q)
         /\ q[i].task \in Tasks(q)
         /\ Distinct(q) => /\ Distinct(RemoveAt(q, i))
                           /\ q[i].task \notin Tasks(RemoveAt(q, i))
                           /\ Tasks(q) = Tasks(RemoveAt(q, i)) \cup {q[i].task}
<1> DEFINE r == RemoveAt(q, i)
           old(j) == IF j < i THEN j ELSE j + 1
<1>1. /\ r \in Seq(Entry) /\ DOMAIN r = 1 .. Len(q) - 1 /\ DOMAIN q = 1 .. Len(q)
      /\ Len(q) \in Nat
      /\ \A j \in DOMAIN r : r[j] = IF j < i THEN q[j] ELSE q[j + 1]
  <2>1. /\ r \in Seq(Entry) /\ Len(r) = Len(q) - 1
        /\ \A j \in 1 .. Len(q) - 1 : r[j] = IF j < i THEN q[j] ELSE q[j + 1]
    BY RemoveAtFacts
  <2> HIDE DEF r
  <2>2. QED BY <2>1
<1> HIDE DEF r
<1>2. \A j \in DOMAIN r : old(j) \in DOMAIN q /\ old(j) # i /\ r[j] = q[old(j)]
  BY <1>1
<1>3. \A j, k \in DOMAIN r : old(j) = old(k) => j = k
  BY <1>1
<1>4. \A k \in DOMAIN q : k # i => \E j \in DOMAIN r : old(j) = k
  <2> SUFFICES ASSUME NEW k \in DOMAIN q, k # i PROVE \E j \in DOMAIN r : old(j) = k
    OBVIOUS
  <2>1. CASE k < i
    <3>1. k \in DOMAIN r BY <1>1, <2>1
    <3>2. QED BY <2>1, <3>1
  <2>2. CASE k > i
    <3>1. k - 1 \in DOMAIN r /\ old(k - 1) = k BY <1>1, <2>2
    <3>2. QED BY <3>1
  <2>3. QED BY <1>1, <2>1, <2>2
<1> HIDE DEF old
<1>5. Tasks(r) \subseteq Tasks(q) /\ q[i].task \in Tasks(q)
  BY <1>2 DEF Tasks
<1>6. ASSUME Distinct(q)
      PROVE  /\ Distinct(r) /\ q[i].task \notin Tasks(r)
             /\ Tasks(q) = Tasks(r) \cup {q[i].task}
  <2>1. Distinct(r)
    BY <1>2, <1>3, <1>6 DEF Distinct
  <2>2. q[i].task \notin Tasks(r)
    BY <1>2, <1>6 DEF Distinct, Tasks
  <2>3. Tasks(q) \subseteq Tasks(r) \cup {q[i].task}
    <3> SUFFICES ASSUME NEW k \in DOMAIN q PROVE q[k].task \in Tasks(r) \cup {q[i].task}
      BY DEF Tasks
    <3>1. CASE k = i BY <3>1
    <3>2. CASE k # i
      <4>1. PICK j \in DOMAIN r : old(j) = k BY <1>4, <3>2
      <4>2. r[j].task = q[k].task BY <1>2, <4>1
      <4>3. QED BY <4>2 DEF Tasks
    <3>3. QED BY <3>1, <3>2
  <2>4. QED BY <1>5, <2>1, <2>2, <2>3
<1>7. QED BY <1>1, <1>5, <1>6 DEF r

LEMMA TasksTwo ==
  ASSUME NEW q \in Seq(Entry), NEW d \in Entry, NEW e \in Entry
  PROVE  q \o <<d, e>> = Append(Append(q, d), e)
OBVIOUS

-----------------------------------------------------------------------------
(* Ownership is inductive. *)

Inv == TypeOK /\ Ownership

USE ConstantsAssumption
DEF Set, Runnable, MayReset, Requeue, Releases, At, On, InJob, Thread, Fiber, Job, Task, Dead, InBody, Working, Fresh, Queued, Held,
    queueVars, controlVars, fiberVars, localVars, historyVars

LEMMA Pushed ==
  ASSUME TypeOK, NEW x \in Task, NEW p \in Thread \cup {AnyThread}, Push(x, p)
  PROVE  /\ Tasks(fibers') = Tasks(fibers) \cup {x}
         /\ QueueDistinct /\ x \notin Tasks(fibers) => QueueDistinct'
<1>1. fibers \in Seq(Entry) /\ [task |-> x, thread |-> p] \in Entry
  BY DEF TypeOK, Entry
<1>2. QED BY <1>1, TasksAppend DEF Push, QueueDistinct

LEMMA Removed ==
  ASSUME TypeOK, QueueDistinct, NEW i \in DOMAIN fibers, fibers' = RemoveAt(fibers, i)
  PROVE  /\ QueueDistinct'
         /\ fibers[i].task \in Task
         /\ fibers[i].task \notin Tasks(fibers')
         /\ Tasks(fibers) = Tasks(fibers') \cup {fibers[i].task}
<1>1. fibers \in Seq(Entry)
  BY DEF TypeOK, Entry
<1>2. fibers[i] \in Entry
  BY <1>1
<1>3. QED BY <1>1, <1>2, TasksRemove DEF QueueDistinct, Entry

LEMMA OwnTake ==
  ASSUME Inv, NEW t \in Thread, Take(t)
  PROVE  Ownership'
<1>0. PICK i \in DOMAIN fibers :
        /\ Eligible(t, fibers[i]) /\ fibers' = RemoveAt(fibers, i)
        /\ ft' = [ft EXCEPT ![t] = fibers[i].task]
  BY DEF Take
<1>1. /\ fibers[i].task \in Task /\ fibers[i].task \notin Tasks(fibers')
      /\ Tasks(fibers) = Tasks(fibers') \cup {fibers[i].task} /\ QueueDistinct'
  BY <1>0, Removed DEF Inv, Ownership
<1>2. HoldsTask'
  BY <1>0, <1>1 DEF Inv, TypeOK, Ownership, Take, Eligible, HoldsTask, Locals, CbFiberReady
<1>3. HolderState'
  BY <1>0, <1>1 DEF Inv, TypeOK, Ownership, Take, Eligible, HoldsTask, HolderState, HolderUnique,
         ArmedAlone, NoWaker, PoolFresh, HolderNotQueued, CbFiberReady, Locals
<1>4. HolderUnique'
  BY <1>0, <1>1 DEF Inv, TypeOK, Ownership, Take, Eligible, HoldsTask, HolderState, HolderUnique,
         HolderNotQueued, PoolFresh, PoolDead, CbFiberReady, WaitingCallbacks
<1>5. HolderNotQueued'
  BY <1>0, <1>1 DEF Inv, TypeOK, Ownership, Take, Eligible, HoldsTask, HolderState, HolderUnique,
         HolderNotQueued, ArmedAlone, PoolFresh, LiveJobs, WaitingCallbacks, JobsPosted,
         CbFiberReady, Locals
<1>6. ArmedAlone'
  BY <1>0, <1>1 DEF Inv, TypeOK, Ownership, Take, Eligible, HoldsTask, HolderState, HolderUnique,
         HolderNotQueued, ArmedAlone, NoWaker, PoolFresh, LiveJobs, Locals, CbFiberReady
<1>7. PoolFresh'
  BY <1>0, <1>1 DEF Inv, TypeOK, Ownership, Take, Eligible, HoldsTask, HolderState, HolderUnique,
         HolderNotQueued, ArmedAlone, PoolFresh, PoolDead, CbFiberReady, Bindings
<1>8. PoolDead'
  BY <1>0, <1>1 DEF Inv, TypeOK, Ownership, Take, Eligible, HoldsTask, HolderState, HolderNotQueued,
         ArmedAlone, NoWaker, PoolDead, PoolFresh
<1>9. CbFiberReady'
  BY <1>0, <1>1 DEF Inv, TypeOK, Ownership, Take, Eligible, HoldsTask, HolderState, HolderUnique,
         PoolFresh, CbFiberReady, Locals
<1>10. LiveJobs'
  BY <1>0, <1>1 DEF Inv, TypeOK, Ownership, Take, Eligible, HoldsTask, HolderState, HolderNotQueued,
         ArmedAlone, PoolFresh, CbFiberReady, Bindings, LiveJobs, WaitingCallbacks,
         JobsPosted, Locals
<1>11. WaitingCallbacks'
  BY <1>0, <1>1 DEF Inv, TypeOK, Ownership, Take, Eligible, HoldsTask, HolderState, HolderUnique,
         PoolFresh, CbFiberReady, Bindings, LiveJobs, WaitingCallbacks, JobsPosted, Locals
<1>12. Locals'
  BY <1>0, <1>1 DEF Inv, TypeOK, Ownership, Take, Eligible, HoldsTask, Locals
<1>13. NoWaker' /\ Bindings' /\ JobsPosted' /\ RootOnce'
  BY DEF Inv, Ownership, Take, Eligible, NoWaker, Bindings, JobsPosted, RootOnce
<1>14. QED BY <1>1, <1>2, <1>3, <1>4, <1>5, <1>6, <1>7, <1>8, <1>9, <1>10, <1>11, <1>12, <1>13 DEF Ownership

LEMMA OwnFindNothing ==
  ASSUME Inv, NEW t \in Thread, FindNothing(t)
  PROVE  Ownership'
<1>1. HoldsTask'
  BY DEF Inv, TypeOK, Ownership, FindNothing, HoldsTask, Locals, CbFiberReady
<1>2. HolderState'
  BY DEF Inv, TypeOK, Ownership, FindNothing, HoldsTask, HolderState, HolderUnique,
         ArmedAlone, NoWaker, PoolFresh, HolderNotQueued, CbFiberReady, Locals
<1>3. HolderNotQueued'
  BY DEF Inv, TypeOK, Ownership, FindNothing, HoldsTask, HolderState, HolderUnique,
         HolderNotQueued, ArmedAlone, PoolFresh, LiveJobs, WaitingCallbacks, JobsPosted,
         CbFiberReady, Locals
<1>4. ArmedAlone'
  BY DEF Inv, TypeOK, Ownership, FindNothing, HoldsTask, HolderState, HolderUnique,
         HolderNotQueued, ArmedAlone, NoWaker, PoolFresh, LiveJobs, Locals, CbFiberReady
<1>5. CbFiberReady'
  BY DEF Inv, TypeOK, Ownership, FindNothing, HoldsTask, HolderState, HolderUnique,
         PoolFresh, CbFiberReady, Locals
<1>6. Locals'
  BY DEF Inv, TypeOK, Ownership, FindNothing, HoldsTask, Locals
<1>7. QueueDistinct' /\ HolderUnique' /\ NoWaker' /\ PoolFresh' /\ PoolDead' /\ Bindings' /\ LiveJobs' /\
      WaitingCallbacks' /\ JobsPosted' /\ RootOnce'
  BY DEF Inv, Ownership, FindNothing, QueueDistinct, HolderUnique, NoWaker, PoolFresh,
         PoolDead, Bindings, LiveJobs, WaitingCallbacks, JobsPosted, RootOnce
<1>8. QED BY <1>1, <1>2, <1>3, <1>4, <1>5, <1>6, <1>7 DEF Ownership

LEMMA OwnResumeFiber ==
  ASSUME Inv, NEW t \in Thread, ResumeFiber(t)
  PROVE  Ownership'
<1>1. HoldsTask'
  BY DEF Inv, TypeOK, Ownership, ResumeFiber, HoldsTask, Locals, CbFiberReady
<1>2. HolderState'
  BY DEF Inv, TypeOK, Ownership, ResumeFiber, HoldsTask, HolderState, HolderUnique,
         ArmedAlone, NoWaker, PoolFresh, HolderNotQueued, CbFiberReady, Locals
<1>3. HolderUnique'
  BY DEF Inv, TypeOK, Ownership, ResumeFiber, HoldsTask, HolderState, HolderUnique,
         HolderNotQueued, PoolFresh, PoolDead, CbFiberReady, WaitingCallbacks
<1>4. HolderNotQueued'
  BY DEF Inv, TypeOK, Ownership, ResumeFiber, HoldsTask, HolderState, HolderUnique,
         HolderNotQueued, ArmedAlone, PoolFresh, LiveJobs, WaitingCallbacks, JobsPosted,
         CbFiberReady, Locals
<1>5. ArmedAlone'
  BY DEF Inv, TypeOK, Ownership, ResumeFiber, HoldsTask, HolderState, HolderUnique,
         HolderNotQueued, ArmedAlone, NoWaker, PoolFresh, LiveJobs, Locals, CbFiberReady
<1>6. NoWaker'
  BY DEF Inv, TypeOK, Ownership, ResumeFiber, HoldsTask, HolderState, HolderUnique,
         HolderNotQueued, ArmedAlone, NoWaker, PoolFresh, CbFiberReady
<1>7. PoolFresh'
  BY DEF Inv, TypeOK, Ownership, ResumeFiber, HoldsTask, HolderState, HolderUnique,
         HolderNotQueued, ArmedAlone, PoolFresh, PoolDead, CbFiberReady, Bindings
<1>8. PoolDead'
  BY DEF Inv, TypeOK, Ownership, ResumeFiber, HoldsTask, HolderState, HolderNotQueued,
         ArmedAlone, NoWaker, PoolDead, PoolFresh
<1>9. CbFiberReady'
  BY DEF Inv, TypeOK, Ownership, ResumeFiber, HoldsTask, HolderState, HolderUnique,
         PoolFresh, CbFiberReady, Locals
<1>10. Bindings'
  BY DEF Inv, TypeOK, Ownership, ResumeFiber, HoldsTask, HolderState, PoolFresh,
         CbFiberReady, Bindings, WaitingCallbacks
<1>11. LiveJobs'
  BY DEF Inv, TypeOK, Ownership, ResumeFiber, HoldsTask, HolderState, HolderNotQueued,
         ArmedAlone, PoolFresh, CbFiberReady, Bindings, LiveJobs, WaitingCallbacks,
         JobsPosted, Locals
<1>12. Locals'
  BY DEF Inv, TypeOK, Ownership, ResumeFiber, HoldsTask, Locals
<1>13. QueueDistinct' /\ WaitingCallbacks' /\ JobsPosted' /\ RootOnce'
  BY DEF Inv, Ownership, ResumeFiber, QueueDistinct, WaitingCallbacks, JobsPosted, RootOnce
<1>14. QED BY <1>1, <1>2, <1>3, <1>4, <1>5, <1>6, <1>7, <1>8, <1>9, <1>10, <1>11, <1>12, <1>13 DEF Ownership

LEMMA OwnDiscard ==
  ASSUME Inv, NEW t \in Thread, Discard(t)
  PROVE  Ownership'
<1>1. HoldsTask'
  BY DEF Inv, TypeOK, Ownership, Discard, HoldsTask, Locals, CbFiberReady
<1>2. HolderState'
  BY DEF Inv, TypeOK, Ownership, Discard, HoldsTask, HolderState, HolderUnique, ArmedAlone,
         NoWaker, PoolFresh, HolderNotQueued, CbFiberReady, Locals
<1>3. HolderUnique'
  BY DEF Inv, TypeOK, Ownership, Discard, HoldsTask, HolderState, HolderUnique,
         HolderNotQueued, PoolFresh, PoolDead, CbFiberReady, WaitingCallbacks
<1>4. HolderNotQueued'
  BY DEF Inv, TypeOK, Ownership, Discard, HoldsTask, HolderState, HolderUnique,
         HolderNotQueued, ArmedAlone, PoolFresh, LiveJobs, WaitingCallbacks, JobsPosted,
         CbFiberReady, Locals
<1>5. ArmedAlone'
  BY DEF Inv, TypeOK, Ownership, Discard, HoldsTask, HolderState, HolderUnique,
         HolderNotQueued, ArmedAlone, NoWaker, PoolFresh, LiveJobs, Locals, CbFiberReady
<1>6. NoWaker'
  BY DEF Inv, TypeOK, Ownership, Discard, HoldsTask, HolderState, HolderUnique,
         HolderNotQueued, ArmedAlone, NoWaker, PoolFresh, CbFiberReady
<1>7. PoolFresh'
  BY DEF Inv, TypeOK, Ownership, Discard, HoldsTask, HolderState, HolderUnique,
         HolderNotQueued, ArmedAlone, PoolFresh, PoolDead, CbFiberReady, Bindings
<1>8. CbFiberReady'
  BY DEF Inv, TypeOK, Ownership, Discard, HoldsTask, HolderState, HolderUnique, PoolFresh,
         CbFiberReady, Locals
<1>9. LiveJobs'
  BY DEF Inv, TypeOK, Ownership, Discard, HoldsTask, HolderState, HolderNotQueued,
         ArmedAlone, PoolFresh, CbFiberReady, Bindings, LiveJobs, WaitingCallbacks,
         JobsPosted, Locals
<1>10. WaitingCallbacks'
  BY DEF Inv, TypeOK, Ownership, Discard, HoldsTask, HolderState, HolderUnique, PoolFresh,
         CbFiberReady, Bindings, LiveJobs, WaitingCallbacks, JobsPosted, Locals
<1>11. Locals'
  BY DEF Inv, TypeOK, Ownership, Discard, HoldsTask, Locals
<1>12. QueueDistinct' /\ PoolDead' /\ Bindings' /\ JobsPosted' /\ RootOnce'
  BY DEF Inv, Ownership, Discard, QueueDistinct, PoolDead, Bindings, JobsPosted, RootOnce
<1>13. QED BY <1>1, <1>2, <1>3, <1>4, <1>5, <1>6, <1>7, <1>8, <1>9, <1>10, <1>11, <1>12 DEF Ownership

LEMMA OwnStartCallback ==
  ASSUME Inv, NEW t \in Thread, StartCallback(t)
  PROVE  Ownership'
<1>0. cbFiber[t] # None => cbFiber[t] \in Pool /\ state[cbFiber[t]] = "INIT"
  BY DEF StartCallback, Inv, Ownership, CbFiberReady
<1>1. PICK f \in Pool :
        /\ state[f] \in Fresh
        /\ cbFiber[t] # None => f = cbFiber[t]
        /\ state' = [state EXCEPT ![f] = "EXEC"] /\ bound' = [bound EXCEPT ![f] = ft[t]]
        /\ cbFiber' = [cbFiber EXCEPT ![t] = f] /\ ft' = [ft EXCEPT ![t] = f]
  BY <1>0 DEF StartCallback
<1>2. HoldsTask'
  BY <1>1 DEF Inv, TypeOK, Ownership, StartCallback, HoldsTask, Locals, CbFiberReady
<1>3. HolderState'
  BY <1>1 DEF Inv, TypeOK, Ownership, StartCallback, HoldsTask, HolderState, HolderUnique,
         ArmedAlone, NoWaker, PoolFresh, HolderNotQueued, CbFiberReady, Locals
<1>4. HolderUnique'
  BY <1>1 DEF Inv, TypeOK, Ownership, StartCallback, HoldsTask, HolderState, HolderUnique,
         HolderNotQueued, PoolFresh, PoolDead, CbFiberReady, WaitingCallbacks
<1>5. HolderNotQueued'
  BY <1>1 DEF Inv, TypeOK, Ownership, StartCallback, HoldsTask, HolderState, HolderUnique,
         HolderNotQueued, ArmedAlone, PoolFresh, LiveJobs, WaitingCallbacks, JobsPosted,
         CbFiberReady, Locals
<1>6. ArmedAlone'
  BY <1>1 DEF Inv, TypeOK, Ownership, StartCallback, HoldsTask, HolderState, HolderUnique,
         HolderNotQueued, ArmedAlone, NoWaker, PoolFresh, LiveJobs, Locals, CbFiberReady
<1>7. NoWaker'
  BY <1>1 DEF Inv, TypeOK, Ownership, StartCallback, HoldsTask, HolderState, HolderUnique,
         HolderNotQueued, ArmedAlone, NoWaker, PoolFresh, CbFiberReady
<1>8. PoolFresh'
  BY <1>1 DEF Inv, TypeOK, Ownership, StartCallback, HoldsTask, HolderState, HolderUnique,
         HolderNotQueued, ArmedAlone, PoolFresh, PoolDead, CbFiberReady, Bindings
<1>9. PoolDead'
  BY <1>1 DEF Inv, TypeOK, Ownership, StartCallback, HoldsTask, HolderState, HolderNotQueued,
         ArmedAlone, NoWaker, PoolDead, PoolFresh
<1>10. CbFiberReady'
  BY <1>1 DEF Inv, TypeOK, Ownership, StartCallback, HoldsTask, HolderState, HolderUnique,
         PoolFresh, CbFiberReady, Locals
<1>11. Bindings'
  BY <1>1 DEF Inv, TypeOK, Ownership, StartCallback, HoldsTask, HolderState, PoolFresh,
         CbFiberReady, Bindings, WaitingCallbacks
<1>12. LiveJobs'
  BY <1>1 DEF Inv, TypeOK, Ownership, StartCallback, HoldsTask, HolderState, HolderNotQueued,
         ArmedAlone, PoolFresh, CbFiberReady, Bindings, LiveJobs, WaitingCallbacks,
         JobsPosted, Locals
<1>13. WaitingCallbacks'
  BY <1>1 DEF Inv, TypeOK, Ownership, StartCallback, HoldsTask, HolderState, HolderUnique,
         PoolFresh, CbFiberReady, Bindings, LiveJobs, WaitingCallbacks, JobsPosted, Locals
<1>14. JobsPosted'
  BY <1>1 DEF Inv, TypeOK, Ownership, StartCallback, HoldsTask, HolderState, PoolFresh,
         CbFiberReady, Bindings, LiveJobs, WaitingCallbacks, JobsPosted
<1>15. Locals'
  BY <1>1 DEF Inv, TypeOK, Ownership, StartCallback, HoldsTask, Locals
<1>16. QueueDistinct' /\ RootOnce'
  BY DEF Inv, Ownership, StartCallback, QueueDistinct, RootOnce
<1>17. QED BY <1>2, <1>3, <1>4, <1>5, <1>6, <1>7, <1>8, <1>9, <1>10, <1>11, <1>12, <1>13, <1>14, <1>15,
    <1>16 DEF Ownership

LEMMA OwnBodySchedules ==
  ASSUME Inv, NEW t \in Thread, BodySchedules(t)
  PROVE  Ownership'
<1>0. PICK j \in Job \ posted, p \in Pins(t) : Push(j, p) /\ posted' = posted \cup {j}
  BY DEF BodySchedules
<1>1. ~Queued(j) /\ ~Held(j)
  BY DEF Inv, TypeOK, Ownership, LiveJobs, WaitingCallbacks
<1>2. Tasks(fibers') = Tasks(fibers) \cup {j} /\ QueueDistinct'
  BY <1>0, <1>1, Pushed DEF Pins, Inv, Ownership
<1>3. HolderNotQueued'
  BY <1>0, <1>1, <1>2 DEF Inv, TypeOK, Ownership, BodySchedules, Pins, HoldsTask, HolderState, HolderUnique,
         HolderNotQueued, ArmedAlone, PoolFresh, LiveJobs, WaitingCallbacks, JobsPosted,
         CbFiberReady, Locals
<1>4. ArmedAlone'
  BY <1>0, <1>1, <1>2 DEF Inv, TypeOK, Ownership, BodySchedules, Pins, HoldsTask, HolderState, HolderUnique,
         HolderNotQueued, ArmedAlone, NoWaker, PoolFresh, LiveJobs, Locals, CbFiberReady
<1>5. PoolFresh'
  BY <1>0, <1>1, <1>2 DEF Inv, TypeOK, Ownership, BodySchedules, Pins, HoldsTask, HolderState, HolderUnique,
         HolderNotQueued, ArmedAlone, PoolFresh, PoolDead, CbFiberReady, Bindings
<1>6. PoolDead'
  BY <1>0, <1>1, <1>2 DEF Inv, TypeOK, Ownership, BodySchedules, Pins, HoldsTask, HolderState,
         HolderNotQueued, ArmedAlone, NoWaker, PoolDead, PoolFresh
<1>7. LiveJobs'
  BY <1>0, <1>1, <1>2 DEF Inv, TypeOK, Ownership, BodySchedules, Pins, HoldsTask, HolderState,
         HolderNotQueued, ArmedAlone, PoolFresh, CbFiberReady, Bindings, LiveJobs,
         WaitingCallbacks, JobsPosted, Locals
<1>8. WaitingCallbacks'
  BY <1>0, <1>1, <1>2 DEF Inv, TypeOK, Ownership, BodySchedules, Pins, HoldsTask, HolderState, HolderUnique,
         PoolFresh, CbFiberReady, Bindings, LiveJobs, WaitingCallbacks, JobsPosted, Locals
<1>9. JobsPosted'
  BY <1>0, <1>1, <1>2 DEF Inv, TypeOK, Ownership, BodySchedules, Pins, HoldsTask, HolderState, PoolFresh,
         CbFiberReady, Bindings, LiveJobs, WaitingCallbacks, JobsPosted
<1>10. HoldsTask' /\ HolderState' /\ HolderUnique' /\ NoWaker' /\ CbFiberReady' /\ Bindings' /\ Locals' /\
      RootOnce'
  BY DEF Inv, Ownership, BodySchedules, Pins, HoldsTask, HolderState, HolderUnique, NoWaker,
         CbFiberReady, Bindings, Locals, RootOnce
<1>11. QED BY <1>2, <1>3, <1>4, <1>5, <1>6, <1>7, <1>8, <1>9, <1>10 DEF Ownership

LEMMA OwnArm ==
  ASSUME Inv, NEW t \in Thread, Arm(t)
  PROVE  Ownership'
<1>1. /\ ft[t] \in Fiber /\ state[ft[t]] = "EXEC" /\ ~Queued(ft[t])
      /\ \A u \in Thread : ft[u] = ft[t] => u = t
  BY DEF Arm, Inv, TypeOK, Ownership, HoldsTask, HolderState, HolderUnique, HolderNotQueued
<1>2. HoldsTask'
  BY <1>1 DEF Inv, TypeOK, Ownership, Arm, MayYield, CountYield, HoldsTask, Locals, CbFiberReady
<1>3. HolderState'
  BY <1>1 DEF Inv, TypeOK, Ownership, Arm, MayYield, CountYield, HoldsTask, HolderState,
         HolderUnique, ArmedAlone, NoWaker, PoolFresh, HolderNotQueued, CbFiberReady, Locals
<1>4. HolderNotQueued'
  BY <1>1 DEF Inv, TypeOK, Ownership, Arm, MayYield, CountYield, HoldsTask, HolderState,
         HolderUnique, HolderNotQueued, ArmedAlone, PoolFresh, LiveJobs, WaitingCallbacks,
         JobsPosted, CbFiberReady, Locals
<1>5. ArmedAlone'
  BY <1>1 DEF Inv, TypeOK, Ownership, Arm, MayYield, CountYield, HoldsTask, HolderState,
         HolderUnique, HolderNotQueued, ArmedAlone, NoWaker, PoolFresh, LiveJobs, Locals,
         CbFiberReady
<1>6. NoWaker'
  BY <1>1 DEF Inv, TypeOK, Ownership, Arm, MayYield, CountYield, HoldsTask, HolderState,
         HolderUnique, HolderNotQueued, ArmedAlone, NoWaker, PoolFresh, CbFiberReady
<1>7. CbFiberReady'
  BY <1>1 DEF Inv, TypeOK, Ownership, Arm, MayYield, CountYield, HoldsTask, HolderState,
         HolderUnique, PoolFresh, CbFiberReady, Locals
<1>8. Locals'
  BY <1>1 DEF Inv, TypeOK, Ownership, Arm, MayYield, CountYield, HoldsTask, Locals
<1>9. QueueDistinct' /\ HolderUnique' /\ PoolFresh' /\ PoolDead' /\ Bindings' /\ LiveJobs' /\
      WaitingCallbacks' /\ JobsPosted' /\ RootOnce'
  BY DEF Inv, Ownership, Arm, MayYield, CountYield, QueueDistinct, HolderUnique, PoolFresh,
         PoolDead, Bindings, LiveJobs, WaitingCallbacks, JobsPosted, RootOnce
<1>10. QED BY <1>2, <1>3, <1>4, <1>5, <1>6, <1>7, <1>8, <1>9 DEF Ownership

LEMMA OwnSwitchTo ==
  ASSUME Inv, NEW t \in Thread, SwitchTo(t)
  PROVE  Ownership'
<1>0. PICK p \in Pins(t) : Push(ft[t], p)
  BY DEF SwitchTo
<1>1. ft[t] \in Fiber /\ ~Queued(ft[t])
  BY DEF SwitchTo, Inv, TypeOK, Ownership, HoldsTask, HolderNotQueued
<1>2. Tasks(fibers') = Tasks(fibers) \cup {ft[t]} /\ QueueDistinct'
  BY <1>0, <1>1, Pushed DEF Pins, Inv, Ownership
<1>3. HoldsTask'
  BY <1>1, <1>2 DEF Inv, TypeOK, Ownership, SwitchTo, Pins, MayYield, CountYield, HoldsTask, Locals,
         CbFiberReady
<1>4. HolderState'
  BY <1>1, <1>2 DEF Inv, TypeOK, Ownership, SwitchTo, Pins, MayYield, CountYield, HoldsTask,
         HolderState, HolderUnique, ArmedAlone, NoWaker, PoolFresh, HolderNotQueued,
         CbFiberReady, Locals
<1>5. HolderNotQueued'
  BY <1>1, <1>2 DEF Inv, TypeOK, Ownership, SwitchTo, Pins, MayYield, CountYield, HoldsTask,
         HolderState, HolderUnique, HolderNotQueued, ArmedAlone, PoolFresh, LiveJobs,
         WaitingCallbacks, JobsPosted, CbFiberReady, Locals
<1>6. ArmedAlone'
  BY <1>1, <1>2 DEF Inv, TypeOK, Ownership, SwitchTo, Pins, MayYield, CountYield, HoldsTask,
         HolderState, HolderUnique, HolderNotQueued, ArmedAlone, NoWaker, PoolFresh,
         LiveJobs, Locals, CbFiberReady
<1>7. PoolFresh'
  BY <1>1, <1>2 DEF Inv, TypeOK, Ownership, SwitchTo, Pins, MayYield, CountYield, HoldsTask,
         HolderState, HolderUnique, HolderNotQueued, ArmedAlone, PoolFresh, PoolDead,
         CbFiberReady, Bindings
<1>8. PoolDead'
  BY <1>1, <1>2 DEF Inv, TypeOK, Ownership, SwitchTo, Pins, MayYield, CountYield, HoldsTask,
         HolderState, HolderNotQueued, ArmedAlone, NoWaker, PoolDead, PoolFresh
<1>9. CbFiberReady'
  BY <1>1, <1>2 DEF Inv, TypeOK, Ownership, SwitchTo, Pins, MayYield, CountYield, HoldsTask,
         HolderState, HolderUnique, PoolFresh, CbFiberReady, Locals
<1>10. LiveJobs'
  BY <1>1, <1>2 DEF Inv, TypeOK, Ownership, SwitchTo, Pins, MayYield, CountYield, HoldsTask,
         HolderState, HolderNotQueued, ArmedAlone, PoolFresh, CbFiberReady, Bindings,
         LiveJobs, WaitingCallbacks, JobsPosted, Locals
<1>11. WaitingCallbacks'
  BY <1>1, <1>2 DEF Inv, TypeOK, Ownership, SwitchTo, Pins, MayYield, CountYield, HoldsTask,
         HolderState, HolderUnique, PoolFresh, CbFiberReady, Bindings, LiveJobs,
         WaitingCallbacks, JobsPosted, Locals
<1>12. Locals'
  BY <1>1, <1>2 DEF Inv, TypeOK, Ownership, SwitchTo, Pins, MayYield, CountYield, HoldsTask, Locals
<1>13. HolderUnique' /\ NoWaker' /\ Bindings' /\ JobsPosted' /\ RootOnce'
  BY DEF Inv, Ownership, SwitchTo, Pins, MayYield, CountYield, HolderUnique, NoWaker,
         Bindings, JobsPosted, RootOnce
<1>14. QED BY <1>2, <1>3, <1>4, <1>5, <1>6, <1>7, <1>8, <1>9, <1>10, <1>11, <1>12, <1>13 DEF Ownership

LEMMA OwnYieldToHold ==
  ASSUME Inv, NEW t \in Thread, YieldToHold(t)
  PROVE  Ownership'
<1>1. HoldsTask'
  BY DEF Inv, TypeOK, Ownership, YieldToHold, HoldsTask, Locals, CbFiberReady
<1>2. HolderState'
  BY DEF Inv, TypeOK, Ownership, YieldToHold, HoldsTask, HolderState, HolderUnique,
         ArmedAlone, NoWaker, PoolFresh, HolderNotQueued, CbFiberReady, Locals
<1>3. HolderNotQueued'
  BY DEF Inv, TypeOK, Ownership, YieldToHold, HoldsTask, HolderState, HolderUnique,
         HolderNotQueued, ArmedAlone, PoolFresh, LiveJobs, WaitingCallbacks, JobsPosted,
         CbFiberReady, Locals
<1>4. ArmedAlone'
  BY DEF Inv, TypeOK, Ownership, YieldToHold, HoldsTask, HolderState, HolderUnique,
         HolderNotQueued, ArmedAlone, NoWaker, PoolFresh, LiveJobs, Locals, CbFiberReady
<1>5. CbFiberReady'
  BY DEF Inv, TypeOK, Ownership, YieldToHold, HoldsTask, HolderState, HolderUnique,
         PoolFresh, CbFiberReady, Locals
<1>6. Locals'
  BY DEF Inv, TypeOK, Ownership, YieldToHold, HoldsTask, Locals
<1>7. QueueDistinct' /\ HolderUnique' /\ NoWaker' /\ PoolFresh' /\ PoolDead' /\ Bindings' /\ LiveJobs' /\
      WaitingCallbacks' /\ JobsPosted' /\ RootOnce'
  BY DEF Inv, Ownership, YieldToHold, QueueDistinct, HolderUnique, NoWaker, PoolFresh,
         PoolDead, Bindings, LiveJobs, WaitingCallbacks, JobsPosted, RootOnce
<1>8. QED BY <1>1, <1>2, <1>3, <1>4, <1>5, <1>6, <1>7 DEF Ownership

LEMMA OwnYieldToReady ==
  ASSUME Inv, NEW t \in Thread, YieldToReady(t)
  PROVE  Ownership'
<1>1. HoldsTask'
  BY DEF Inv, TypeOK, Ownership, YieldToReady, MayYield, CountYield, HoldsTask, Locals,
         CbFiberReady
<1>2. HolderState'
  BY DEF Inv, TypeOK, Ownership, YieldToReady, MayYield, CountYield, HoldsTask, HolderState,
         HolderUnique, ArmedAlone, NoWaker, PoolFresh, HolderNotQueued, CbFiberReady, Locals
<1>3. HolderUnique'
  BY DEF Inv, TypeOK, Ownership, YieldToReady, MayYield, CountYield, HoldsTask, HolderState,
         HolderUnique, HolderNotQueued, PoolFresh, PoolDead, CbFiberReady, WaitingCallbacks
<1>4. HolderNotQueued'
  BY DEF Inv, TypeOK, Ownership, YieldToReady, MayYield, CountYield, HoldsTask, HolderState,
         HolderUnique, HolderNotQueued, ArmedAlone, PoolFresh, LiveJobs, WaitingCallbacks,
         JobsPosted, CbFiberReady, Locals
<1>5. ArmedAlone'
  BY DEF Inv, TypeOK, Ownership, YieldToReady, MayYield, CountYield, HoldsTask, HolderState,
         HolderUnique, HolderNotQueued, ArmedAlone, NoWaker, PoolFresh, LiveJobs, Locals,
         CbFiberReady
<1>6. NoWaker'
  BY DEF Inv, TypeOK, Ownership, YieldToReady, MayYield, CountYield, HoldsTask, HolderState,
         HolderUnique, HolderNotQueued, ArmedAlone, NoWaker, PoolFresh, CbFiberReady
<1>7. PoolFresh'
  BY DEF Inv, TypeOK, Ownership, YieldToReady, MayYield, CountYield, HoldsTask, HolderState,
         HolderUnique, HolderNotQueued, ArmedAlone, PoolFresh, PoolDead, CbFiberReady,
         Bindings
<1>8. PoolDead'
  BY DEF Inv, TypeOK, Ownership, YieldToReady, MayYield, CountYield, HoldsTask, HolderState,
         HolderNotQueued, ArmedAlone, NoWaker, PoolDead, PoolFresh
<1>9. CbFiberReady'
  BY DEF Inv, TypeOK, Ownership, YieldToReady, MayYield, CountYield, HoldsTask, HolderState,
         HolderUnique, PoolFresh, CbFiberReady, Locals
<1>10. Bindings'
  BY DEF Inv, TypeOK, Ownership, YieldToReady, MayYield, CountYield, HoldsTask, HolderState,
         PoolFresh, CbFiberReady, Bindings, WaitingCallbacks
<1>11. LiveJobs'
  BY DEF Inv, TypeOK, Ownership, YieldToReady, MayYield, CountYield, HoldsTask, HolderState,
         HolderNotQueued, ArmedAlone, PoolFresh, CbFiberReady, Bindings, LiveJobs,
         WaitingCallbacks, JobsPosted, Locals
<1>12. Locals'
  BY DEF Inv, TypeOK, Ownership, YieldToReady, MayYield, CountYield, HoldsTask, Locals
<1>13. QueueDistinct' /\ WaitingCallbacks' /\ JobsPosted' /\ RootOnce'
  BY DEF Inv, Ownership, YieldToReady, MayYield, CountYield, QueueDistinct, WaitingCallbacks,
         JobsPosted, RootOnce
<1>14. QED BY <1>1, <1>2, <1>3, <1>4, <1>5, <1>6, <1>7, <1>8, <1>9, <1>10, <1>11, <1>12, <1>13 DEF Ownership

LEMMA OwnCbEnds ==
  ASSUME Inv, NEW t \in Thread, CbEnds(t)
  PROVE  Ownership'
<1>1. HoldsTask'
  BY DEF Inv, TypeOK, Ownership, CbEnds, HoldsTask, Locals, CbFiberReady
<1>2. HolderState'
  BY DEF Inv, TypeOK, Ownership, CbEnds, HoldsTask, HolderState, HolderUnique, ArmedAlone,
         NoWaker, PoolFresh, HolderNotQueued, CbFiberReady, Locals
<1>3. HolderUnique'
  BY DEF Inv, TypeOK, Ownership, CbEnds, HoldsTask, HolderState, HolderUnique,
         HolderNotQueued, PoolFresh, PoolDead, CbFiberReady, WaitingCallbacks
<1>4. HolderNotQueued'
  BY DEF Inv, TypeOK, Ownership, CbEnds, HoldsTask, HolderState, HolderUnique,
         HolderNotQueued, ArmedAlone, PoolFresh, LiveJobs, WaitingCallbacks, JobsPosted,
         CbFiberReady, Locals
<1>5. ArmedAlone'
  BY DEF Inv, TypeOK, Ownership, CbEnds, HoldsTask, HolderState, HolderUnique,
         HolderNotQueued, ArmedAlone, NoWaker, PoolFresh, LiveJobs, Locals, CbFiberReady
<1>6. NoWaker'
  BY DEF Inv, TypeOK, Ownership, CbEnds, HoldsTask, HolderState, HolderUnique,
         HolderNotQueued, ArmedAlone, NoWaker, PoolFresh, CbFiberReady
<1>7. PoolFresh'
  BY DEF Inv, TypeOK, Ownership, CbEnds, HoldsTask, HolderState, HolderUnique,
         HolderNotQueued, ArmedAlone, PoolFresh, PoolDead, CbFiberReady, Bindings
<1>8. PoolDead'
  BY DEF Inv, TypeOK, Ownership, CbEnds, HoldsTask, HolderState, HolderNotQueued, ArmedAlone,
         NoWaker, PoolDead, PoolFresh
<1>9. CbFiberReady'
  BY DEF Inv, TypeOK, Ownership, CbEnds, HoldsTask, HolderState, HolderUnique, PoolFresh,
         CbFiberReady, Locals
<1>10. Bindings'
  BY DEF Inv, TypeOK, Ownership, CbEnds, HoldsTask, HolderState, PoolFresh, CbFiberReady,
         Bindings, WaitingCallbacks
<1>11. LiveJobs'
  BY DEF Inv, TypeOK, Ownership, CbEnds, HoldsTask, HolderState, HolderNotQueued, ArmedAlone,
         PoolFresh, CbFiberReady, Bindings, LiveJobs, WaitingCallbacks, JobsPosted, Locals
<1>12. WaitingCallbacks'
  BY DEF Inv, TypeOK, Ownership, CbEnds, HoldsTask, HolderState, HolderUnique, PoolFresh,
         CbFiberReady, Bindings, LiveJobs, WaitingCallbacks, JobsPosted, Locals
<1>13. JobsPosted'
  BY DEF Inv, TypeOK, Ownership, CbEnds, HoldsTask, HolderState, PoolFresh, CbFiberReady,
         Bindings, LiveJobs, WaitingCallbacks, JobsPosted
<1>14. Locals'
  BY DEF Inv, TypeOK, Ownership, CbEnds, HoldsTask, Locals
<1>15. QueueDistinct' /\ RootOnce'
  BY DEF Inv, Ownership, CbEnds, QueueDistinct, RootOnce
<1>16. QED BY <1>1, <1>2, <1>3, <1>4, <1>5, <1>6, <1>7, <1>8, <1>9, <1>10, <1>11, <1>12, <1>13, <1>14,
    <1>15 DEF Ownership

LEMMA OwnCountDown ==
  ASSUME Inv, NEW t \in Thread, CountDown(t)
  PROVE  Ownership'
<1>1. HoldsTask'
  BY DEF Inv, TypeOK, Ownership, CountDown, HoldsTask, Locals, CbFiberReady
<1>2. HolderState'
  BY DEF Inv, TypeOK, Ownership, CountDown, HoldsTask, HolderState, HolderUnique, ArmedAlone,
         NoWaker, PoolFresh, HolderNotQueued, CbFiberReady, Locals
<1>3. HolderNotQueued'
  BY DEF Inv, TypeOK, Ownership, CountDown, HoldsTask, HolderState, HolderUnique,
         HolderNotQueued, ArmedAlone, PoolFresh, LiveJobs, WaitingCallbacks, JobsPosted,
         CbFiberReady, Locals
<1>4. ArmedAlone'
  BY DEF Inv, TypeOK, Ownership, CountDown, HoldsTask, HolderState, HolderUnique,
         HolderNotQueued, ArmedAlone, NoWaker, PoolFresh, LiveJobs, Locals, CbFiberReady
<1>5. CbFiberReady'
  BY DEF Inv, TypeOK, Ownership, CountDown, HoldsTask, HolderState, HolderUnique, PoolFresh,
         CbFiberReady, Locals
<1>6. Locals'
  BY DEF Inv, TypeOK, Ownership, CountDown, HoldsTask, Locals
<1>7. QueueDistinct' /\ HolderUnique' /\ NoWaker' /\ PoolFresh' /\ PoolDead' /\ Bindings' /\ LiveJobs' /\
      WaitingCallbacks' /\ JobsPosted' /\ RootOnce'
  BY DEF Inv, Ownership, CountDown, QueueDistinct, HolderUnique, NoWaker, PoolFresh,
         PoolDead, Bindings, LiveJobs, WaitingCallbacks, JobsPosted, RootOnce
<1>8. QED BY <1>1, <1>2, <1>3, <1>4, <1>5, <1>6, <1>7 DEF Ownership

LEMMA OwnSettle ==
  ASSUME Inv, NEW t \in Thread, Settle(t)
  PROVE  Ownership'
<1>1. /\ ft[t] \in Fiber
      /\ state[ft[t]] \in Dead \cup {"EXEC", "READY"}
      /\ state[ft[t]] = "READY" => ~Queued(ft[t])
  BY DEF Settle, Inv, TypeOK, Ownership, HoldsTask, HolderState, HolderNotQueued
<1>2. /\ Tasks(fibers') = Tasks(fibers) \cup IF state[ft[t]] = "READY" THEN {ft[t]} ELSE {}
      /\ QueueDistinct'
  BY <1>1, Pushed DEF Settle, Inv, Ownership, QueueDistinct
<1>3. HoldsTask'
  BY <1>1, <1>2 DEF Inv, TypeOK, Ownership, Settle, HoldsTask, Locals, CbFiberReady
<1>4. HolderState'
  BY <1>1, <1>2 DEF Inv, TypeOK, Ownership, Settle, HoldsTask, HolderState, HolderUnique, ArmedAlone,
         NoWaker, PoolFresh, HolderNotQueued, CbFiberReady, Locals
<1>5. HolderUnique'
  BY <1>1, <1>2 DEF Inv, TypeOK, Ownership, Settle, HoldsTask, HolderState, HolderUnique,
         HolderNotQueued, PoolFresh, PoolDead, CbFiberReady, WaitingCallbacks
<1>6. HolderNotQueued'
  BY <1>1, <1>2 DEF Inv, TypeOK, Ownership, Settle, HoldsTask, HolderState, HolderUnique,
         HolderNotQueued, ArmedAlone, PoolFresh, LiveJobs, WaitingCallbacks, JobsPosted,
         CbFiberReady, Locals
<1>7. ArmedAlone'
  BY <1>1, <1>2 DEF Inv, TypeOK, Ownership, Settle, HoldsTask, HolderState, HolderUnique,
         HolderNotQueued, ArmedAlone, NoWaker, PoolFresh, LiveJobs, Locals, CbFiberReady
<1>8. NoWaker'
  BY <1>1, <1>2 DEF Inv, TypeOK, Ownership, Settle, HoldsTask, HolderState, HolderUnique,
         HolderNotQueued, ArmedAlone, NoWaker, PoolFresh, CbFiberReady
<1>9. PoolFresh'
  BY <1>1, <1>2 DEF Inv, TypeOK, Ownership, Settle, HoldsTask, HolderState, HolderUnique,
         HolderNotQueued, ArmedAlone, PoolFresh, PoolDead, CbFiberReady, Bindings
<1>10. PoolDead'
  BY <1>1, <1>2 DEF Inv, TypeOK, Ownership, Settle, HoldsTask, HolderState, HolderNotQueued, ArmedAlone,
         NoWaker, PoolDead, PoolFresh
<1>11. CbFiberReady'
  BY <1>1, <1>2 DEF Inv, TypeOK, Ownership, Settle, HoldsTask, HolderState, HolderUnique, PoolFresh,
         CbFiberReady, Locals
<1>12. Bindings'
  BY <1>1, <1>2 DEF Inv, TypeOK, Ownership, Settle, HoldsTask, HolderState, PoolFresh, CbFiberReady,
         Bindings, WaitingCallbacks
<1>13. LiveJobs'
  BY <1>1, <1>2 DEF Inv, TypeOK, Ownership, Settle, HoldsTask, HolderState, HolderNotQueued, ArmedAlone,
         PoolFresh, CbFiberReady, Bindings, LiveJobs, WaitingCallbacks, JobsPosted, Locals
<1>14. WaitingCallbacks'
  BY <1>1, <1>2 DEF Inv, TypeOK, Ownership, Settle, HoldsTask, HolderState, HolderUnique, PoolFresh,
         CbFiberReady, Bindings, LiveJobs, WaitingCallbacks, JobsPosted, Locals
<1>15. JobsPosted'
  BY <1>1, <1>2 DEF Inv, TypeOK, Ownership, Settle, HoldsTask, HolderState, PoolFresh, CbFiberReady,
         Bindings, LiveJobs, WaitingCallbacks, JobsPosted
<1>16. Locals'
  BY <1>1, <1>2 DEF Inv, TypeOK, Ownership, Settle, HoldsTask, Locals
<1>17. RootOnce'
  BY DEF Inv, Ownership, Settle, RootOnce
<1>18. QED BY <1>2, <1>3, <1>4, <1>5, <1>6, <1>7, <1>8, <1>9, <1>10, <1>11, <1>12, <1>13, <1>14, <1>15,
    <1>16, <1>17 DEF Ownership

LEMMA OwnIdleEnter ==
  ASSUME Inv, NEW t \in Thread, IdleEnter(t)
  PROVE  Ownership'
<1>1. HoldsTask'
  BY DEF Inv, TypeOK, Ownership, IdleEnter, HoldsTask, Locals, CbFiberReady
<1>2. HolderState'
  BY DEF Inv, TypeOK, Ownership, IdleEnter, HoldsTask, HolderState, HolderUnique, ArmedAlone,
         NoWaker, PoolFresh, HolderNotQueued, CbFiberReady, Locals
<1>3. HolderNotQueued'
  BY DEF Inv, TypeOK, Ownership, IdleEnter, HoldsTask, HolderState, HolderUnique,
         HolderNotQueued, ArmedAlone, PoolFresh, LiveJobs, WaitingCallbacks, JobsPosted,
         CbFiberReady, Locals
<1>4. ArmedAlone'
  BY DEF Inv, TypeOK, Ownership, IdleEnter, HoldsTask, HolderState, HolderUnique,
         HolderNotQueued, ArmedAlone, NoWaker, PoolFresh, LiveJobs, Locals, CbFiberReady
<1>5. CbFiberReady'
  BY DEF Inv, TypeOK, Ownership, IdleEnter, HoldsTask, HolderState, HolderUnique, PoolFresh,
         CbFiberReady, Locals
<1>6. Locals'
  BY DEF Inv, TypeOK, Ownership, IdleEnter, HoldsTask, Locals
<1>7. QueueDistinct' /\ HolderUnique' /\ NoWaker' /\ PoolFresh' /\ PoolDead' /\ Bindings' /\ LiveJobs' /\
      WaitingCallbacks' /\ JobsPosted' /\ RootOnce'
  BY DEF Inv, Ownership, IdleEnter, QueueDistinct, HolderUnique, NoWaker, PoolFresh,
         PoolDead, Bindings, LiveJobs, WaitingCallbacks, JobsPosted, RootOnce
<1>8. QED BY <1>1, <1>2, <1>3, <1>4, <1>5, <1>6, <1>7 DEF Ownership

LEMMA OwnIdleCheck ==
  ASSUME Inv, NEW t \in Thread, IdleCheck(t)
  PROVE  Ownership'
<1>1. HoldsTask'
  BY DEF Inv, TypeOK, Ownership, IdleCheck, Stopping, HoldsTask, Locals, CbFiberReady
<1>2. HolderState'
  BY DEF Inv, TypeOK, Ownership, IdleCheck, Stopping, HoldsTask, HolderState, HolderUnique,
         ArmedAlone, NoWaker, PoolFresh, HolderNotQueued, CbFiberReady, Locals
<1>3. HolderNotQueued'
  BY DEF Inv, TypeOK, Ownership, IdleCheck, Stopping, HoldsTask, HolderState, HolderUnique,
         HolderNotQueued, ArmedAlone, PoolFresh, LiveJobs, WaitingCallbacks, JobsPosted,
         CbFiberReady, Locals
<1>4. ArmedAlone'
  BY DEF Inv, TypeOK, Ownership, IdleCheck, Stopping, HoldsTask, HolderState, HolderUnique,
         HolderNotQueued, ArmedAlone, NoWaker, PoolFresh, LiveJobs, Locals, CbFiberReady
<1>5. CbFiberReady'
  BY DEF Inv, TypeOK, Ownership, IdleCheck, Stopping, HoldsTask, HolderState, HolderUnique,
         PoolFresh, CbFiberReady, Locals
<1>6. Locals'
  BY DEF Inv, TypeOK, Ownership, IdleCheck, Stopping, HoldsTask, Locals
<1>7. QueueDistinct' /\ HolderUnique' /\ NoWaker' /\ PoolFresh' /\ PoolDead' /\ Bindings' /\ LiveJobs' /\
      WaitingCallbacks' /\ JobsPosted' /\ RootOnce'
  BY DEF Inv, Ownership, IdleCheck, Stopping, QueueDistinct, HolderUnique, NoWaker,
         PoolFresh, PoolDead, Bindings, LiveJobs, WaitingCallbacks, JobsPosted, RootOnce
<1>8. QED BY <1>1, <1>2, <1>3, <1>4, <1>5, <1>6, <1>7 DEF Ownership

LEMMA OwnIdleLeave ==
  ASSUME Inv, NEW t \in Thread, IdleLeave(t)
  PROVE  Ownership'
<1>1. HoldsTask'
  BY DEF Inv, TypeOK, Ownership, IdleLeave, HoldsTask, Locals, CbFiberReady
<1>2. HolderState'
  BY DEF Inv, TypeOK, Ownership, IdleLeave, HoldsTask, HolderState, HolderUnique, ArmedAlone,
         NoWaker, PoolFresh, HolderNotQueued, CbFiberReady, Locals
<1>3. HolderNotQueued'
  BY DEF Inv, TypeOK, Ownership, IdleLeave, HoldsTask, HolderState, HolderUnique,
         HolderNotQueued, ArmedAlone, PoolFresh, LiveJobs, WaitingCallbacks, JobsPosted,
         CbFiberReady, Locals
<1>4. ArmedAlone'
  BY DEF Inv, TypeOK, Ownership, IdleLeave, HoldsTask, HolderState, HolderUnique,
         HolderNotQueued, ArmedAlone, NoWaker, PoolFresh, LiveJobs, Locals, CbFiberReady
<1>5. CbFiberReady'
  BY DEF Inv, TypeOK, Ownership, IdleLeave, HoldsTask, HolderState, HolderUnique, PoolFresh,
         CbFiberReady, Locals
<1>6. Locals'
  BY DEF Inv, TypeOK, Ownership, IdleLeave, HoldsTask, Locals
<1>7. QueueDistinct' /\ HolderUnique' /\ NoWaker' /\ PoolFresh' /\ PoolDead' /\ Bindings' /\ LiveJobs' /\
      WaitingCallbacks' /\ JobsPosted' /\ RootOnce'
  BY DEF Inv, Ownership, IdleLeave, QueueDistinct, HolderUnique, NoWaker, PoolFresh,
         PoolDead, Bindings, LiveJobs, WaitingCallbacks, JobsPosted, RootOnce
<1>8. QED BY <1>1, <1>2, <1>3, <1>4, <1>5, <1>6, <1>7 DEF Ownership

LEMMA OwnWake ==
  ASSUME Inv, NEW f \in Fiber, Wake(f)
  PROVE  Ownership'
<1>1. ~Queued(f)
  BY DEF Wake, Inv, Ownership, ArmedAlone
<1>2. Tasks(fibers') = Tasks(fibers) \cup {f} /\ QueueDistinct'
  BY <1>1, Pushed DEF Wake, Inv, Ownership
<1>3. HolderState'
  BY <1>1, <1>2 DEF Inv, TypeOK, Ownership, Wake, HoldsTask, HolderState, HolderUnique, ArmedAlone,
         NoWaker, PoolFresh, HolderNotQueued, CbFiberReady, Locals
<1>4. HolderNotQueued'
  BY <1>1, <1>2 DEF Inv, TypeOK, Ownership, Wake, HoldsTask, HolderState, HolderUnique, HolderNotQueued,
         ArmedAlone, PoolFresh, LiveJobs, WaitingCallbacks, JobsPosted, CbFiberReady, Locals
<1>5. ArmedAlone'
  BY <1>1, <1>2 DEF Inv, TypeOK, Ownership, Wake, HoldsTask, HolderState, HolderUnique, HolderNotQueued,
         ArmedAlone, NoWaker, PoolFresh, LiveJobs, Locals, CbFiberReady
<1>6. NoWaker'
  BY <1>1, <1>2 DEF Inv, TypeOK, Ownership, Wake, HoldsTask, HolderState, HolderUnique, HolderNotQueued,
         ArmedAlone, NoWaker, PoolFresh, CbFiberReady
<1>7. PoolFresh'
  BY <1>1, <1>2 DEF Inv, TypeOK, Ownership, Wake, HoldsTask, HolderState, HolderUnique, HolderNotQueued,
         ArmedAlone, PoolFresh, PoolDead, CbFiberReady, Bindings
<1>8. PoolDead'
  BY <1>1, <1>2 DEF Inv, TypeOK, Ownership, Wake, HoldsTask, HolderState, HolderNotQueued, ArmedAlone,
         NoWaker, PoolDead, PoolFresh
<1>9. LiveJobs'
  BY <1>1, <1>2 DEF Inv, TypeOK, Ownership, Wake, HoldsTask, HolderState, HolderNotQueued, ArmedAlone,
         PoolFresh, CbFiberReady, Bindings, LiveJobs, WaitingCallbacks, JobsPosted, Locals
<1>10. WaitingCallbacks'
  BY <1>1, <1>2 DEF Inv, TypeOK, Ownership, Wake, HoldsTask, HolderState, HolderUnique, PoolFresh,
         CbFiberReady, Bindings, LiveJobs, WaitingCallbacks, JobsPosted, Locals
<1>11. HoldsTask' /\ HolderUnique' /\ CbFiberReady' /\ Bindings' /\ JobsPosted' /\ Locals' /\ RootOnce'
  BY DEF Inv, Ownership, Wake, HoldsTask, HolderUnique, CbFiberReady, Bindings, JobsPosted,
         Locals, RootOnce
<1>12. QED BY <1>2, <1>3, <1>4, <1>5, <1>6, <1>7, <1>8, <1>9, <1>10, <1>11 DEF Ownership

LEMMA OwnMainSchedules ==
  ASSUME Inv, MainSchedules
  PROVE  Ownership'
<1>0. PICK j \in Job \ posted, p \in Pins(AnyThread) :
        Push(j, p) /\ posted' = posted \cup {j}
  BY DEF MainSchedules
<1>1. ~Queued(j) /\ ~Held(j)
  BY DEF Inv, TypeOK, Ownership, LiveJobs, WaitingCallbacks
<1>2. Tasks(fibers') = Tasks(fibers) \cup {j} /\ QueueDistinct'
  BY <1>0, <1>1, Pushed DEF Pins, Inv, Ownership
<1>3. HolderNotQueued'
  BY <1>0, <1>1, <1>2 DEF Inv, TypeOK, Ownership, MainSchedules, Accepting, Pins, HoldsTask, HolderState,
         HolderUnique, HolderNotQueued, ArmedAlone, PoolFresh, LiveJobs, WaitingCallbacks,
         JobsPosted, CbFiberReady, Locals
<1>4. ArmedAlone'
  BY <1>0, <1>1, <1>2 DEF Inv, TypeOK, Ownership, MainSchedules, Accepting, Pins, HoldsTask, HolderState,
         HolderUnique, HolderNotQueued, ArmedAlone, NoWaker, PoolFresh, LiveJobs, Locals,
         CbFiberReady
<1>5. PoolFresh'
  BY <1>0, <1>1, <1>2 DEF Inv, TypeOK, Ownership, MainSchedules, Accepting, Pins, HoldsTask, HolderState,
         HolderUnique, HolderNotQueued, ArmedAlone, PoolFresh, PoolDead, CbFiberReady,
         Bindings
<1>6. PoolDead'
  BY <1>0, <1>1, <1>2 DEF Inv, TypeOK, Ownership, MainSchedules, Accepting, Pins, HoldsTask, HolderState,
         HolderNotQueued, ArmedAlone, NoWaker, PoolDead, PoolFresh
<1>7. LiveJobs'
  BY <1>0, <1>1, <1>2 DEF Inv, TypeOK, Ownership, MainSchedules, Accepting, Pins, HoldsTask, HolderState,
         HolderNotQueued, ArmedAlone, PoolFresh, CbFiberReady, Bindings, LiveJobs,
         WaitingCallbacks, JobsPosted, Locals
<1>8. WaitingCallbacks'
  BY <1>0, <1>1, <1>2 DEF Inv, TypeOK, Ownership, MainSchedules, Accepting, Pins, HoldsTask, HolderState,
         HolderUnique, PoolFresh, CbFiberReady, Bindings, LiveJobs, WaitingCallbacks,
         JobsPosted, Locals
<1>9. JobsPosted'
  BY <1>0, <1>1, <1>2 DEF Inv, TypeOK, Ownership, MainSchedules, Accepting, Pins, HoldsTask, HolderState,
         PoolFresh, CbFiberReady, Bindings, LiveJobs, WaitingCallbacks, JobsPosted
<1>10. HoldsTask' /\ HolderState' /\ HolderUnique' /\ NoWaker' /\ CbFiberReady' /\ Bindings' /\ Locals' /\
      RootOnce'
  BY DEF Inv, Ownership, MainSchedules, Accepting, Pins, HoldsTask, HolderState,
         HolderUnique, NoWaker, CbFiberReady, Bindings, Locals, RootOnce
<1>11. QED BY <1>2, <1>3, <1>4, <1>5, <1>6, <1>7, <1>8, <1>9, <1>10 DEF Ownership

LEMMA OwnMainSchedulesRange ==
  ASSUME Inv, MainSchedulesRange
  PROVE  Ownership'
<1> DEFINE d(x) == [task |-> x, thread |-> AnyThread]
<1>0. PICK j \in Job \ posted, k \in Job \ posted :
        j # k /\ fibers' = fibers \o <<d(j), d(k)>> /\ posted' = posted \cup {j, k}
  BY DEF MainSchedulesRange
<1>1. ~Queued(j) /\ ~Held(j) /\ ~Queued(k) /\ ~Held(k)
  BY DEF Inv, TypeOK, Ownership, LiveJobs, WaitingCallbacks
<1>2. Tasks(fibers') = Tasks(fibers) \cup {j, k} /\ QueueDistinct'
  <2>1. fibers \in Seq(Entry) /\ d(j) \in Entry /\ d(k) \in Entry /\ Distinct(fibers)
    BY DEF Inv, TypeOK, Entry, Ownership, QueueDistinct
  <2>2. /\ Append(fibers, d(j)) \in Seq(Entry) /\ Distinct(Append(fibers, d(j)))
        /\ Tasks(Append(fibers, d(j))) = Tasks(fibers) \cup {j}
    BY <1>1, <2>1, TasksAppend
  <2>3. fibers' = Append(Append(fibers, d(j)), d(k))
    BY <1>0, <2>1, TasksTwo
  <2>4. d(j).task = j /\ d(k).task = k /\ k \notin Tasks(Append(fibers, d(j)))
    BY <1>0, <1>1, <2>2
  <2> HIDE DEF d
  <2>5. /\ Tasks(Append(Append(fibers, d(j)), d(k))) = Tasks(Append(fibers, d(j))) \cup {k}
        /\ Distinct(Append(Append(fibers, d(j)), d(k)))
    BY <2>1, <2>2, <2>4, TasksAppend
  <2>6. QED BY <2>2, <2>3, <2>5 DEF QueueDistinct
<1> HIDE DEF d
<1>3. posted' = posted \cup {j, k} /\ UNCHANGED <<fiberVars, localVars, done>>
  BY <1>0 DEF MainSchedulesRange
<1>4. HolderNotQueued'
  BY <1>1, <1>2, <1>3 DEF Inv, TypeOK, Ownership, HoldsTask, HolderState, HolderUnique, HolderNotQueued,
         ArmedAlone, PoolFresh, LiveJobs, WaitingCallbacks, JobsPosted, CbFiberReady, Locals
<1>5. ArmedAlone'
  BY <1>1, <1>2, <1>3 DEF Inv, TypeOK, Ownership, HoldsTask, HolderState, HolderUnique, HolderNotQueued,
         ArmedAlone, NoWaker, PoolFresh, LiveJobs, Locals, CbFiberReady
<1>6. PoolFresh'
  BY <1>1, <1>2, <1>3 DEF Inv, TypeOK, Ownership, HoldsTask, HolderState, HolderUnique, HolderNotQueued,
         ArmedAlone, PoolFresh, PoolDead, CbFiberReady, Bindings
<1>7. PoolDead'
  BY <1>1, <1>2, <1>3 DEF Inv, TypeOK, Ownership, HoldsTask, HolderState, HolderNotQueued, ArmedAlone,
         NoWaker, PoolDead, PoolFresh
<1>8. LiveJobs'
  BY <1>1, <1>2, <1>3 DEF Inv, TypeOK, Ownership, HoldsTask, HolderState, HolderNotQueued, ArmedAlone,
         PoolFresh, CbFiberReady, Bindings, LiveJobs, WaitingCallbacks, JobsPosted, Locals
<1>9. WaitingCallbacks'
  BY <1>1, <1>2, <1>3 DEF Inv, TypeOK, Ownership, HoldsTask, HolderState, HolderUnique, PoolFresh,
         CbFiberReady, Bindings, LiveJobs, WaitingCallbacks, JobsPosted, Locals
<1>10. JobsPosted'
  BY <1>1, <1>2, <1>3 DEF Inv, TypeOK, Ownership, HoldsTask, HolderState, PoolFresh, CbFiberReady, Bindings,
         LiveJobs, WaitingCallbacks, JobsPosted
<1>11. HoldsTask' /\ HolderState' /\ HolderUnique' /\ NoWaker' /\ CbFiberReady' /\ Bindings' /\ Locals' /\
      RootOnce'
  BY DEF Inv, Ownership, MainSchedulesRange, HoldsTask, HolderState, HolderUnique, NoWaker,
         CbFiberReady, Bindings, Locals, RootOnce
<1>12. QED BY <1>2, <1>4, <1>5, <1>6, <1>7, <1>8, <1>9, <1>10, <1>11 DEF Ownership

LEMMA OwnStart ==
  ASSUME Inv, Start
  PROVE  Ownership'
<1>1. HoldsTask'
  BY DEF Inv, TypeOK, Ownership, Start, HoldsTask, Locals, CbFiberReady
<1>2. HolderState'
  BY DEF Inv, TypeOK, Ownership, Start, HoldsTask, HolderState, HolderUnique, ArmedAlone,
         NoWaker, PoolFresh, HolderNotQueued, CbFiberReady, Locals
<1>3. HolderNotQueued'
  BY DEF Inv, TypeOK, Ownership, Start, HoldsTask, HolderState, HolderUnique,
         HolderNotQueued, ArmedAlone, PoolFresh, LiveJobs, WaitingCallbacks, JobsPosted,
         CbFiberReady, Locals
<1>4. ArmedAlone'
  BY DEF Inv, TypeOK, Ownership, Start, HoldsTask, HolderState, HolderUnique,
         HolderNotQueued, ArmedAlone, NoWaker, PoolFresh, LiveJobs, Locals, CbFiberReady
<1>5. CbFiberReady'
  BY DEF Inv, TypeOK, Ownership, Start, HoldsTask, HolderState, HolderUnique, PoolFresh,
         CbFiberReady, Locals
<1>6. Locals'
  BY DEF Inv, TypeOK, Ownership, Start, HoldsTask, Locals
<1>7. RootOnce'
  BY DEF Inv, TypeOK, Ownership, Start, RootOnce, Locals
<1>8. QueueDistinct' /\ HolderUnique' /\ NoWaker' /\ PoolFresh' /\ PoolDead' /\ Bindings' /\ LiveJobs' /\
      WaitingCallbacks' /\ JobsPosted'
  BY DEF Inv, Ownership, Start, QueueDistinct, HolderUnique, NoWaker, PoolFresh, PoolDead,
         Bindings, LiveJobs, WaitingCallbacks, JobsPosted
<1>9. QED BY <1>1, <1>2, <1>3, <1>4, <1>5, <1>6, <1>7, <1>8 DEF Ownership

LEMMA OwnStopBegin ==
  ASSUME Inv, StopBegin
  PROVE  Ownership'
<1>1. Locals'
  BY DEF Inv, TypeOK, Ownership, StopBegin, HoldsTask, Locals
<1>2. RootOnce'
  BY DEF Inv, TypeOK, Ownership, StopBegin, RootOnce, Locals
<1>3. QueueDistinct' /\ HoldsTask' /\ HolderState' /\ HolderUnique' /\ HolderNotQueued' /\ ArmedAlone' /\
      NoWaker' /\ PoolFresh' /\ PoolDead' /\ CbFiberReady' /\ Bindings' /\ LiveJobs' /\ WaitingCallbacks' /\
      JobsPosted'
  BY DEF Inv, Ownership, StopBegin, QueueDistinct, HoldsTask, HolderState, HolderUnique,
         HolderNotQueued, ArmedAlone, NoWaker, PoolFresh, PoolDead, CbFiberReady, Bindings,
         LiveJobs, WaitingCallbacks, JobsPosted
<1>4. QED BY <1>1, <1>2, <1>3 DEF Ownership

LEMMA OwnStopCheck ==
  ASSUME Inv, StopCheck
  PROVE  Ownership'
<1>0. ft' = ft /\ \A t \in Thread : pc'[t] = pc[t] \/ (pc[t] = "off" /\ pc'[t] = "scan")
  BY DEF Inv, TypeOK, Ownership, StopCheck, Locals
<1>1. HoldsTask'
  BY <1>0 DEF Inv, Ownership, HoldsTask
<1>2. HolderState'
  BY DEF Inv, TypeOK, Ownership, StopCheck, Stopping, HoldsTask, HolderState, HolderUnique,
         ArmedAlone, NoWaker, PoolFresh, HolderNotQueued, CbFiberReady, Locals
<1>3. HolderNotQueued'
  BY DEF Inv, TypeOK, Ownership, StopCheck, Stopping, HoldsTask, HolderState, HolderUnique,
         HolderNotQueued, ArmedAlone, PoolFresh, LiveJobs, WaitingCallbacks, JobsPosted,
         CbFiberReady, Locals
<1>4. ArmedAlone'
  BY DEF Inv, TypeOK, Ownership, StopCheck, Stopping, HoldsTask, HolderState, HolderUnique,
         HolderNotQueued, ArmedAlone, NoWaker, PoolFresh, LiveJobs, Locals, CbFiberReady
<1>5. CbFiberReady'
  BY DEF Inv, TypeOK, Ownership, StopCheck, Stopping, HoldsTask, HolderState, HolderUnique,
         PoolFresh, CbFiberReady, Locals
<1>6. Locals'
  BY DEF Inv, TypeOK, Ownership, StopCheck, Stopping, HoldsTask, Locals
<1>7. RootOnce'
  BY DEF Inv, TypeOK, Ownership, StopCheck, Stopping, RootOnce, Locals
<1>8. QueueDistinct' /\ HolderUnique' /\ NoWaker' /\ PoolFresh' /\ PoolDead' /\ Bindings' /\ LiveJobs' /\
      WaitingCallbacks' /\ JobsPosted'
  BY DEF Inv, Ownership, StopCheck, Stopping, QueueDistinct, HolderUnique, NoWaker,
         PoolFresh, PoolDead, Bindings, LiveJobs, WaitingCallbacks, JobsPosted
<1>9. QED BY <1>1, <1>2, <1>3, <1>4, <1>5, <1>6, <1>7, <1>8 DEF Ownership

LEMMA OwnCallReturns ==
  ASSUME Inv, CallReturns
  PROVE  Ownership'
<1>1. HoldsTask'
  BY DEF Inv, TypeOK, Ownership, CallReturns, HoldsTask, Locals, CbFiberReady
<1>2. HolderState'
  BY DEF Inv, TypeOK, Ownership, CallReturns, HoldsTask, HolderState, HolderUnique,
         ArmedAlone, NoWaker, PoolFresh, HolderNotQueued, CbFiberReady, Locals
<1>3. HolderNotQueued'
  BY DEF Inv, TypeOK, Ownership, CallReturns, HoldsTask, HolderState, HolderUnique,
         HolderNotQueued, ArmedAlone, PoolFresh, LiveJobs, WaitingCallbacks, JobsPosted,
         CbFiberReady, Locals
<1>4. ArmedAlone'
  BY DEF Inv, TypeOK, Ownership, CallReturns, HoldsTask, HolderState, HolderUnique,
         HolderNotQueued, ArmedAlone, NoWaker, PoolFresh, LiveJobs, Locals, CbFiberReady
<1>5. CbFiberReady'
  BY DEF Inv, TypeOK, Ownership, CallReturns, HoldsTask, HolderState, HolderUnique,
         PoolFresh, CbFiberReady, Locals
<1>6. Locals'
  BY DEF Inv, TypeOK, Ownership, CallReturns, HoldsTask, Locals
<1>7. RootOnce'
  BY DEF Inv, TypeOK, Ownership, CallReturns, RootOnce, Locals
<1>8. QueueDistinct' /\ HolderUnique' /\ NoWaker' /\ PoolFresh' /\ PoolDead' /\ Bindings' /\ LiveJobs' /\
      WaitingCallbacks' /\ JobsPosted'
  BY DEF Inv, Ownership, CallReturns, QueueDistinct, HolderUnique, NoWaker, PoolFresh,
         PoolDead, Bindings, LiveJobs, WaitingCallbacks, JobsPosted
<1>9. QED BY <1>1, <1>2, <1>3, <1>4, <1>5, <1>6, <1>7, <1>8 DEF Ownership

LEMMA OwnStopJoins ==
  ASSUME Inv, StopJoins
  PROVE  Ownership'
<1>1. HoldsTask'
  BY DEF Inv, TypeOK, Ownership, StopJoins, HoldsTask, Locals, CbFiberReady
<1>2. HolderState'
  BY DEF Inv, TypeOK, Ownership, StopJoins, HoldsTask, HolderState, HolderUnique, ArmedAlone,
         NoWaker, PoolFresh, HolderNotQueued, CbFiberReady, Locals
<1>3. HolderNotQueued'
  BY DEF Inv, TypeOK, Ownership, StopJoins, HoldsTask, HolderState, HolderUnique,
         HolderNotQueued, ArmedAlone, PoolFresh, LiveJobs, WaitingCallbacks, JobsPosted,
         CbFiberReady, Locals
<1>4. ArmedAlone'
  BY DEF Inv, TypeOK, Ownership, StopJoins, HoldsTask, HolderState, HolderUnique,
         HolderNotQueued, ArmedAlone, NoWaker, PoolFresh, LiveJobs, Locals, CbFiberReady
<1>5. CbFiberReady'
  BY DEF Inv, TypeOK, Ownership, StopJoins, HoldsTask, HolderState, HolderUnique, PoolFresh,
         CbFiberReady, Locals
<1>6. Locals'
  BY DEF Inv, TypeOK, Ownership, StopJoins, HoldsTask, Locals
<1>7. RootOnce'
  BY DEF Inv, TypeOK, Ownership, StopJoins, RootOnce, Locals
<1>8. QueueDistinct' /\ HolderUnique' /\ NoWaker' /\ PoolFresh' /\ PoolDead' /\ Bindings' /\ LiveJobs' /\
      WaitingCallbacks' /\ JobsPosted'
  BY DEF Inv, Ownership, StopJoins, QueueDistinct, HolderUnique, NoWaker, PoolFresh,
         PoolDead, Bindings, LiveJobs, WaitingCallbacks, JobsPosted
<1>9. QED BY <1>1, <1>2, <1>3, <1>4, <1>5, <1>6, <1>7, <1>8 DEF Ownership

LEMMA OwnNext ==
  ASSUME Inv, Next
  PROVE  Ownership'
BY OwnTake, OwnFindNothing, OwnResumeFiber, OwnDiscard, OwnStartCallback, OwnBodySchedules,
   OwnArm, OwnSwitchTo, OwnYieldToHold, OwnYieldToReady, OwnCbEnds,
   OwnCountDown, OwnSettle, OwnIdleEnter, OwnIdleCheck, OwnIdleLeave, OwnWake,
   OwnMainSchedules, OwnMainSchedulesRange, OwnStart, OwnStopBegin, OwnStopCheck,
   OwnCallReturns, OwnStopJoins
   DEF Next, Run, Proceed

LEMMA YieldCounted ==
  ASSUME Inv, NEW t \in Thread, MayYield(t), CountYield(t)
  PROVE  yields' \in [Job -> 0 .. MaxYield]
<1> DEFINE b == bound[ft[t]]
<1>1. yields \in [Job -> 0 .. MaxYield] /\ MaxYield \in Nat
  BY DEF Inv, TypeOK
<1>2. yields' = [yields EXCEPT ![b] = yields[b] + 1] /\ yields[b] < MaxYield
  BY DEF MayYield, CountYield
<1>3. ASSUME NEW j \in Job PROVE yields'[j] \in 0 .. MaxYield
  <2>1. CASE j = b BY <1>1, <1>2, <2>1
  <2>2. CASE j # b BY <1>1, <1>2, <2>2
  <2>3. QED BY <2>1, <2>2
<1>4. QED BY <1>1, <1>2, <1>3

LEMMA PushTyped ==
  ASSUME TypeOK, NEW x \in Task, NEW p \in Thread \cup {AnyThread}, Push(x, p)
  PROVE  fibers' \in Seq([task : Task, thread : Thread \cup {AnyThread}])
BY DEF TypeOK, Push

LEMMA TaskTyped ==
  ASSUME TypeOK, NEW i \in DOMAIN fibers
  PROVE  fibers[i].task \in Task /\ fibers[i].task \in Tasks(fibers)
<1>1. fibers \in Seq(Entry)
  BY DEF TypeOK, Entry
<1>2. fibers[i] \in Entry
  BY <1>1
<1>3. QED BY <1>2 DEF Entry, Tasks

LEMMA TypeNext ==
  ASSUME Inv, Next
  PROVE  TypeOK'
<1> USE DEF Inv, TypeOK, Ownership, HoldsTask
<1>1. ASSUME NEW t \in Thread, Take(t) PROVE TypeOK'
  <2>1. PICK i \in DOMAIN fibers : /\ fibers' = RemoveAt(fibers, i)
                                   /\ ft' = [ft EXCEPT ![t] = fibers[i].task]
    BY <1>1 DEF Take
  <2>2. fibers' \in Seq([task : Task, thread : Thread \cup {AnyThread}])
    BY <2>1, TasksRemove DEF Entry
  <2>3. fibers[i].task \in Task
    BY TaskTyped
  <2>4. QED BY <1>1, <2>1, <2>2, <2>3 DEF Take
<1>2. ASSUME NEW t \in Thread,
             FindNothing(t) \/ YieldToHold(t) \/ CountDown(t)
      PROVE  TypeOK'
  <2>1. CASE FindNothing(t)
    BY <2>1 DEF FindNothing
  <2>2. CASE YieldToHold(t)
    BY <2>2 DEF YieldToHold
  <2>3. CASE CountDown(t)
    BY <2>3 DEF CountDown
  <2>4. QED BY <1>2, <2>1, <2>2, <2>3
<1>3. ASSUME NEW t \in Thread, ResumeFiber(t) \/ Discard(t) PROVE TypeOK'
  <2>1. CASE ResumeFiber(t)
    BY <2>1 DEF ResumeFiber
  <2>2. CASE Discard(t)
    BY <2>2 DEF Discard
  <2>3. QED BY <1>3, <2>1, <2>2
<1>4. ASSUME NEW t \in Thread, StartCallback(t) PROVE TypeOK'
  BY <1>4 DEF StartCallback
<1>5. ASSUME NEW t \in Thread, BodySchedules(t) PROVE TypeOK'
  BY <1>5 DEF BodySchedules, Pins, Push
<1>6. ASSUME NEW t \in Thread, Arm(t) \/ YieldToReady(t) PROVE TypeOK'
  <2>1. yields' \in [Job -> 0 .. MaxYield]
    BY <1>6, YieldCounted DEF Arm, YieldToReady
  <2>2. CASE Arm(t)
    BY <2>1, <2>2 DEF Arm
  <2>3. CASE YieldToReady(t)
    BY <2>1, <2>3 DEF YieldToReady
  <2>4. QED BY <1>6, <2>2, <2>3
<1>7. ASSUME NEW t \in Thread, SwitchTo(t) PROVE TypeOK'
  <2>1. yields' \in [Job -> 0 .. MaxYield]
    BY <1>7, YieldCounted DEF SwitchTo
  <2>2. fibers' \in Seq([task : Task, thread : Thread \cup {AnyThread}])
    <3>1. PICK p \in Thread \cup {AnyThread} : Push(ft[t], p)
      BY <1>7 DEF SwitchTo, Pins
    <3>2. ft[t] \in Task
      BY <1>7 DEF SwitchTo
    <3>3. QED BY <3>1, <3>2, PushTyped
  <2>3. QED BY <1>7, <2>1, <2>2 DEF SwitchTo
<1>8. ASSUME NEW t \in Thread, CbEnds(t) PROVE TypeOK'
  BY <1>8 DEF CbEnds, HolderState, LiveJobs
<1>9. ASSUME NEW t \in Thread, Settle(t) PROVE TypeOK'
  <2>1. ft[t] \in Fiber
    BY <1>9 DEF Settle
  <2>2. fibers' \in Seq([task : Task, thread : Thread \cup {AnyThread}])
    BY <1>9, <2>1, PushTyped DEF Settle
  <2>3. state' \in [Fiber -> {"UNBORN", "INIT", "HOLD", "EXEC", "READY"} \cup Dead]
    BY <1>9, <2>1 DEF Settle
  <2>4. QED BY <1>9, <2>1, <2>2, <2>3 DEF Settle
<1>10. ASSUME NEW t \in Thread, IdleEnter(t) \/ IdleCheck(t) \/ IdleLeave(t) PROVE TypeOK'
  <2>1. CASE IdleEnter(t)
    BY <2>1 DEF IdleEnter
  <2>2. CASE IdleCheck(t)
    <3>1. UNCHANGED <<queueVars, controlVars, fiberVars, ft, cbFiber, idle, historyVars, failed>>
      BY <2>2 DEF IdleCheck
    <3>2. /\ idleState' \in [Thread -> {"INIT", "EXEC", "HOLD", "TERM"}]
          /\ pc' = [pc EXCEPT ![t] = "idleOut"]
      BY <2>2 DEF IdleCheck
    <3>3. QED BY <3>1, <3>2
  <2>3. CASE IdleLeave(t)
    BY <2>3 DEF IdleLeave
  <2>4. QED BY <1>10, <2>1, <2>2, <2>3
<1>11. ASSUME NEW f \in Fiber, Wake(f) PROVE TypeOK'
  BY <1>11 DEF Wake, Push
<1>12. CASE MainSchedules
  BY <1>12 DEF MainSchedules, Pins, Push
<1>13. CASE MainSchedulesRange
  BY <1>13 DEF MainSchedulesRange
<1>14. CASE Start
  <2>1. /\ pc' \in [Thread -> {"off", "scan", "settle", "nothing", "idle", "idleOut", "exit"}
                              \cup Working]
        /\ cbFiber' \in [Thread -> Fiber \cup {None}]
        /\ idleState' \in [Thread -> {"INIT", "EXEC", "HOLD", "TERM"}]
    BY <1>14 DEF Start
  <2>2. starts' \in 0 .. MaxStart /\ threads' \subseteq Worker /\ stopping' \in BOOLEAN
    <3>1. starts' = starts + 1 /\ starts < MaxStart /\ starts \in Nat /\ MaxStart \in Nat
      BY <1>14 DEF Start
    <3>2. threads' = Worker /\ stopping' = FALSE
      BY <1>14 DEF Start
    <3>3. starts' \in 0 .. MaxStart
      BY <3>1
    <3>4. QED BY <3>2, <3>3
  <2>3. failed' \in {"no", "swapIn", "reset", "start", "neverReach"} /\ control' = "started"
    BY <1>14 DEF Start
  <2>4. QED BY <1>14, <2>1, <2>2, <2>3 DEF Start
<1>15. CASE StopBegin \/ StopCheck \/ CallReturns \/ StopJoins
  <2>1. CASE StopBegin
    BY <2>1 DEF StopBegin
  <2>2. CASE StopCheck
    BY <2>2 DEF StopCheck
  <2>3. CASE CallReturns
    BY <2>3 DEF CallReturns
  <2>4. CASE StopJoins
    BY <2>4 DEF StopJoins
  <2>5. QED BY <1>15, <2>1, <2>2, <2>3, <2>4
<1>16. QED
  BY <1>1, <1>2, <1>3, <1>4, <1>5, <1>6, <1>7, <1>8, <1>9, <1>10, <1>11, <1>12, <1>13,
     <1>14, <1>15 DEF Next, Run, Proceed

LEMMA Stutter == ASSUME Inv, UNCHANGED vars PROVE Inv'
BY DEF Inv, TypeOK, Ownership, vars, QueueDistinct, HoldsTask, HolderState, HolderUnique,
       HolderNotQueued, ArmedAlone, NoWaker, PoolFresh, PoolDead, CbFiberReady, Bindings,
       LiveJobs, WaitingCallbacks, JobsPosted, Locals, RootOnce

LEMMA InitInv == Init => Inv
<1> SUFFICES ASSUME Init PROVE Inv
  OBVIOUS
<1>1. TypeOK
  <2>1. fibers \in Seq([task : Task, thread : Thread \cup {AnyThread}])
    BY DEF Init
  <2>2. yields \in [Job -> 0 .. MaxYield] /\ starts \in 0 .. MaxStart
    BY DEF Init
  <2>3. /\ pc \in [Thread -> {"off", "scan", "settle", "nothing", "idle", "idleOut", "exit"}
                             \cup Working]
        /\ ft \in [Thread -> Task \cup {None}]
        /\ cbFiber \in [Thread -> Fiber \cup {None}]
        /\ idleState \in [Thread -> {"INIT", "EXEC", "HOLD", "TERM"}]
    BY DEF Init
  <2>4. /\ state \in [Fiber -> {"UNBORN", "INIT", "HOLD", "EXEC", "READY"} \cup Dead]
        /\ bound \in [Fiber -> Job \cup {None}]
        /\ waker \in [Fiber -> {"idle", "armed", "fired"}]
    BY DEF Init
  <2>5. stopping \in BOOLEAN /\ autoStop \in BOOLEAN
    BY DEF Init
  <2>6. /\ active \in Int /\ idle \in Int /\ threads \subseteq Worker
        /\ root \in {"INIT", "EXEC", "TERM"} /\ posted \subseteq Job /\ done \subseteq Job
        /\ control \in {"created", "started", "stopping", "calling", "joining", "stopped"}
        /\ failed \in {"no", "swapIn", "reset", "start", "neverReach"}
    BY DEF Init
  <2>7. QED BY <2>1, <2>2, <2>3, <2>4, <2>5, <2>6 DEF TypeOK
<1>2. Tasks(fibers) = {} /\ QueueDistinct
  BY DEF Init, Tasks, Distinct, QueueDistinct
<1>3. Ownership
  BY <1>2 DEF Init, Ownership, HoldsTask, HolderState, HolderUnique, HolderNotQueued,
         ArmedAlone, NoWaker, PoolFresh, PoolDead, CbFiberReady, Bindings, LiveJobs,
         WaitingCallbacks, JobsPosted, Locals, RootOnce
<1>4. QED BY <1>1, <1>3 DEF Inv

LEMMA InvStep == ASSUME Inv, [Next \/ Over]_vars PROVE Inv'
BY OwnNext, TypeNext, Stutter DEF Inv, Over

-----------------------------------------------------------------------------
(* The inductive invariant holds in every reachable state: fibers and      *)
(* callbacks are where run() and schedule() can account for them.          *)
THEOREM OwnershipCorrect ==
  Spec => []Ownership
<1>1. Inv /\ [Next \/ Over]_vars => Inv'
  BY InvStep
<1>2. Inv => Ownership
  BY DEF Inv
<1>3. QED BY InitInv, <1>1, <1>2, PTL DEF Spec

(* Every variable keeps its type. *)
THEOREM TypeCorrect ==
  Spec => []TypeOK
<1>1. Inv /\ [Next \/ Over]_vars => Inv'
  BY InvStep
<1>2. Inv => TypeOK
  BY DEF Inv
<1>3. QED BY InitInv, <1>1, <1>2, PTL DEF Spec

(* A fiber or callback is never on the list twice, in the hands of two     *)
(* threads, or in both places while it could be taken from the list.       *)
THEOREM SingleOwnerCorrect ==
  Spec => []SingleOwner
<1>1. Inv /\ [Next \/ Over]_vars => Inv'
  BY InvStep
<1>2. Inv => SingleOwner
  <2> SUFFICES ASSUME Inv PROVE SingleOwner
    OBVIOUS
  <2>1. \A i, k \in DOMAIN fibers : fibers[i].task = fibers[k].task => i = k
    BY DEF Inv, Ownership, QueueDistinct, Distinct
  <2>2. \A i \in DOMAIN fibers : fibers[i].task \in Tasks(fibers) /\ fibers[i].task # None
    BY TaskTyped DEF Inv
  <2>3. QED BY <2>1, <2>2 DEF Inv, Ownership, HolderUnique, HolderNotQueued, SingleOwner
<1>3. QED BY InitInv, <1>1, <1>2, PTL DEF Spec

(* No job's function is entered twice, by one thread or by two. *)
THEOREM RunsOnceCorrect ==
  Spec => []RunsOnce
<1>1. Inv /\ [Next \/ Over]_vars => Inv'
  BY InvStep
<1>2. Inv => RunsOnce
  <2> SUFFICES ASSUME Inv, NEW t \in Thread, pc[t] \in InBody
               PROVE  /\ bound[ft[t]] \in posted \ done
                      /\ \A u \in Thread \ {t} : pc[u] \in InBody => bound[ft[u]] # bound[ft[t]]
    BY DEF RunsOnce
  <2>1. \A u \in Thread : pc[u] \in InBody =>
          ft[u] \in Fiber /\ state[ft[u]] = "EXEC" /\ bound[ft[u]] \in posted \ done
    BY DEF Inv, TypeOK, Ownership, HoldsTask, HolderState, LiveJobs
  <2>2. \A u \in Thread \ {t} : pc[u] \in InBody => ft[u] # ft[t]
    BY <2>1 DEF Inv, Ownership, HolderUnique
  <2>3. None \notin posted
    BY DEF Inv, TypeOK
  <2>4. QED BY <2>1, <2>2, <2>3 DEF Inv, Ownership, Bindings
<1>3. QED BY InitInv, <1>1, <1>2, PTL DEF Spec

(* No assertion of swapIn, reset or start() fires, and stop() never calls a *)
(* root fiber that has ended, when the scheduler does not use the caller's *)
(* thread or is started once.                                              *)
THEOREM NoAssertFailsCorrect ==
  ASSUME ~UseCaller \/ MaxStart <= 1
  PROVE  Spec => []NoAssertFails
<1>1. Inv /\ [Next \/ Over]_vars => Inv'
  BY InvStep
<1>2. ASSUME Inv, NoAssertFails, [Next \/ Over]_vars PROVE NoAssertFails'
  <2> USE <1>2 DEF NoAssertFails, Inv, TypeOK, Ownership
  <2>1. ASSUME NEW t \in Thread, ResumeFiber(t) PROVE failed' = "no"
    BY <2>1 DEF ResumeFiber, HolderState
  <2>2. ASSUME NEW t \in Thread, StartCallback(t) PROVE failed' = "no"
    <3>1. cbFiber[t] # None => state[cbFiber[t]] = "INIT"
      BY <2>2 DEF StartCallback, CbFiberReady
    <3>2. QED BY <2>2, <3>1 DEF StartCallback
  <2>3. ASSUME NEW t \in Thread, IdleEnter(t) PROVE failed' = "no"
    BY <2>3 DEF IdleEnter, Locals
  <2>4. CASE Start
    BY <2>4 DEF Start, Locals
  <2>5. CASE StopCheck
    BY <2>5 DEF StopCheck, RootOnce
  <2>6. ASSUME NEW t \in Thread,
               \/ Take(t) \/ FindNothing(t) \/ Discard(t) \/ BodySchedules(t) \/ Arm(t)
               \/ SwitchTo(t) \/ YieldToHold(t) \/ YieldToReady(t) \/ CbEnds(t)
               \/ CountDown(t) \/ Settle(t) \/ IdleCheck(t) \/ IdleLeave(t)
        PROVE  failed' = "no"
    BY <2>6 DEF Take, FindNothing, Discard, BodySchedules, Arm, SwitchTo, YieldToHold,
                YieldToReady, CbEnds, CountDown, Settle, IdleCheck, IdleLeave
  <2>7. CASE \/ \E f \in Fiber : Wake(f)
             \/ MainSchedules \/ MainSchedulesRange \/ StopBegin \/ CallReturns \/ StopJoins
    BY <2>7 DEF Wake, MainSchedules, MainSchedulesRange, StopBegin, CallReturns, StopJoins
  <2>8. CASE Over \/ UNCHANGED vars
    BY <2>8 DEF Over, vars
  <2>9. QED BY <2>1, <2>2, <2>3, <2>4, <2>5, <2>6, <2>7, <2>8 DEF Next, Run, Proceed
<1>3. Init => NoAssertFails
  BY DEF Init, NoAssertFails
<1>4. QED BY InitInv, <1>1, <1>2, <1>3, PTL DEF Spec

-----------------------------------------------------------------------------
(* A suspended fiber is within reach. *)

LEMMA SuspendedNext ==
  ASSUME Inv, Suspended, Next
  PROVE  Suspended'
<1>0. TypeOK /\ Ownership /\ QueueDistinct
  BY DEF Inv, Ownership
<1>1. ASSUME NEW t \in Thread, Take(t) PROVE Suspended'
  <2>1. PICK i \in DOMAIN fibers :
          /\ Eligible(t, fibers[i]) /\ fibers' = RemoveAt(fibers, i)
          /\ ft' = [ft EXCEPT ![t] = fibers[i].task]
    BY <1>1 DEF Take
  <2>2. /\ fibers[i].task \in Task
        /\ Tasks(fibers) = Tasks(fibers') \cup {fibers[i].task}
    BY <1>0, <2>1, Removed
  <2>3. ft[t] = None /\ pc' = [pc EXCEPT ![t] = "taken"]
    BY <1>0, <1>1 DEF Take, Ownership, HoldsTask
  <2>4. fibers[i].task \in Fiber => state[fibers[i].task] # "EXEC"
    BY <2>1 DEF Eligible
  <2>5. QED BY <1>0, <1>1, <2>1, <2>2, <2>3, <2>4 DEF Take, Suspended, TypeOK
<1>2. ASSUME NEW t \in Thread, ResumeFiber(t) PROVE Suspended'
  BY <1>0, <1>2 DEF ResumeFiber, Suspended, TypeOK, Ownership, HolderUnique
<1>3. ASSUME NEW t \in Thread, Discard(t) PROVE Suspended'
  BY <1>0, <1>3 DEF Discard, Suspended, TypeOK
<1>4. ASSUME NEW t \in Thread, StartCallback(t) PROVE Suspended'
  <2>1. PICK f \in Pool :
          /\ state[f] \in Fresh \/ f = cbFiber[t]
          /\ state' = [state EXCEPT ![f] = "EXEC"] /\ ft' = [ft EXCEPT ![t] = f]
    BY <1>0, <1>4 DEF StartCallback, Ownership, CbFiberReady
  <2>2. \A u \in Thread : ft[u] # f
    BY <1>0, <1>4, <2>1 DEF StartCallback, Ownership, CbFiberReady, PoolFresh
  <2>3. QED BY <1>0, <1>4, <2>1, <2>2 DEF StartCallback, Suspended, TypeOK
<1>5. ASSUME NEW t \in Thread, BodySchedules(t) PROVE Suspended'
  <2>1. Tasks(fibers) \subseteq Tasks(fibers')
    BY <1>0, <1>5, Pushed DEF BodySchedules, Pins, TypeOK
  <2>2. QED BY <1>5, <2>1 DEF BodySchedules, Suspended
<1>6. ASSUME NEW t \in Thread, Arm(t) PROVE Suspended'
  BY <1>0, <1>6 DEF Arm, Suspended, TypeOK
<1>7. ASSUME NEW t \in Thread, SwitchTo(t) PROVE Suspended'
  <2>1. PICK p \in Thread \cup {AnyThread} : Push(ft[t], p)
    BY <1>7 DEF SwitchTo, Pins
  <2>2. ft[t] \in Fiber
    BY <1>0, <1>7 DEF SwitchTo, Ownership, HoldsTask, TypeOK
  <2>3. Tasks(fibers') = Tasks(fibers) \cup {ft[t]}
    BY <1>0, <2>1, <2>2, Pushed
  <2>4. QED BY <1>0, <1>7, <2>3 DEF SwitchTo, Suspended, TypeOK
<1>8. ASSUME NEW t \in Thread, YieldToHold(t) \/ CountDown(t) PROVE Suspended'
  BY <1>0, <1>8 DEF YieldToHold, CountDown, Suspended, TypeOK
<1>9. ASSUME NEW t \in Thread, YieldToReady(t) \/ CbEnds(t) PROVE Suspended'
  <2>1. /\ ft[t] \in Fiber /\ ft' = ft /\ fibers' = fibers /\ waker' = waker
        /\ pc' = [pc EXCEPT ![t] = "out"]
    BY <1>0, <1>9 DEF YieldToReady, CbEnds, Ownership, HoldsTask, TypeOK
  <2>2. PICK s \in Dead \cup {"READY"} : state' = [state EXCEPT ![ft[t]] = s]
    BY <1>9 DEF YieldToReady, CbEnds
  <2>3. ASSUME NEW g \in Fiber, state'[g] \in {"HOLD", "READY"}
        PROVE  waker'[g] = "armed" \/ g \in Tasks(fibers') \/ \E u \in Thread : ft'[u] = g
    BY <1>0, <2>1, <2>2, <2>3 DEF Suspended, TypeOK
  <2>4. ASSUME NEW u \in Thread, ft'[u] \in Fiber, state'[ft'[u]] = "EXEC",
               pc'[u] \in {"armed", "switching", "out", "settle"}
        PROVE  waker'[ft'[u]] = "armed" \/ ft'[u] \in Tasks(fibers')
    BY <1>0, <2>1, <2>2, <2>4 DEF Suspended, TypeOK
  <2>5. QED BY <2>3, <2>4 DEF Suspended
<1>10. ASSUME NEW t \in Thread, Settle(t) PROVE Suspended'
  <2> DEFINE f == ft[t]
  <2>1. f \in Fiber /\ state[f] \in Dead \cup {"EXEC", "READY"}
    BY <1>0, <1>10 DEF Settle, Ownership, HoldsTask, HolderState
  <2>2. /\ Tasks(fibers) \subseteq Tasks(fibers')
        /\ state[f] = "READY" => f \in Tasks(fibers')
    BY <1>0, <1>10, <2>1, Pushed DEF Settle
  <2>3. state[f] = "EXEC" => waker[f] = "armed" \/ f \in Tasks(fibers)
    BY <1>10, <2>1 DEF Settle, Suspended
  <2>4. \A g \in Fiber \ {f} : state'[g] = state[g]
    BY <1>0, <1>10, <2>1 DEF Settle, TypeOK
  <2>5. state'[f] \in {"EXEC", "HOLD", "READY"} => state[f] \in {"EXEC", "READY"}
    BY <1>0, <1>10, <2>1 DEF Settle, TypeOK
  <2>6. /\ waker' = waker /\ pc' = [pc EXCEPT ![t] = "scan"] /\ ft' = [ft EXCEPT ![t] = None]
        /\ state'[f] # "EXEC"
    BY <1>0, <1>10, <2>1 DEF Settle, TypeOK
  <2> HIDE DEF f
  <2>7. ASSUME NEW g \in Fiber, state'[g] \in {"HOLD", "READY"}
        PROVE  waker'[g] = "armed" \/ g \in Tasks(fibers') \/ \E u \in Thread : ft'[u] = g
    BY <1>0, <2>1, <2>2, <2>3, <2>4, <2>5, <2>6, <2>7 DEF Suspended, TypeOK, f
  <2>8. ASSUME NEW u \in Thread, ft'[u] \in Fiber, state'[ft'[u]] = "EXEC",
               pc'[u] \in {"armed", "switching", "out", "settle"}
        PROVE  waker'[ft'[u]] = "armed" \/ ft'[u] \in Tasks(fibers')
    BY <1>0, <2>1, <2>2, <2>4, <2>6, <2>8 DEF Suspended, TypeOK, f
  <2>9. QED BY <2>7, <2>8 DEF Suspended
<1>11. ASSUME NEW f \in Fiber, Wake(f) PROVE Suspended'
  <2>1. Tasks(fibers') = Tasks(fibers) \cup {f}
    BY <1>0, <1>11, Pushed DEF Wake
  <2>2. QED BY <1>0, <1>11, <2>1 DEF Wake, Suspended, TypeOK
<1>12. CASE MainSchedules
  <2>1. Tasks(fibers) \subseteq Tasks(fibers')
    BY <1>0, <1>12, Pushed DEF MainSchedules, Pins, TypeOK
  <2>2. QED BY <1>12, <2>1 DEF MainSchedules, Suspended
<1>13. CASE MainSchedulesRange
  <2>1. Tasks(fibers) \subseteq Tasks(fibers')
    <3>1. PICK d \in Entry, e \in Entry : fibers' = fibers \o <<d, e>>
      BY <1>13 DEF MainSchedulesRange, Entry
    <3>2. fibers \in Seq(Entry)
      BY <1>0 DEF TypeOK, Entry
    <3>3. fibers' = Append(Append(fibers, d), e)
      BY <3>1, <3>2, TasksTwo
    <3>4. /\ Append(fibers, d) \in Seq(Entry)
          /\ Tasks(fibers) \subseteq Tasks(Append(fibers, d))
      BY <3>2, TasksAppend
    <3>5. Tasks(Append(fibers, d)) \subseteq Tasks(Append(Append(fibers, d), e))
      BY <3>4, TasksAppend
    <3>6. QED BY <3>3, <3>4, <3>5
  <2>2. UNCHANGED <<state, waker, ft, pc>>
    BY <1>13 DEF MainSchedulesRange
  <2>3. QED BY <2>1, <2>2 DEF Suspended
<1>14. CASE Start \/ StopJoins
  <2>1. \A t \in Thread : ft[t] = None
    BY <1>0, <1>14 DEF Start, StopJoins, Ownership, Locals, HoldsTask
  <2>2. QED BY <1>0, <1>14, <2>1 DEF Start, StopJoins, Suspended
<1>15. CASE StopCheck \/ CallReturns
  BY <1>0, <1>15 DEF StopCheck, CallReturns, Suspended, TypeOK
<1>16. ASSUME NEW t \in Thread,
              FindNothing(t) \/ IdleEnter(t) \/ IdleCheck(t) \/ IdleLeave(t)
       PROVE  Suspended'
  BY <1>0, <1>16 DEF FindNothing, IdleEnter, IdleCheck, IdleLeave, Suspended, TypeOK
<1>17. CASE StopBegin
  BY <1>17 DEF StopBegin, Suspended
<1>18. QED
  BY <1>1, <1>2, <1>3, <1>4, <1>5, <1>6, <1>7, <1>8, <1>9, <1>10, <1>11, <1>12, <1>13, <1>14,
     <1>15, <1>16, <1>17 DEF Next, Run, Proceed

(* run() never lets go of the last pointer to a suspended callback's fiber, *)
(* so ~Fiber never destroys a stack that has still to be resumed.           *)
THEOREM NoneDroppedCorrect ==
  Spec => []NoneDropped
<1>1. Inv /\ [Next \/ Over]_vars => Inv'
  BY InvStep
<1>2. Inv /\ Suspended /\ [Next \/ Over]_vars => Suspended'
  <2>1. UNCHANGED vars /\ Suspended => Suspended'
    BY DEF vars, Suspended
  <2>2. QED BY SuspendedNext, <2>1 DEF Over
<1>3. Init => Suspended
  BY DEF Init, Suspended
<1>4. Suspended => NoneDropped
  BY DEF Suspended, NoneDropped, Tasks
<1>5. QED BY InitInv, <1>1, <1>2, <1>3, <1>4, PTL DEF Spec

-----------------------------------------------------------------------------
(* The counters count threads. *)

(* Named, so that the leaves below treat them as whole terms. *)
Inc(n) == n + 1
Dec(n) == n - 1

Where(T, f, P) == {u \in T : f[u] \in P}

LEMMA ThreadsFinite == IsFiniteSet(Thread)
<1>1. IsFiniteSet({Caller})
  BY FS_Singleton
<1>2. IsFiniteSet(Worker \cup {Caller})
  BY <1>1, FiniteThreads, FS_Union
<1>3. QED BY <1>2, FS_Subset

Idle == {"idle", "idleOut"}
CountersHold ==
  /\ active = Cardinality(Where(Thread, pc, Working))
  /\ idle = Cardinality(Where(Thread, pc, Idle))

(* A step that takes one thread from one point of run() to another. *)
LEMMA CountersStep ==
  ASSUME TypeOK, NEW t \in Thread, NEW x, pc' = [pc EXCEPT ![t] = x], NEW P
  PROVE  /\ (pc[t] \in P <=> x \in P) =>
              Cardinality(Where(Thread, pc', P)) = Cardinality(Where(Thread, pc, P))
         /\ pc[t] \notin P /\ x \in P =>
              Cardinality(Where(Thread, pc', P)) = Inc(Cardinality(Where(Thread, pc, P)))
         /\ pc[t] \in P /\ x \notin P =>
              Cardinality(Where(Thread, pc', P)) = Dec(Cardinality(Where(Thread, pc, P)))
<1> HIDE DEF Thread
<1>1. pc'[t] = x /\ \A u \in Thread \ {t} : pc'[u] = pc[u]
  BY DEF TypeOK
<1> DEFINE A == Where(Thread, pc, P)
           B == Where(Thread, pc', P)
<1>2. IsFiniteSet(A)
  <2>1. A \in SUBSET Thread
    BY DEF Where
  <2>2. QED BY <2>1, ThreadsFinite, FS_Subset
<1>3. (pc[t] \in P <=> x \in P) => B = A
  BY <1>1 DEF Where
<1>4. pc[t] \notin P /\ x \in P => B = A \cup {t} /\ t \notin A
  BY <1>1 DEF Where
<1>5. pc[t] \in P /\ x \notin P => B = A \ {t} /\ t \in A
  BY <1>1 DEF Where
<1> HIDE DEF A, B
<1>6. /\ (pc[t] \in P <=> x \in P) => Cardinality(B) = Cardinality(A)
      /\ pc[t] \notin P /\ x \in P => Cardinality(B) = Inc(Cardinality(A))
      /\ pc[t] \in P /\ x \notin P => Cardinality(B) = Dec(Cardinality(A))
  BY <1>2, <1>3, <1>4, <1>5, FS_AddElement, FS_RemoveElement DEF Inc, Dec
<1>7. QED BY <1>6 DEF A, B

(* The three ways in which a step of run() treats the counters. *)
LEMMA CountersKept ==
  ASSUME TypeOK, CountersHold, NEW t \in Thread, NEW x, pc' = [pc EXCEPT ![t] = x],
         pc[t] \in Working <=> x \in Working,
         pc[t] \in Idle <=> x \in Idle,
         active' = active, idle' = idle
  PROVE  CountersHold'
BY CountersStep DEF CountersHold

LEMMA CountersNext ==
  ASSUME Inv, CountersHold, Next
  PROVE  CountersHold'
<1>0. TypeOK
  BY DEF Inv
<1>1. ASSUME NEW t \in Thread, Take(t) PROVE CountersHold'
  <2>1. pc[t] = "scan" /\ pc' = [pc EXCEPT ![t] = "taken"] /\ active' = Inc(active) /\ idle' = idle
    BY <1>1 DEF Take, Inc
  <2>2. /\ pc[t] \notin Working /\ "taken" \in Working
        /\ pc[t] \notin Idle /\ "taken" \notin Idle
    BY <2>1 DEF Idle
  <2> HIDE DEF Thread, Working
  <2>3. QED BY <1>0, <2>1, <2>2, CountersStep DEF CountersHold
<1>2. ASSUME NEW t \in Thread, FindNothing(t) PROVE CountersHold'
  <2>1. PICK x \in {"exit", "nothing"} : pc' = [pc EXCEPT ![t] = x]
    BY <1>2 DEF FindNothing
  <2>2. QED BY <1>0, <1>2, <2>1, CountersKept DEF Idle, FindNothing
<1>3. ASSUME NEW t \in Thread, ResumeFiber(t) \/ StartCallback(t) PROVE CountersHold'
  <2>1. pc[t] = "taken" /\ pc' = [pc EXCEPT ![t] = "body"] /\ active' = active /\ idle' = idle
    BY <1>3 DEF ResumeFiber, StartCallback
  <2>2. QED BY <1>0, <2>1, CountersKept DEF Idle
<1>4. ASSUME NEW t \in Thread, Discard(t) PROVE CountersHold'
  <2>1. pc[t] = "taken" /\ pc' = [pc EXCEPT ![t] = "scan"] /\ active' = Dec(active) /\ idle' = idle
    BY <1>4 DEF Discard, Dec
  <2>2. /\ pc[t] \in Working /\ "scan" \notin Working
        /\ pc[t] \notin Idle /\ "scan" \notin Idle
    BY <2>1 DEF Idle
  <2> HIDE DEF Thread, Working
  <2>3. QED BY <1>0, <2>1, <2>2, CountersStep DEF CountersHold
<1>5. ASSUME NEW t \in Thread,
             \/ Arm(t) \/ SwitchTo(t) \/ YieldToHold(t) \/ YieldToReady(t)
             \/ CbEnds(t)
      PROVE  CountersHold'
  <2>1. PICK x \in {"armed", "switching", "out"} :
          pc[t] \in InBody /\ pc' = [pc EXCEPT ![t] = x] /\ active' = active /\ idle' = idle
    BY <1>5 DEF Arm, SwitchTo, YieldToHold, YieldToReady, CbEnds
  <2>2. QED BY <1>0, <2>1, CountersKept DEF Idle
<1>6. ASSUME NEW t \in Thread, CountDown(t) PROVE CountersHold'
  <2>1. pc[t] = "out" /\ pc' = [pc EXCEPT ![t] = "settle"] /\ active' = Dec(active) /\ idle' = idle
    BY <1>6 DEF CountDown, Dec
  <2>2. /\ pc[t] \in Working /\ "settle" \notin Working
        /\ pc[t] \notin Idle /\ "settle" \notin Idle
    BY <2>1 DEF Idle
  <2> HIDE DEF Thread, Working
  <2>3. QED BY <1>0, <2>1, <2>2, CountersStep DEF CountersHold
<1>7. ASSUME NEW t \in Thread, Settle(t) PROVE CountersHold'
  <2>1. pc[t] = "settle" /\ pc' = [pc EXCEPT ![t] = "scan"] /\ active' = active /\ idle' = idle
    BY <1>7 DEF Settle
  <2>2. QED BY <1>0, <2>1, CountersKept DEF Idle
<1>8. ASSUME NEW t \in Thread, IdleEnter(t) PROVE CountersHold'
  <2>1. pc[t] = "nothing" /\ pc' = [pc EXCEPT ![t] = "idle"] /\ active' = active /\ idle' = Inc(idle)
    BY <1>8 DEF IdleEnter, Inc
  <2>2. /\ pc[t] \notin Working /\ "idle" \notin Working
        /\ pc[t] \notin Idle /\ "idle" \in Idle
    BY <2>1 DEF Idle
  <2> HIDE DEF Thread, Working
  <2>3. QED BY <1>0, <2>1, <2>2, CountersStep DEF CountersHold
<1>9. ASSUME NEW t \in Thread, IdleCheck(t) PROVE CountersHold'
  BY <1>0, <1>9, CountersKept DEF Idle, IdleCheck
<1>10. ASSUME NEW t \in Thread, IdleLeave(t) PROVE CountersHold'
  <2>1. pc[t] = "idleOut" /\ pc' = [pc EXCEPT ![t] = "scan"] /\ active' = active /\ idle' = Dec(idle)
    BY <1>10 DEF IdleLeave, Dec
  <2>2. /\ pc[t] \notin Working /\ "scan" \notin Working
        /\ pc[t] \in Idle /\ "scan" \notin Idle
    BY <2>1 DEF Idle
  <2> HIDE DEF Thread, Working
  <2>3. QED BY <1>0, <2>1, <2>2, CountersStep DEF CountersHold
<1>11. ASSUME UNCHANGED <<pc, active, idle>> PROVE CountersHold'
  BY <1>11 DEF CountersHold, Idle, Where
<1>12. ASSUME NEW t \in Thread, BodySchedules(t) PROVE CountersHold'
  BY <1>11, <1>12 DEF BodySchedules
<1>13. CASE (\E f \in Fiber : Wake(f)) \/ MainSchedules \/ MainSchedulesRange \/ StopBegin
  BY <1>11, <1>13 DEF Wake, MainSchedules, MainSchedulesRange, StopBegin
<1>14. CASE Start
  <2>1. \A t \in Thread : pc[t] = "off" /\ pc'[t] \in {"off", "scan"}
    BY <1>14 DEF Start, Inv, TypeOK, Ownership, Locals
  <2>2. /\ Where(Thread, pc', Working) = Where(Thread, pc, Working)
        /\ Where(Thread, pc', Idle) = Where(Thread, pc, Idle)
    BY <2>1 DEF Idle, Where
  <2>3. QED BY <1>14, <2>2 DEF Start, CountersHold
<1>15. CASE StopCheck
  <2>1. CASE UNCHANGED pc
    BY <1>11, <1>15, <2>1 DEF StopCheck
  <2>2. CASE UseCaller /\ pc' = [pc EXCEPT ![Caller] = "scan"]
    <3>1. Caller \in Thread /\ pc[Caller] = "off"
      BY <1>15, <2>2 DEF StopCheck, Inv, Ownership, Locals
    <3>2. QED BY <1>0, <1>15, <2>2, <3>1, CountersKept DEF Idle, StopCheck
  <2>3. QED BY <1>15, <2>1, <2>2 DEF StopCheck
<1>16. CASE CallReturns
  <2>1. CASE Caller \in Thread
    BY <1>0, <1>16, <2>1, CountersKept DEF Idle, CallReturns
  <2>2. CASE Caller \notin Thread
    BY <1>0, <1>11, <1>16, <2>2 DEF CallReturns, TypeOK
  <2>3. QED BY <2>1, <2>2
<1>17. CASE StopJoins
  <2>1. \A t \in Thread : pc[t] \in {"off", "exit"} /\ pc'[t] = "off"
    BY <1>17 DEF StopJoins, Inv, TypeOK, Ownership, Locals
  <2>2. /\ Where(Thread, pc', Working) = Where(Thread, pc, Working)
        /\ Where(Thread, pc', Idle) = Where(Thread, pc, Idle)
    BY <2>1 DEF Idle, Where
  <2>3. QED BY <1>17, <2>2 DEF StopJoins, CountersHold
<1>18. QED
  BY <1>1, <1>2, <1>3, <1>4, <1>5, <1>6, <1>7, <1>8, <1>9, <1>10, <1>12, <1>13, <1>14,
     <1>15, <1>16, <1>17 DEF Next, Run, Proceed

(* m_activeThreadCount and m_idleThreadCount, moved outside m_mutex, are    *)
(* exact counts of the threads at work and of the threads in their idle    *)
(* fiber at every moment, so neither is ever negative (they are unsigned). *)
THEOREM CountersCorrect ==
  Spec => []Counters
<1>1. Inv /\ [Next \/ Over]_vars => Inv'
  BY InvStep
<1>2. Inv /\ CountersHold /\ [Next \/ Over]_vars => CountersHold'
  <2>1. UNCHANGED vars /\ CountersHold => CountersHold'
    BY DEF vars, CountersHold
  <2>2. QED BY CountersNext, <2>1 DEF Over
<1>3. Init => CountersHold
  <2>1. Init => Where(Thread, pc, Working) = {} /\ Where(Thread, pc, Idle) = {}
    BY DEF Init, Idle, Where
  <2>2. QED BY <2>1, FS_EmptySet DEF Init, CountersHold
<1>4. CountersHold => Counters
  BY DEF CountersHold, Counters, Idle, Where
<1>5. QED BY InitInv, <1>1, <1>2, <1>3, <1>4, PTL DEF Spec

-----------------------------------------------------------------------------
(* stop() drains the list.                                                  *)

LEMMA EntryQueued ==
  ASSUME TypeOK, NEW e \in Entries(fibers)
  PROVE  e \in Entry /\ e.task \in Task /\ e.thread \in Thread \cup {AnyThread} /\ Queued(e.task)
<1>1. fibers \in Seq(Entry)
  BY DEF TypeOK, Entry
<1>2. PICK i \in DOMAIN fibers : e = fibers[i]
  BY DEF Entries
<1>3. fibers[i] \in Entry
  BY <1>1
<1>4. QED BY <1>2, <1>3 DEF Entry, Tasks

LEMMA EntriesAppend ==
  ASSUME NEW q \in Seq(Entry), NEW e \in Entry
  PROVE  Append(q, e) \in Seq(Entry) /\ Entries(Append(q, e)) = Entries(q) \cup {e}
<1> DEFINE r == Append(q, e)
<1>1. /\ r \in Seq(Entry) /\ DOMAIN r = 1 .. Len(q) + 1 /\ DOMAIN q = 1 .. Len(q)
      /\ \A i \in 1 .. Len(q) : r[i] = q[i]
      /\ r[Len(q) + 1] = e /\ Len(q) \in Nat
  OBVIOUS
<1> HIDE DEF r
<1>2. \A i \in DOMAIN r : i \in DOMAIN q \/ i = Len(q) + 1
  BY <1>1
<1>3. ASSUME NEW x \in Entries(r) PROVE x \in Entries(q) \cup {e}
  BY <1>1, <1>2 DEF Entries
<1>4. ASSUME NEW x \in Entries(q) \cup {e} PROVE x \in Entries(r)
  BY <1>1 DEF Entries
<1>5. QED BY <1>1, <1>3, <1>4 DEF r

LEMMA EntriesPushed ==
  ASSUME TypeOK, NEW x \in Task, NEW p \in Thread \cup {AnyThread}, Push(x, p)
  PROVE  Entries(fibers') = Entries(fibers) \cup {[task |-> x, thread |-> p]}
<1>1. fibers \in Seq(Entry) /\ [task |-> x, thread |-> p] \in Entry
  BY DEF TypeOK, Entry
<1>2. QED BY <1>1, EntriesAppend DEF Push

LEMMA EntriesRemoved ==
  ASSUME TypeOK, QueueDistinct, NEW i \in DOMAIN fibers, fibers' = RemoveAt(fibers, i)
  PROVE  /\ Entries(fibers') \subseteq Entries(fibers)
         /\ \A e \in Entries(fibers') : e.task # fibers[i].task
<1>1. fibers \in Seq(Entry)
  BY DEF TypeOK, Entry
<1>2. /\ fibers' \in Seq(Entry) /\ Len(fibers') = Len(fibers) - 1
      /\ \A j \in 1 .. Len(fibers) - 1 :
           fibers'[j] = IF j < i THEN fibers[j] ELSE fibers[j + 1]
  BY <1>1, RemoveAtFacts
<1>3. fibers[i].task \notin Tasks(fibers')
  BY Removed
<1>4. ASSUME NEW j \in DOMAIN fibers' PROVE fibers'[j] \in Entries(fibers)
  <2>1. Len(fibers) \in Nat /\ j \in 1 .. Len(fibers) - 1 /\ DOMAIN fibers = 1 .. Len(fibers)
    BY <1>1, <1>2, <1>4
  <2>2. j \in DOMAIN fibers /\ j + 1 \in DOMAIN fibers
    BY <2>1
  <2>3. fibers'[j] = fibers[j] \/ fibers'[j] = fibers[j + 1]
    BY <1>2, <2>1
  <2>4. QED BY <2>2, <2>3 DEF Entries
<1>5. QED BY <1>3, <1>4 DEF Entries, Tasks

(* What a step does to the list: it takes one task off it or adds entries. *)
LEMMA RangeAdded ==
  ASSUME TypeOK, MainSchedulesRange
  PROVE  \E j, k \in Job \ posted :
           /\ j # k
           /\ Entries(fibers') = Entries(fibers) \cup {[task |-> j, thread |-> AnyThread],
                                                       [task |-> k, thread |-> AnyThread]}
           /\ Tasks(fibers') = Tasks(fibers) \cup {j, k}
           /\ posted' = posted \cup {j, k}
<1>1. PICK j \in Job \ posted, k \in Job \ posted :
        /\ j # k
        /\ fibers' = fibers \o <<[task |-> j, thread |-> AnyThread],
                                 [task |-> k, thread |-> AnyThread]>>
        /\ posted' = posted \cup {j, k}
  BY DEF MainSchedulesRange
<1> DEFINE d == [task |-> j, thread |-> AnyThread]
           e == [task |-> k, thread |-> AnyThread]
<1>2. d \in Entry /\ e \in Entry /\ fibers \in Seq(Entry) /\ d.task = j /\ e.task = k
  BY DEF TypeOK, Entry
<1> HIDE DEF d, e
<1>3. fibers' = Append(Append(fibers, d), e)
  BY <1>1, <1>2, TasksTwo DEF d, e
<1>4. /\ Append(fibers, d) \in Seq(Entry)
      /\ Entries(Append(fibers, d)) = Entries(fibers) \cup {d}
      /\ Tasks(Append(fibers, d)) = Tasks(fibers) \cup {j}
  BY <1>2, EntriesAppend, TasksAppend
<1>5. /\ Entries(fibers') = Entries(fibers) \cup {d} \cup {e}
      /\ Tasks(fibers') = Tasks(fibers) \cup {j} \cup {k}
  BY <1>2, <1>3, <1>4, EntriesAppend, TasksAppend
<1>6. QED BY <1>1, <1>5 DEF d, e

LEMMA ExecHeldNext ==
  ASSUME Inv, ExecHeld, Next
  PROVE  ExecHeld'
<1> USE DEF ExecHeld
<1>0. TypeOK /\ Ownership
  BY DEF Inv
<1>1. ASSUME NEW t \in Thread, Take(t) PROVE ExecHeld'
  <2>1. PICK x : ft' = [ft EXCEPT ![t] = x]
    BY <1>1 DEF Take
  <2>2. ft[t] \notin Fiber /\ pc[t] = "scan"
    BY <1>0, <1>1 DEF Take, Ownership, HoldsTask
  <2>3. QED BY <1>0, <1>1, <2>1, <2>2 DEF Take, TypeOK
<1>2. ASSUME NEW t \in Thread, ResumeFiber(t) PROVE ExecHeld'
  BY <1>0, <1>2 DEF ResumeFiber, TypeOK
<1>3. ASSUME NEW t \in Thread, Discard(t) PROVE ExecHeld'
  BY <1>0, <1>3 DEF Discard, TypeOK
<1>4. ASSUME NEW t \in Thread, StartCallback(t) PROVE ExecHeld'
  BY <1>0, <1>4 DEF StartCallback, TypeOK
<1>5. ASSUME NEW t \in Thread,
             BodySchedules(t) \/ Arm(t) \/ SwitchTo(t) \/ YieldToHold(t) \/ CountDown(t)
      PROVE  ExecHeld'
  <2>1. /\ UNCHANGED <<state, ft>> /\ pc[t] \in InBody \cup {"out"}
        /\ pc' = pc \/ \E p \in InBody \cup {"out", "settle"} : pc' = [pc EXCEPT ![t] = p]
    BY <1>5 DEF BodySchedules, Arm, SwitchTo, YieldToHold, CountDown
  <2>2. \A u \in Thread : pc[u] \in InBody \cup {"out", "settle"} =>
                             pc'[u] \in InBody \cup {"out", "settle"}
    BY <1>0, <2>1 DEF TypeOK
  <2>3. state' = state /\ ft' = ft
    BY <2>1
  <2>4. ASSUME NEW f \in Fiber, state'[f] = "EXEC"
        PROVE  \E u \in Thread : ft'[u] = f /\ pc'[u] \in InBody \cup {"out", "settle"}
    <3>1. PICK u \in Thread : ft[u] = f /\ pc[u] \in InBody \cup {"out", "settle"}
      BY <2>3, <2>4
    <3>2. QED BY <2>2, <2>3, <3>1
  <2>5. QED BY <2>4
<1>6. ASSUME NEW t \in Thread, YieldToReady(t) \/ CbEnds(t) PROVE ExecHeld'
  BY <1>0, <1>6 DEF YieldToReady, CbEnds, TypeOK
<1>7. ASSUME NEW t \in Thread, Settle(t) PROVE ExecHeld'
  <2>1. ft[t] \in Fiber /\ state[ft[t]] \in Dead \cup {"EXEC", "READY"}
    BY <1>0, <1>7 DEF Settle, Ownership, HoldsTask, HolderState
  <2>2. state'[ft[t]] # "EXEC" /\ \A f \in Fiber \ {ft[t]} : state'[f] = state[f]
    BY <1>0, <1>7, <2>1 DEF Settle, TypeOK
  <2>3. pc' = [pc EXCEPT ![t] = "scan"] /\ ft' = [ft EXCEPT ![t] = None]
    BY <1>7 DEF Settle
  <2>4. \A u \in Thread \ {t} : pc'[u] = pc[u] /\ ft'[u] = ft[u]
    BY <1>0, <2>3 DEF TypeOK
  <2>5. ASSUME NEW f \in Fiber, state'[f] = "EXEC"
        PROVE  \E u \in Thread : ft'[u] = f /\ pc'[u] \in InBody \cup {"out", "settle"}
    <3>1. f # ft[t] /\ state[f] = "EXEC"
      BY <2>2, <2>5
    <3>2. PICK u \in Thread : ft[u] = f /\ pc[u] \in InBody \cup {"out", "settle"}
      BY <3>1
    <3>3. QED BY <2>4, <3>1, <3>2
  <2>6. QED BY <2>5
<1>8. ASSUME NEW t \in Thread,
             FindNothing(t) \/ IdleEnter(t) \/ IdleCheck(t) \/ IdleLeave(t)
      PROVE  ExecHeld'
  BY <1>0, <1>8 DEF FindNothing, IdleEnter, IdleCheck, IdleLeave, TypeOK
<1>9. CASE Start \/ StopJoins
  <2>1. \A t \in Thread : ft[t] = None
    BY <1>0, <1>9 DEF Start, StopJoins, Ownership, Locals, HoldsTask
  <2>2. QED BY <1>0, <1>9, <2>1 DEF Start, StopJoins
<1>10. CASE StopCheck \/ CallReturns
  BY <1>0, <1>10 DEF StopCheck, CallReturns, TypeOK, Ownership, Locals
<1>11. CASE \/ \E f \in Fiber : Wake(f)
            \/ MainSchedules \/ MainSchedulesRange \/ StopBegin
  BY <1>11 DEF Wake, MainSchedules, MainSchedulesRange, StopBegin
<1>12. QED
  BY <1>1, <1>2, <1>3, <1>4, <1>5, <1>6, <1>7, <1>8, <1>9, <1>10, <1>11 DEF Next, Run, Proceed

LEMMA UserDoneNext ==
  ASSUME MainFuncCallsCb, Inv, UserDone, Next
  PROVE  UserDone'
<1> USE DEF UserDone
<1>0. TypeOK /\ Ownership
  BY DEF Inv
<1>1. ASSUME NEW t \in Thread, CbEnds(t) PROVE UserDone'
  <2>1. ft[t] \in Fiber /\ state[ft[t]] = "EXEC"
    BY <1>0, <1>1 DEF CbEnds, Ownership, HoldsTask, HolderState, TypeOK
  <2>2. ft[t] \in UserFiber => bound[ft[t]] = ft[t]
    BY <1>0, <2>1 DEF Ownership, Bindings, LiveJobs, TypeOK
  <2>3. QED BY <1>0, <1>1, <2>1, <2>2 DEF CbEnds, TypeOK
<1>2. ASSUME NEW t \in Thread, Settle(t) PROVE UserDone'
  <2>1. ft[t] \in Fiber
    BY <1>0, <1>2 DEF Settle, Ownership, HoldsTask
  <2>2. \A f \in Fiber : state'[f] \in Dead => state[f] \in Dead
    BY <1>0, <1>2, <2>1 DEF Settle, TypeOK
  <2>3. QED BY <1>2, <2>2 DEF Settle
<1>3. ASSUME NEW t \in Thread, ResumeFiber(t) \/ StartCallback(t) \/ YieldToReady(t)
      PROVE UserDone'
  BY <1>0, <1>3 DEF ResumeFiber, StartCallback, YieldToReady, TypeOK
<1>4. CASE UNCHANGED <<state, done>>
  BY <1>4
<1>5. QED
  BY <1>1, <1>2, <1>3, <1>4 DEF Next, Run, Proceed, Take, FindNothing, Discard, BodySchedules,
     Arm, SwitchTo, YieldToHold, CountDown, IdleEnter, IdleCheck, IdleLeave, Wake, MainSchedules,
     MainSchedulesRange, Start, StopBegin, StopCheck, CallReturns, StopJoins

LEMMA WorkersRunNext ==
  ASSUME MainFuncCallsCb, Inv, WorkersRun, Next
  PROVE  WorkersRun'
<1> USE DEF WorkersRun
<1>0. TypeOK /\ Ownership
  BY DEF Inv
<1>1. ASSUME NEW t \in Thread, Run(t) PROVE WorkersRun'
  <2>1. UNCHANGED <<control, stopping>>
    BY <1>1 DEF Run, Take, FindNothing, ResumeFiber, Discard, StartCallback, BodySchedules, Arm,
       SwitchTo, YieldToHold, YieldToReady, CbEnds, CountDown, Settle, IdleEnter, IdleCheck,
       IdleLeave
  <2>2. CASE FindNothing(t)
    BY <1>0, <2>1, <2>2 DEF FindNothing, TypeOK
  <2>3. CASE IdleEnter(t) \/ IdleCheck(t) \/ IdleLeave(t)
    BY <1>0, <2>1, <2>3 DEF IdleEnter, IdleCheck, IdleLeave, Stopping, TypeOK
  <2>4. CASE idleState' = idleState /\ \E p : p \notin {"off", "exit"} /\ pc' = [pc EXCEPT ![t] = p]
    BY <1>0, <2>1, <2>4 DEF TypeOK
  <2>5. CASE BodySchedules(t)
    BY <1>0, <2>1, <2>5 DEF BodySchedules
  <2>6. QED
    BY <1>1, <2>2, <2>3, <2>4, <2>5 DEF Run, Take, ResumeFiber, Discard, StartCallback,
       Arm, SwitchTo, YieldToHold, YieldToReady, CbEnds, CountDown, Settle
<1>2. CASE Start
  BY <1>0, <1>2 DEF Start, TypeOK
<1>3. CASE StopBegin \/ StopCheck \/ CallReturns \/ StopJoins
  BY <1>3 DEF StopBegin, StopCheck, CallReturns, StopJoins
<1>4. CASE (\E f \in Fiber : Wake(f)) \/ MainSchedules \/ MainSchedulesRange
  BY <1>4 DEF Wake, MainSchedules, MainSchedulesRange
<1>5. QED BY <1>1, <1>2, <1>3, <1>4 DEF Next, Proceed

LEMMA PinnedOwnNext ==
  ASSUME Inv, PinnedOwn, ~PinAnywhere, Next
  PROVE  PinnedOwn'
<1> USE DEF PinnedOwn
<1>0. TypeOK /\ Ownership /\ QueueDistinct
  BY DEF Inv, Ownership
<1>1. ASSUME NEW t \in Thread, Take(t) PROVE PinnedOwn'
  <2>1. PICK i \in DOMAIN fibers :
          fibers' = RemoveAt(fibers, i) /\ ft' = [ft EXCEPT ![t] = fibers[i].task]
    BY <1>1 DEF Take
  <2>2. /\ Entries(fibers') \subseteq Entries(fibers)
        /\ \A e \in Entries(fibers') : e.task # fibers[i].task
    BY <1>0, <2>1, EntriesRemoved
  <2>3. QED BY <1>0, <2>1, <2>2 DEF TypeOK
<1>2. ASSUME NEW t \in Thread, Discard(t) PROVE PinnedOwn'
  <2>1. \A e \in Entries(fibers) : e.task # None
    BY <1>0, EntryQueued
  <2>2. QED BY <1>0, <1>2, <2>1 DEF Discard, TypeOK
<1>3. ASSUME NEW t \in Thread, StartCallback(t) PROVE PinnedOwn'
  <2>1. PICK f \in Pool : state[f] \in Fresh /\ ft' = [ft EXCEPT ![t] = f]
    BY <1>0, <1>3 DEF StartCallback, Ownership, CbFiberReady
  <2>2. ~Queued(f)
    BY <1>0, <2>1 DEF Ownership, PoolFresh
  <2>3. \A e \in Entries(fibers) : e.task # f
    BY <1>0, <2>2, EntryQueued
  <2>4. QED BY <1>0, <1>3, <2>1, <2>3 DEF StartCallback, TypeOK
<1>4. ASSUME NEW t \in Thread, BodySchedules(t) PROVE PinnedOwn'
  <2>1. PICK j \in Job \ posted, p \in Pins(t) : Push(j, p)
    BY <1>4 DEF BodySchedules
  <2>2. Entries(fibers') = Entries(fibers) \cup {[task |-> j, thread |-> p]}
    BY <1>0, <2>1, EntriesPushed DEF Pins
  <2>3. \A u \in Thread : ft[u] # j
    BY <1>0, <2>1 DEF Ownership, LiveJobs, WaitingCallbacks
  <2>4. QED BY <1>4, <2>2, <2>3 DEF BodySchedules
<1>5. ASSUME NEW t \in Thread, SwitchTo(t) PROVE PinnedOwn'
  <2>1. PICK p \in {AnyThread, t} : Push(ft[t], p)
    BY <1>5 DEF SwitchTo, Pins
  <2>2. ft[t] \in Fiber /\ state[ft[t]] = "EXEC"
    BY <1>0, <1>5 DEF SwitchTo, Ownership, HoldsTask, HolderState, TypeOK
  <2>3. Entries(fibers') = Entries(fibers) \cup {[task |-> ft[t], thread |-> p]}
    BY <1>0, <2>1, <2>2, EntriesPushed
  <2>4. \A u \in Thread : ft[u] = ft[t] => u = t
    BY <1>0, <2>2 DEF Ownership, HolderUnique
  <2>5. QED BY <1>5, <2>3, <2>4 DEF SwitchTo
<1>6. ASSUME NEW t \in Thread, Settle(t) PROVE PinnedOwn'
  <2>1. ft[t] \in Fiber
    BY <1>0, <1>6 DEF Settle, Ownership, HoldsTask
  <2>2. \A e \in Entries(fibers') : e \in Entries(fibers) \/ e.thread = AnyThread
    BY <1>0, <1>6, <2>1, EntriesPushed DEF Settle
  <2>3. \A e \in Entries(fibers) : e.task # None
    BY <1>0, EntryQueued
  <2>4. QED BY <1>0, <1>6, <2>2, <2>3 DEF Settle, TypeOK
<1>7. ASSUME NEW f \in Fiber, Wake(f) PROVE PinnedOwn'
  <2>1. Entries(fibers') = Entries(fibers) \cup {[task |-> f, thread |-> AnyThread]}
    BY <1>0, <1>7, EntriesPushed DEF Wake
  <2>2. QED BY <1>7, <2>1 DEF Wake
<1>8. CASE MainSchedules
  <2>1. PICK j \in Job, p \in {AnyThread} : Push(j, p)
    BY <1>8 DEF MainSchedules, Pins
  <2>2. Entries(fibers') = Entries(fibers) \cup {[task |-> j, thread |-> AnyThread]}
    BY <1>0, <2>1, EntriesPushed
  <2>3. QED BY <1>8, <2>2 DEF MainSchedules
<1>9. CASE MainSchedulesRange
  <2>1. \A e \in Entries(fibers') : e \in Entries(fibers) \/ e.thread = AnyThread
    BY <1>0, <1>9, RangeAdded
  <2>2. QED BY <1>9, <2>1 DEF MainSchedulesRange
<1>10. ASSUME NEW t \in Thread,
              \/ FindNothing(t) \/ ResumeFiber(t) \/ Arm(t) \/ YieldToHold(t) \/ YieldToReady(t)
              \/ CbEnds(t) \/ CountDown(t) \/ IdleEnter(t) \/ IdleCheck(t) \/ IdleLeave(t)
       PROVE  PinnedOwn'
  BY <1>10 DEF FindNothing, ResumeFiber, Arm, YieldToHold, YieldToReady, CbEnds, CountDown,
     IdleEnter, IdleCheck, IdleLeave
<1>11. CASE Proceed
  BY <1>11 DEF Proceed, Start, StopBegin, StopCheck, CallReturns, StopJoins
<1>12. QED
  BY <1>1, <1>2, <1>3, <1>4, <1>5, <1>6, <1>7, <1>8, <1>9, <1>10, <1>11 DEF Next, Run

LEMMA JobPlacedNext ==
  ASSUME MainFuncCallsCb, Inv, JobPlaced, UserDone, Next
  PROVE  JobPlaced'
<1> USE DEF JobPlaced, Begun
<1>0. TypeOK /\ Ownership /\ QueueDistinct /\ None \notin posted
  BY DEF Inv, Ownership, TypeOK
<1>1. ASSUME NEW t \in Thread, Take(t) PROVE JobPlaced'
  <2>1. PICK i \in DOMAIN fibers :
          fibers' = RemoveAt(fibers, i) /\ ft' = [ft EXCEPT ![t] = fibers[i].task]
    BY <1>1 DEF Take
  <2>2. Tasks(fibers) = Tasks(fibers') \cup {fibers[i].task}
    BY <1>0, <2>1, Removed
  <2>3. ft[t] = None
    BY <1>0, <1>1 DEF Take, Ownership, HoldsTask
  <2>4. QED BY <1>0, <1>1, <2>1, <2>2, <2>3 DEF Take, TypeOK
<1>2. ASSUME NEW t \in Thread, ResumeFiber(t) PROVE JobPlaced'
  BY <1>0, <1>2 DEF ResumeFiber, TypeOK
<1>3. ASSUME NEW t \in Thread, Discard(t) PROVE JobPlaced'
  <2>1. ft[t] \in Fiber /\ (ft[t] \in UserFiber => ft[t] \in done)
    BY <1>3 DEF Discard, UserDone
  <2>2. ft[t] \notin posted \ done
    BY <1>0, <2>1 DEF TypeOK
  <2>3. \A x : x # ft[t] /\ Held(x) => \E u \in Thread : ft'[u] = x
    BY <1>0, <1>3 DEF Discard, TypeOK
  <2>4. UNCHANGED <<fibers, state, bound, posted, done>>
    BY <1>3 DEF Discard
  <2>5. QED BY <2>2, <2>3, <2>4
<1>4. ASSUME NEW t \in Thread, StartCallback(t) PROVE JobPlaced'
  <2>1. PICK f :
          /\ f \in IF cbFiber[t] # None THEN {cbFiber[t]} ELSE {p \in Pool : state[p] = "UNBORN"}
          /\ ft' = [ft EXCEPT ![t] = f] /\ state' = [state EXCEPT ![f] = "EXEC"]
          /\ bound' = [bound EXCEPT ![f] = ft[t]]
    BY <1>4 DEF StartCallback
  <2>f. ft[t] \in Callback
    BY <1>4 DEF StartCallback
  <2>p. f \in Pool /\ state[f] \in Fresh
    BY <2>1, <2>f, <1>0 DEF Ownership, CbFiberReady
  <2>2. UNCHANGED <<fibers, posted, done>>
    BY <1>4 DEF StartCallback
  <2>3. bound'[f] = ft[t] /\ state'[f] = "EXEC"
    BY <1>0, <2>1, <2>p DEF TypeOK
  <2>4. \A g \in Fiber : state[g] \in Begun => state'[g] = state[g] /\ bound'[g] = bound[g]
    BY <1>0, <2>1, <2>p DEF TypeOK
  <2>5. \A x : x # ft[t] /\ Held(x) => \E u \in Thread : ft'[u] = x
    BY <1>0, <2>1, <2>p DEF TypeOK
  <2>6. QED BY <2>p, <2>2, <2>3, <2>4, <2>5
<1>5. ASSUME NEW t \in Thread, BodySchedules(t) PROVE JobPlaced'
  <2>1. PICK j \in Job \ posted, p \in Pins(t) : Push(j, p) /\ posted' = posted \cup {j}
    BY <1>5 DEF BodySchedules
  <2>2. Tasks(fibers') = Tasks(fibers) \cup {j}
    BY <1>0, <2>1, Pushed DEF Pins
  <2>3. QED BY <1>5, <2>1, <2>2 DEF BodySchedules
<1>6. ASSUME NEW t \in Thread, SwitchTo(t) PROVE JobPlaced'
  <2>1. PICK p \in Pins(t) : Push(ft[t], p)
    BY <1>6 DEF SwitchTo
  <2>2. ft[t] \in Fiber
    BY <1>0, <1>6 DEF SwitchTo, Ownership, HoldsTask, TypeOK
  <2>3. Tasks(fibers) \subseteq Tasks(fibers')
    BY <1>0, <2>1, <2>2, Pushed DEF Pins
  <2>4. QED BY <1>6, <2>3 DEF SwitchTo
<1>7. ASSUME NEW t \in Thread, CbEnds(t) PROVE JobPlaced'
  <2>1. ft[t] \in Fiber /\ done' = done \cup {bound[ft[t]]}
    BY <1>0, <1>7 DEF CbEnds, Ownership, HoldsTask, TypeOK
  <2>2. \A g \in Fiber \ {ft[t]} : state'[g] = state[g] /\ bound'[g] = bound[g]
    BY <1>0, <1>7, <2>1 DEF CbEnds, TypeOK
  <2>3. QED BY <1>7, <2>1, <2>2 DEF CbEnds
<1>8. ASSUME NEW t \in Thread, YieldToReady(t) PROVE JobPlaced'
  BY <1>0, <1>8 DEF YieldToReady, TypeOK
<1>9. ASSUME NEW t \in Thread, Settle(t) PROVE JobPlaced'
  <2>1. ft[t] \in Fiber /\ state[ft[t]] \in Dead \cup {"EXEC", "READY"}
    BY <1>0, <1>9 DEF Settle, Ownership, HoldsTask, HolderState
  <2>2. Tasks(fibers) \subseteq Tasks(fibers')
    BY <1>0, <1>9, <2>1, Pushed DEF Settle
  <2>3. \A g \in Fiber : state[g] \in Begun => state'[g] \in Begun /\ bound'[g] = bound[g]
    BY <1>0, <1>9, <2>1 DEF Settle, TypeOK
  <2>4. \A x : x # ft[t] /\ Held(x) => \E u \in Thread : ft'[u] = x
    BY <1>0, <1>9 DEF Settle, TypeOK
  <2>5. ASSUME ft[t] \in posted \ done PROVE bound[ft[t]] = ft[t] /\ state[ft[t]] \in Begun
    <3>1. ft[t] \in UserFiber
      BY <1>0, <2>1, <2>5 DEF TypeOK
    <3>2. state[ft[t]] \in Begun
      BY <2>1, <2>5, <3>1 DEF UserDone
    <3>3. bound[ft[t]] \in posted
      BY <1>0, <2>1, <3>2 DEF Ownership, LiveJobs
    <3>4. QED BY <1>0, <3>1, <3>2, <3>3 DEF Ownership, Bindings
  <2>6. UNCHANGED <<posted, done>>
    BY <1>9 DEF Settle
  <2>7. QED BY <2>1, <2>2, <2>3, <2>4, <2>5, <2>6
<1>10. ASSUME NEW f \in Fiber, Wake(f) PROVE JobPlaced'
  <2>1. Tasks(fibers) \subseteq Tasks(fibers')
    BY <1>0, <1>10, Pushed DEF Wake
  <2>2. QED BY <1>10, <2>1 DEF Wake
<1>11. CASE MainSchedules
  <2>1. PICK j \in Job, p \in Pins(AnyThread) : Push(j, p) /\ posted' = posted \cup {j}
    BY <1>11 DEF MainSchedules
  <2>2. Tasks(fibers') = Tasks(fibers) \cup {j}
    BY <1>0, <2>1, Pushed DEF Pins
  <2>3. QED BY <1>11, <2>1, <2>2 DEF MainSchedules
<1>12. CASE MainSchedulesRange
  BY <1>0, <1>12, RangeAdded DEF MainSchedulesRange
<1>13. CASE UNCHANGED <<fibers, ft, state, bound, posted, done>>
  BY <1>13
<1>14. QED
  BY <1>1, <1>2, <1>3, <1>4, <1>5, <1>6, <1>7, <1>8, <1>9, <1>10, <1>11, <1>12, <1>13
     DEF Next, Run, Proceed, FindNothing, Arm, YieldToHold, CountDown, IdleEnter, IdleCheck,
         IdleLeave, Start, StopBegin, StopCheck, CallReturns, StopJoins

LEMMA ServedNext ==
  ASSUME MainFuncCallsCb, ~PinAnywhere, Inv, WorkersRun, PinnedOwn, ExecHeld, Served, Next
  PROVE  Served'
<1> USE DEF Served
<1>0. TypeOK /\ Ownership /\ QueueDistinct
  BY DEF Inv, Ownership
<1>1. \A e \in Entries(fibers) :
        e.thread \in Thread \cup {AnyThread} /\ e.task \in Task /\ Queued(e.task)
  BY <1>0, EntryQueued
<1>2. ASSUME NEW t \in Thread, Run(t) PROVE Served'
  <2> SUFFICES ASSUME Closing PROVE Served'
    BY <1>2 DEF Closing, Run, Take, FindNothing, ResumeFiber, Discard, StartCallback,
       BodySchedules, Arm, SwitchTo, YieldToHold, YieldToReady, CbEnds, CountDown, Settle,
       IdleEnter, IdleCheck, IdleLeave
  <2>1. /\ control' = control /\ pc[t] \notin {"off", "exit"}
        /\ pc' = pc \/ \E p : pc' = [pc EXCEPT ![t] = p]
    BY <1>2 DEF Run, Take, FindNothing, ResumeFiber, Discard, StartCallback,
       BodySchedules, Arm, SwitchTo, YieldToHold, YieldToReady, CbEnds, CountDown, Settle,
       IdleEnter, IdleCheck, IdleLeave
  <2>2. \A u \in Thread \ {t} : Live(u)' <=> Live(u)
    BY <1>0, <2>1 DEF Live, TypeOK
  <2>3. ~FindNothing(t) => Live(t)'
    BY <1>0, <1>2, <2>1 DEF Live, Run, Take, ResumeFiber, Discard, StartCallback,
       BodySchedules, Arm, SwitchTo, YieldToHold, YieldToReady, CbEnds, CountDown, Settle,
       IdleEnter, IdleCheck, IdleLeave, TypeOK
  <2>4. CASE FindNothing(t)
    <3>1. Entries(fibers') = Entries(fibers) /\ waker' = waker
      BY <2>4 DEF FindNothing
    <3>2. ASSUME NEW e \in Entries(fibers), ~Awaited(e) PROVE \E u \in Thread : Serves(u, e)'
      <4>1. PICK u \in Thread : Serves(u, e)
        BY <3>2, <2>4 DEF Closing
      <4>2. CASE u # t
        BY <2>2, <4>1, <4>2 DEF Serves
      <4>3. CASE u = t
        <5>1. PICK i \in DOMAIN fibers : e = fibers[i]
          BY DEF Entries
        <5>2. e.thread \in {AnyThread, t} /\ ~Eligible(t, e)
          BY <2>4, <4>1, <4>3, <5>1 DEF Serves, FindNothing
        <5>3. e.task \in Fiber /\ state[e.task] = "EXEC"
          BY <5>2 DEF Eligible
        <5>4. PICK v \in Thread : ft[v] = e.task /\ pc[v] \in InBody \cup {"out", "settle"}
          BY <5>3 DEF ExecHeld
        <5>5. e.thread \in {AnyThread, v}
          BY <5>4 DEF PinnedOwn
        <5>6. v # t /\ Live(v)
          BY <2>4, <5>4 DEF FindNothing, Live
        <5>7. QED BY <2>2, <5>5, <5>6 DEF Serves
      <4>4. QED BY <4>2, <4>3
    <3>3. QED BY <3>1, <3>2 DEF Awaited
  <2>5. CASE ~FindNothing(t)
    <3>1. \A u \in Thread : \A e : Serves(u, e) => Serves(u, e)'
      BY <2>2, <2>3, <2>5 DEF Serves
    <3>2. \A e \in Entries(fibers') :
            \/ e \in Entries(fibers)
            \/ e.thread \in {AnyThread, t}
      <4>1. CASE Take(t)
        <5>1. PICK i \in DOMAIN fibers : fibers' = RemoveAt(fibers, i)
          BY <4>1 DEF Take
        <5>2. QED BY <1>0, <5>1, EntriesRemoved
      <4>2. CASE BodySchedules(t)
        <5>1. PICK j \in Job, p \in {AnyThread, t} : Push(j, p)
          BY <4>2 DEF BodySchedules, Pins
        <5>2. Entries(fibers') = Entries(fibers) \cup {[task |-> j, thread |-> p]}
          BY <1>0, <5>1, EntriesPushed
        <5>3. QED BY <5>2
      <4>3. CASE SwitchTo(t)
        <5>1. PICK p \in {AnyThread, t} : Push(ft[t], p)
          BY <4>3 DEF SwitchTo, Pins
        <5>2. ft[t] \in Task
          BY <1>0, <4>3 DEF SwitchTo, Ownership, HoldsTask
        <5>3. Entries(fibers') = Entries(fibers) \cup {[task |-> ft[t], thread |-> p]}
          BY <1>0, <5>1, <5>2, EntriesPushed
        <5>4. QED BY <5>3
      <4>4. CASE Settle(t)
        <5>1. ft[t] \in Fiber
          BY <1>0, <4>4 DEF Settle, Ownership, HoldsTask
        <5>2. QED BY <1>0, <4>4, <5>1, EntriesPushed DEF Settle
      <4>5. CASE fibers' = fibers
        BY <4>5
      <4>6. QED
        BY <1>2, <4>1, <4>2, <4>3, <4>4, <4>5 DEF Run, FindNothing, ResumeFiber, Discard,
           StartCallback, Arm, YieldToHold, YieldToReady, CbEnds, CountDown, IdleEnter,
           IdleCheck, IdleLeave
    <3>3. \A e \in Entries(fibers) : Awaited(e) => Awaited(e)' \/ e.task = ft[t]
      <4>1. CASE ResumeFiber(t) \/ Discard(t)
        BY <1>0, <4>1 DEF ResumeFiber, Discard, Awaited, TypeOK
      <4>2. CASE Arm(t)
        BY <1>0, <4>2 DEF Arm, Awaited, TypeOK
      <4>3. CASE waker' = waker
        BY <4>3 DEF Awaited
      <4>4. QED
        BY <1>2, <4>1, <4>2, <4>3 DEF Run, Take, FindNothing, StartCallback,
       BodySchedules, SwitchTo, YieldToHold, YieldToReady, CbEnds, CountDown, Settle,
       IdleEnter, IdleCheck, IdleLeave
    <3>4. \A e \in Entries(fibers) : e.task = ft[t] => e.thread \in {AnyThread, t}
      BY DEF PinnedOwn
    <3>5. \A e : e.thread \in {AnyThread, t} => Serves(t, e)'
      BY <2>3, <2>5 DEF Serves
    <3>6. ASSUME NEW e \in Entries(fibers')
          PROVE  Awaited(e)' \/ \E u \in Thread : Serves(u, e)'
      BY <3>1, <3>2, <3>3, <3>4, <3>5
    <3>7. QED BY <3>6
  <2>6. QED BY <2>4, <2>5
<1>3. ASSUME NEW f \in Fiber, Wake(f) PROVE Served'
  <2>1. Entries(fibers') = Entries(fibers) \cup {[task |-> f, thread |-> AnyThread]}
    BY <1>0, <1>3, EntriesPushed DEF Wake
  <2>2. waker' = [waker EXCEPT ![f] = "fired"] /\ UNCHANGED <<control, pc>>
    BY <1>3 DEF Wake
  <2>3. \A e : Awaited(e) => Awaited(e)'
    BY <1>0, <2>2 DEF Awaited, TypeOK
  <2>4. Awaited([task |-> f, thread |-> AnyThread])'
    BY <1>0, <2>2 DEF Awaited, TypeOK
  <2>5. QED BY <2>1, <2>2, <2>3, <2>4 DEF Closing, Serves, Live
<1>4. CASE MainSchedules \/ MainSchedulesRange \/ Start
  BY <1>4 DEF MainSchedules, MainSchedulesRange, Start, Accepting, Closing
<1>5. CASE StopBegin
  <2>1. \A u \in Thread : Live(u)'
    BY <1>5 DEF StopBegin, WorkersRun, Live
  <2>2. \A e \in Entries(fibers') : \E u \in Thread : e.thread \in {AnyThread, u}
    BY <1>1, <1>5 DEF StopBegin
  <2>3. QED BY <2>1, <2>2 DEF Serves
<1>6. CASE StopCheck
  <2>1. CASE UseCaller /\ ~Stopping
    <3>1. fibers' = fibers /\ waker' = waker /\ control' = "calling" /\ pc' = [pc EXCEPT ![Caller] = "scan"]
      BY <1>6, <2>1 DEF StopCheck
    <3>2. \A u \in Thread : Live(u) => Live(u)'
      BY <1>0, <3>1, <2>1 DEF Live, TypeOK
    <3>3. \A u \in Thread : \A e : Serves(u, e) => Serves(u, e)'
      BY <3>2 DEF Serves
    <3>4. QED BY <1>6, <3>1, <3>3 DEF StopCheck, Closing, Awaited
  <2>2. CASE ~UseCaller
    <3>1. fibers' = fibers /\ waker' = waker /\ pc' = pc /\ control = "stopping"
      BY <1>6, <2>2 DEF StopCheck
    <3>2. \A u \in Thread : Live(u) => Live(u)'
      BY <3>1, <2>2 DEF Live
    <3>3. \A u \in Thread : \A e : Serves(u, e) => Serves(u, e)'
      BY <3>2 DEF Serves
    <3>4. QED BY <3>1, <3>3 DEF Closing, Awaited
  <2>3. CASE Stopping
    BY <1>6, <2>3 DEF StopCheck, Stopping, Entries
  <2>4. QED BY <2>1, <2>2, <2>3
<1>7. CASE CallReturns
  <2>1. fibers' = fibers /\ waker' = waker /\ control = "calling"
        /\ pc' = [pc EXCEPT ![Caller] = "off"] /\ pc[Caller] = "exit"
    BY <1>7 DEF CallReturns
  <2>2. \A u \in Thread : Live(u) => Live(u)'
    BY <1>0, <2>1 DEF Live, TypeOK
  <2>3. \A u \in Thread : \A e : Serves(u, e) => Serves(u, e)'
    BY <2>2 DEF Serves
  <2>4. QED BY <2>1, <2>3 DEF Closing, Awaited
<1>8. CASE StopJoins
  <2>1. fibers' = fibers /\ waker' = waker /\ control = "joining"
    BY <1>8 DEF StopJoins
  <2>2. \A u \in Thread : ~Live(u)
    BY <1>0, <1>8, <2>1 DEF Live, StopJoins, Ownership, Locals
  <2>3. QED BY <2>1, <2>2 DEF Closing, Awaited, Serves
<1>9. QED BY <1>2, <1>3, <1>4, <1>5, <1>6, <1>7, <1>8 DEF Next, Proceed

LEMMA DrainingStep ==
  ASSUME MainFuncCallsCb, ~PinAnywhere, Inv, Draining, [Next \/ Over]_vars
  PROVE  Draining'
<1>1. CASE Next
  BY <1>1, ServedNext, WorkersRunNext, PinnedOwnNext, ExecHeldNext, JobPlacedNext, UserDoneNext
     DEF Draining
<1>2. CASE UNCHANGED vars
  BY <1>2 DEF vars, Draining, Served, Closing, Awaited, Serves, Live, WorkersRun, PinnedOwn,
     ExecHeld, JobPlaced, UserDone, Begun
<1>3. QED BY <1>1, <1>2 DEF Over

LEMMA InitDraining == Init => Draining
BY DEF Init, Draining, Served, Closing, WorkersRun, PinnedOwn, Entries, ExecHeld, JobPlaced, UserDone

LEMMA SuspendedStep == ASSUME Inv, Suspended, [Next \/ Over]_vars PROVE Suspended'
<1>1. UNCHANGED vars => Suspended'
  BY DEF vars, Suspended
<1>2. QED BY SuspendedNext, <1>1 DEF Over

LEMMA StoppedDrained ==
  ASSUME Inv, Suspended, Draining
  PROVE  StopDrained
<1> SUFFICES ASSUME control = "stopped", NEW j \in posted \ done
             PROVE  \E f \in Fiber : bound[f] = j /\ Asleep(f)
  BY DEF StopDrained
<1> USE DEF Inv, TypeOK
<1>1. \A t \in Thread : pc[t] = "off" /\ ft[t] = None
  BY DEF Ownership, Locals, HoldsTask
<1>2. \A x : Queued(x) => x \in Fiber /\ waker[x] # "idle"
  <2> SUFFICES ASSUME NEW x, Queued(x) PROVE x \in Fiber /\ waker[x] # "idle"
    OBVIOUS
  <2>1. PICK e \in Entries(fibers) : e.task = x
    BY DEF Entries, Tasks
  <2>2. \A t \in Thread : ~Live(t)
    BY <1>1 DEF Live
  <2>3. QED BY <2>1, <2>2 DEF Draining, Served, Closing, Awaited, Serves
<1>3. \A f \in Fiber : state[f] # "EXEC"
  BY <1>1 DEF Draining, ExecHeld
<1>4. \A f \in Fiber : state[f] \in {"HOLD", "READY"} => Asleep(f)
  <2> SUFFICES ASSUME NEW f \in Fiber, state[f] \in {"HOLD", "READY"} PROVE Asleep(f)
    OBVIOUS
  <2>1. waker[f] = "armed" \/ Queued(f)
    BY <1>1 DEF Suspended
  <2>2. waker[f] # "idle"
    BY <1>2, <2>1
  <2>3. QED BY <2>2 DEF Asleep, Ownership, NoWaker
<1>5. CASE \E f \in Fiber : bound[f] = j /\ state[f] \in Begun
  BY <1>3, <1>4, <1>5 DEF Begun
<1>6. CASE Queued(j)
  <2>1. j \in UserFiber /\ waker[j] # "idle"
    BY <1>2, <1>6
  <2>2. state[j] \in {"HOLD", "READY"}
    BY <1>3, <2>1 DEF Draining, UserDone, Ownership, NoWaker
  <2>3. bound[j] = j
    BY <2>1, <2>2 DEF Ownership, LiveJobs, Bindings
  <2>4. QED BY <1>4, <2>1, <2>2, <2>3
<1>7. QED BY <1>1, <1>5, <1>6 DEF Draining, JobPlaced

(* When stop() has returned every posted job has ended or sleeps until an   *)
(* outside event, although stop() and the threads leave run() on a test of *)
(* Scheduler::stopping made at different moments.  Two facts of the source *)
(* are hypotheses: MainFunc calls m_cb (as fiber.cpp:178 is written a job  *)
(* never ends, it does not run at all), and no task is pinned to a thread  *)
(* by another: both threads of a scheduler may be on their way out of      *)
(* run() when an event resumes a job on one, and a task it pins to the     *)
(* other then stays behind.                                                *)
THEOREM StopDrainedCorrect ==
  ASSUME MainFuncCallsCb, ~PinAnywhere
  PROVE  Spec => []StopDrained
<1>1. Inv /\ [Next \/ Over]_vars => Inv'
  BY InvStep
<1>2. Inv /\ Suspended /\ [Next \/ Over]_vars => Suspended'
  BY SuspendedStep
<1>3. Inv /\ Draining /\ [Next \/ Over]_vars => Draining'
  BY DrainingStep
<1>4. Init => Suspended
  BY DEF Init, Suspended
<1>5. Inv /\ Suspended /\ Draining => StopDrained
  BY StoppedDrained
<1>6. QED BY InitInv, InitDraining, <1>1, <1>2, <1>3, <1>4, <1>5, PTL DEF Spec

-----------------------------------------------------------------------------
(* The scheduler implements TaskPool, step by step.                         *)

LEMMA SameStatus ==
  ASSUME NEW j, UNCHANGED <<posted, done>>, Runs(j)' <=> Runs(j),
         ~Runs(j) /\ j \notin done => (Sleeps(j)' <=> Sleeps(j))
  PROVE  JobStatus(j)' = JobStatus(j)
BY DEF JobStatus

(* A step that changes nobody's body, binding or event. *)
LEMMA Unseen ==
  ASSUME UNCHANGED <<bound, waker, posted, done>>,
         \A u \in Thread : pc'[u] \in InBody <=> pc[u] \in InBody,
         \A u \in Thread : pc[u] \in InBody => ft'[u] = ft[u]
  PROVE  Status' = Status
<1>1. ASSUME NEW j \in Job PROVE JobStatus(j)' = JobStatus(j)
  <2>1. Runs(j)' <=> Runs(j)
    BY DEF Runs
  <2>2. Sleeps(j)' <=> Sleeps(j)
    BY DEF Sleeps
  <2>3. QED BY <2>1, <2>2, SameStatus
<1>2. QED BY <1>1 DEF Status

LEMMA OneMoves ==
  ASSUME NEW j \in Job, NEW s, JobStatus(j)' = s,
         \A k \in Job \ {j} : JobStatus(k)' = JobStatus(k)
  PROVE  Status' = [Status EXCEPT ![j] = s]
BY DEF Status

(* Who is in a body runs a posted job that has not ended, and no other *)
(* thread runs it.                                                     *)
LEMMA InBodyRuns ==
  ASSUME Inv, NEW t \in Thread, pc[t] \in InBody
  PROVE  /\ ft[t] \in Fiber /\ state[ft[t]] = "EXEC"
         /\ bound[ft[t]] \in posted \ done /\ bound[ft[t]] \in Job /\ bound[ft[t]] # None
         /\ Runs(bound[ft[t]])
         /\ \A u \in Thread \ {t} : pc[u] \in InBody => bound[ft[u]] # bound[ft[t]]
         /\ \A f \in Fiber \ {ft[t]} : bound[f] # bound[ft[t]]
<1>1. \A u \in Thread : pc[u] \in InBody =>
        ft[u] \in Fiber /\ state[ft[u]] = "EXEC" /\ bound[ft[u]] \in posted \ done
  BY DEF Inv, TypeOK, Ownership, HoldsTask, HolderState, LiveJobs
<1>2. None \notin posted /\ posted \subseteq Job
  BY DEF Inv, TypeOK
<1>3. \A u \in Thread \ {t} : pc[u] \in InBody => ft[u] # ft[t]
  BY <1>1 DEF Inv, Ownership, HolderUnique
<1>4. \A f, g \in Fiber : bound[f] = bound[g] /\ bound[f] # None => f = g
  BY DEF Inv, Ownership, Bindings
<1>5. \A u \in Thread \ {t} : pc[u] \in InBody => bound[ft[u]] # bound[ft[t]]
  BY <1>1, <1>2, <1>3, <1>4
<1>6. \A f \in Fiber \ {ft[t]} : bound[f] # bound[ft[t]]
  BY <1>1, <1>2, <1>4
<1>7. QED BY <1>1, <1>2, <1>5, <1>6 DEF Runs

(* SequencesExt and FiniteSetTheorems each bring a Surjection. *)
Finite == INSTANCE FiniteSetTheorems

LEMMA ImageNotLarger ==
  ASSUME NEW S, NEW R, NEW b \in Finite!Surjection(S, R), IsFiniteSet(S)
  PROVE  IsFiniteSet(R) /\ Cardinality(R) <= Cardinality(S)
<1>1. Finite!IsFiniteSet(S)
  BY DEF IsFiniteSet, Finite!IsFiniteSet
<1>2. Finite!IsFiniteSet(R) /\ Finite!Cardinality(R) <= Finite!Cardinality(S)
  BY <1>1, Finite!FS_Surjection
<1>3. QED
  BY <1>2 DEF IsFiniteSet, Finite!IsFiniteSet, Cardinality, Finite!Cardinality

(* TaskPool counts as this module does. *)
LEMMA SameCardinality ==
  ASSUME NEW S PROVE PoolOfTasks!Cardinality(S) = Cardinality(S)
BY DEF PoolOfTasks!Cardinality, Cardinality

(* A thread that is in no body leaves room for one more. *)
LEMMA Room ==
  ASSUME Inv, NEW t \in Thread, pc[t] \notin InBody
  PROVE  PoolOfTasks!Cardinality(PoolOfTasks!In("running")) < Cardinality(Thread)
<1> DEFINE S == {u \in Thread : pc[u] \in InBody}
           b == [u \in S |-> bound[ft[u]]]
           R == {b[u] : u \in S}
<1>1. IsFiniteSet(Thread) /\ Cardinality(Thread) \in Nat
  BY ThreadsFinite, FS_CardinalityType
<1>2. /\ IsFiniteSet(Thread \ {t})
      /\ Cardinality(Thread \ {t}) = Cardinality(Thread) - 1
  BY <1>1, FS_RemoveElement
<1>3. S \in SUBSET (Thread \ {t})
  OBVIOUS
<1>4. IsFiniteSet(S) /\ Cardinality(S) <= Cardinality(Thread) - 1 /\ Cardinality(S) \in Nat
  BY <1>2, <1>3, FS_Subset, FS_CardinalityType
<1>5. b \in Finite!Surjection(S, R)
  BY DEF Finite!Surjection
<1> HIDE DEF S, R, b
<1>6. IsFiniteSet(R) /\ Cardinality(R) <= Cardinality(S) /\ Cardinality(R) \in Nat
  <2>1. IsFiniteSet(R) /\ Cardinality(R) <= Cardinality(S)
    BY <1>4, <1>5, ImageNotLarger
  <2>2. QED BY <2>1, FS_CardinalityType
<1>7. PoolOfTasks!In("running") \in SUBSET R
  <2> SUFFICES ASSUME NEW j \in Job, Status[j] = "running" PROVE j \in R
    BY DEF PoolOfTasks!In
  <2>1. Runs(j)
    BY DEF Status, JobStatus
  <2>2. QED BY <2>1 DEF Runs, S, R, b
<1>8. Cardinality(PoolOfTasks!In("running")) <= Cardinality(R)
      /\ Cardinality(PoolOfTasks!In("running")) \in Nat
  BY <1>6, <1>7, FS_Subset, FS_CardinalityType
<1>9. Cardinality(PoolOfTasks!In("running")) < Cardinality(Thread)
  BY <1>1, <1>4, <1>6, <1>8
<1>10. QED BY <1>9, SameCardinality

Stays == Status' = Status /\ control' = control

LEMMA ResumeDispatches ==
  ASSUME Inv, Inv', NEW t \in Thread, ResumeFiber(t)
  PROVE  \E j \in Job : PoolOfTasks!Dispatch(j) \/ PoolOfTasks!Resume(j)
<1>a. PICK f, j : f = ft[t] /\ j = bound[f]
  OBVIOUS
<1>0. TypeOK /\ Ownership
  BY DEF Inv
<1>1. /\ f \in Fiber /\ pc[t] = "taken" /\ ft' = ft /\ bound' = bound
      /\ pc' = [pc EXCEPT ![t] = "body"] /\ UNCHANGED <<posted, done, control>>
      /\ waker' = IF waker[f] = "fired" THEN [waker EXCEPT ![f] = "idle"] ELSE waker
  BY <1>a DEF ResumeFiber
<1>2. pc'[t] = "body" /\ \A u \in Thread \ {t} : pc'[u] = pc[u]
  BY <1>0, <1>1 DEF TypeOK
<1>3. /\ j \in posted \ done /\ j \in Job /\ j # None /\ Runs(j)'
      /\ \A u \in Thread \ {t} : pc[u] \in InBody => bound[ft[u]] # j
      /\ \A g \in Fiber \ {f} : bound[g] # j
  <2>1. Runs(j)'
    BY <1>1, <1>2, <1>a DEF Runs
  <2>2. state[f] \notin Dead /\ state'[f] = "EXEC"
    BY <1>0, <1>1, <1>a DEF ResumeFiber, TypeOK
  <2>3. LiveJobs'
    BY DEF Inv, Ownership
  <2>4. j \in posted \ done /\ j \in Job /\ j # None
    BY <1>0, <1>1, <1>a, <2>2, <2>3 DEF LiveJobs, TypeOK
  <2>5. \A g \in Fiber \ {f} : bound[g] # j
    BY <1>0, <1>1, <1>a, <2>4 DEF Ownership, Bindings
  <2>6. \A u \in Thread \ {t} : pc[u] \in InBody => ft[u] \in Fiber \ {f}
    BY <1>0, <1>1, <1>a, <2>2 DEF Ownership, HolderUnique, HoldsTask, TypeOK
  <2>7. QED BY <2>1, <2>4, <2>5, <2>6
<1>4. ~Runs(j) /\ JobStatus(j)' = "running" /\ Status[j] \in {"ready", "waiting"}
  <2>1. ~Runs(j)
    BY <1>1, <1>3 DEF Runs
  <2>2. QED BY <1>1, <1>3, <2>1 DEF JobStatus, Status
<1>5. ASSUME NEW k \in Job \ {j} PROVE JobStatus(k)' = JobStatus(k)
  <2>1. Runs(k)' <=> Runs(k)
    <3>1. bound'[ft'[t]] = j /\ ft'[t] = f /\ bound[f] = j
      BY <1>1, <1>a
    <3>2. pc[t] \notin InBody
      BY <1>1
    <3>3. \A u \in Thread \ {t} : /\ pc'[u] \in InBody <=> pc[u] \in InBody
                                 /\ bound'[ft'[u]] = bound[ft[u]]
      BY <1>1, <1>2
    <3>4. QED BY <3>1, <3>2, <3>3 DEF Runs
  <2>2. Sleeps(k)' <=> Sleeps(k)
    <3>1. \A g \in Fiber \ {f} : waker'[g] = waker[g]
      BY <1>0, <1>1 DEF TypeOK
    <3>2. bound' = bound /\ bound[f] # k
      BY <1>1, <1>a
    <3>3. QED BY <3>1, <3>2 DEF Sleeps
  <2>3. QED BY <1>1, <2>1, <2>2, SameStatus
<1>6. Status' = [Status EXCEPT ![j] = "running"]
  BY <1>3, <1>4, <1>5, OneMoves
<1>7. PoolOfTasks!Cardinality(PoolOfTasks!In("running")) < Cardinality(Thread)
  BY <1>1, Room
<1>8. PoolOfTasks!Dispatch(j) \/ PoolOfTasks!Resume(j)
  BY <1>1, <1>4, <1>6, <1>7 DEF PoolOfTasks!Dispatch, PoolOfTasks!Resume, PoolOfTasks!Move
<1>9. QED BY <1>3, <1>8

LEMMA CallbackDispatches ==
  ASSUME Inv, Inv', NEW t \in Thread, StartCallback(t)
  PROVE  \E j \in Job : PoolOfTasks!Dispatch(j)
<1>a. PICK j : j = ft[t]
  OBVIOUS
<1>0. TypeOK /\ Ownership
  BY DEF Inv
<1>1. PICK f \in Pool :
        /\ state[f] \in Fresh /\ ft' = [ft EXCEPT ![t] = f]
        /\ bound' = [bound EXCEPT ![f] = j]
  BY <1>0, <1>a DEF StartCallback, Ownership, CbFiberReady
<1>2. /\ j \in Callback /\ pc[t] = "taken" /\ pc' = [pc EXCEPT ![t] = "body"]
      /\ UNCHANGED <<posted, done, control, waker>>
  BY <1>a DEF StartCallback
<1>3. /\ pc'[t] = "body" /\ ft'[t] = f /\ bound'[f] = j
      /\ \A u \in Thread \ {t} : pc'[u] = pc[u] /\ ft'[u] = ft[u]
      /\ \A g \in Fiber \ {f} : bound'[g] = bound[g]
  BY <1>0, <1>1, <1>2 DEF TypeOK
<1>4. bound[f] = None /\ waker[f] = "idle" /\ \A u \in Thread : ft[u] # f
  BY <1>0, <1>1 DEF Ownership, PoolFresh, NoWaker
<1>5. j \in posted \ done /\ \A g \in Fiber : bound[g] # j
  BY <1>0, <1>2, <1>a DEF Ownership, WaitingCallbacks
<1>6. \A u \in Thread : pc[u] \in InBody => ft[u] \in Fiber
  BY <1>0 DEF Ownership, HoldsTask, TypeOK
<1>7. Status[j] = "ready"
  BY <1>2, <1>5, <1>6 DEF Status, JobStatus, Runs, Sleeps
<1>8. JobStatus(j)' = "running"
  BY <1>2, <1>3, <1>5 DEF JobStatus, Runs
<1>9. ASSUME NEW k \in Job \ {j} PROVE JobStatus(k)' = JobStatus(k)
  <2>1. Runs(k)' <=> Runs(k)
    <3>1. \A u \in Thread \ {t} : pc[u] \in InBody => bound'[ft'[u]] = bound[ft[u]]
      BY <1>3, <1>4, <1>6
    <3>2. QED BY <1>2, <1>3, <3>1 DEF Runs
  <2>2. Sleeps(k)' <=> Sleeps(k)
    BY <1>2, <1>3, <1>4 DEF Sleeps
  <2>3. QED BY <1>2, <2>1, <2>2, SameStatus
<1>10. Status' = [Status EXCEPT ![j] = "running"]
  BY <1>2, <1>8, <1>9, OneMoves
<1>11. PoolOfTasks!Cardinality(PoolOfTasks!In("running")) < Cardinality(Thread)
  BY <1>2, Room
<1>12. j \in Job
  BY <1>2
<1>13. PoolOfTasks!Dispatch(j)
  BY <1>2, <1>7, <1>10, <1>11 DEF PoolOfTasks!Dispatch, PoolOfTasks!Move
<1>14. QED BY <1>12, <1>13

(* A thread that leaves a body pauses the job it ran. *)
LEMMA LeavingPauses ==
  ASSUME Inv, NEW t \in Thread, pc[t] \in InBody, pc' = [pc EXCEPT ![t] = "out"],
         UNCHANGED <<ft, waker, posted, control>>,
         \/ bound' = bound /\ done' = done
         \/ /\ done' = done \cup {bound[ft[t]]}
            /\ bound' = bound \/ bound' = [bound EXCEPT ![ft[t]] = None]
  PROVE  \E j \in Job : PoolOfTasks!Pause(j)
<1>a. PICK f, j : f = ft[t] /\ j = bound[f]
  OBVIOUS
<1>0. TypeOK /\ Ownership
  BY DEF Inv
<1>1. /\ f \in Fiber /\ j \in posted \ done /\ j \in Job /\ j # None /\ Runs(j)
      /\ \A u \in Thread \ {t} : pc[u] \in InBody => bound[ft[u]] # j
      /\ \A g \in Fiber \ {f} : bound[g] # j
  BY <1>a, InBodyRuns
<1>2. pc'[t] = "out" /\ \A u \in Thread \ {t} : pc'[u] = pc[u]
  BY <1>0 DEF TypeOK
<1>3. \A u \in Thread \ {t} : pc[u] \in InBody => ft[u] \in Fiber \ {f}
  BY <1>0, <1>1, <1>a DEF Ownership, HoldsTask, TypeOK
<1>4. \A g \in Fiber \ {f} : bound'[g] = bound[g]
  BY <1>0, <1>1, <1>a DEF TypeOK
<1>5. bound'[f] \in {j, None}
  BY <1>0, <1>1, <1>a DEF TypeOK
<1>6. Status[j] = "running"
  BY <1>1 DEF Status, JobStatus
<1>7. JobStatus(j)' \in {"ready", "waiting", "done"}
  <2>1. ~Runs(j)'
    BY <1>1, <1>2, <1>3, <1>4 DEF Runs
  <2>2. j \in posted'
    BY <1>1
  <2>3. QED BY <2>1, <2>2 DEF JobStatus
<1>8. ASSUME NEW k \in Job \ {j} PROVE JobStatus(k)' = JobStatus(k)
  <2>1. k # None
    OBVIOUS
  <2>2. Runs(k)' <=> Runs(k)
    <3>1. bound[ft[t]] = j /\ pc'[t] \notin InBody
      BY <1>a, <1>2
    <3>2. \A u \in Thread \ {t} : pc[u] \in InBody => bound'[ft'[u]] = bound[ft[u]]
      BY <1>3, <1>4
    <3>3. QED BY <1>2, <3>1, <3>2 DEF Runs
  <2>3. Sleeps(k)' <=> Sleeps(k)
    <3>1. bound[f] # k /\ bound'[f] # k
      BY <1>5, <1>a, <2>1
    <3>2. QED BY <1>4, <3>1 DEF Sleeps
  <2>4. k \in done' <=> k \in done
    BY <1>a
  <2>5. QED BY <2>2, <2>3, <2>4 DEF JobStatus
<1>9. PICK s \in {"ready", "waiting", "done"} : Status' = [Status EXCEPT ![j] = s]
  BY <1>1, <1>7, <1>8, OneMoves
<1>10. PoolOfTasks!Pause(j)
  BY <1>6, <1>9 DEF PoolOfTasks!Pause, PoolOfTasks!Move
<1>11. QED BY <1>1, <1>10

(* schedule() posts jobs. *)
LEMMA SchedulingPosts ==
  ASSUME Inv, NEW S, S # {}, S \subseteq Job \ posted, posted' = posted \cup S,
         UNCHANGED <<pc, ft, bound, waker, done, control>>, control # "stopped"
  PROVE  PoolOfTasks!Post(S)
<1>0. TypeOK /\ Ownership
  BY DEF Inv
<1>1. \A j : Runs(j)' <=> Runs(j)
  BY DEF Runs
<1>2. \A j : Sleeps(j)' <=> Sleeps(j)
  BY DEF Sleeps
<1>3. ASSUME NEW j \in S
      PROVE  JobStatus(j) = "new" /\ JobStatus(j)' = "ready"
  <2>1. j \in Job /\ j \notin posted /\ j \notin done
    BY <1>0 DEF Ownership, JobsPosted
  <2>2. ~Runs(j)
    BY <2>1, InBodyRuns DEF Runs
  <2>3. ~Sleeps(j)
    BY <1>0, <2>1 DEF Sleeps, Ownership, Bindings, JobsPosted, LiveJobs, NoWaker
  <2>4. QED BY <1>1, <1>2, <2>1, <2>2, <2>3 DEF JobStatus
<1>4. ASSUME NEW j \in Job \ S PROVE JobStatus(j)' = JobStatus(j)
  BY <1>1, <1>2 DEF JobStatus
<1>5. Status' = [j \in Job |-> IF j \in S THEN "ready" ELSE Status[j]]
  BY <1>3, <1>4 DEF Status
<1>6. S \subseteq PoolOfTasks!In("new")
  BY <1>3 DEF PoolOfTasks!In, Status
<1>7. QED BY <1>5, <1>6 DEF PoolOfTasks!Post

LEMMA PoolStep ==
  ASSUME MainFuncCallsCb, Inv, Inv', UserDone, StopDrained', Next
  PROVE  PoolOfTasks!Next \/ UNCHANGED <<Status, control = "stopped">>
<1>0. TypeOK /\ Ownership
  BY DEF Inv
<1>1. ASSUME NEW t \in Thread, ResumeFiber(t) \/ StartCallback(t) PROVE PoolOfTasks!Next
  BY <1>1, ResumeDispatches, CallbackDispatches DEF PoolOfTasks!Next
<1>2. ASSUME NEW t \in Thread, YieldToHold(t) \/ YieldToReady(t) \/ CbEnds(t)
      PROVE  PoolOfTasks!Next
  <2>1. \E j \in Job : PoolOfTasks!Pause(j)
    BY <1>2, LeavingPauses DEF YieldToHold, YieldToReady, CbEnds
  <2>2. QED BY <2>1 DEF PoolOfTasks!Next
<1>3. ASSUME NEW t \in Thread, BodySchedules(t) PROVE PoolOfTasks!Next
  <2>1. PICK j \in Job \ posted : posted' = posted \cup {j}
    BY <1>3 DEF BodySchedules
  <2>2. control # "stopped"
    BY <1>0, <1>3 DEF BodySchedules, Ownership, Locals
  <2>3. PoolOfTasks!Post({j})
    BY <1>3, <2>1, <2>2, SchedulingPosts DEF BodySchedules
  <2>4. QED BY <2>3 DEF PoolOfTasks!Next
<1>4. CASE MainSchedules
  <2>1. PICK j \in Job \ posted : posted' = posted \cup {j}
    BY <1>4 DEF MainSchedules
  <2>2. PoolOfTasks!Post({j})
    BY <1>4, <2>1, SchedulingPosts DEF MainSchedules, Accepting
  <2>3. QED BY <2>2 DEF PoolOfTasks!Next
<1>5. CASE MainSchedulesRange
  <2>1. PICK j \in Job \ posted, k \in Job \ posted : posted' = posted \cup {j, k}
    BY <1>5 DEF MainSchedulesRange
  <2>2. PoolOfTasks!Post({j, k})
    BY <1>5, <2>1, SchedulingPosts DEF MainSchedulesRange, Accepting
  <2>3. QED BY <2>2 DEF PoolOfTasks!Next
<1>6. ASSUME NEW t \in Thread, Discard(t) PROVE Stays
  <2> DEFINE f == ft[t]
  <2>1. /\ f \in Fiber /\ state[f] \in Dead /\ pc[t] = "taken"
        /\ pc' = [pc EXCEPT ![t] = "scan"] /\ ft' = [ft EXCEPT ![t] = None]
        /\ waker' = IF waker[f] = "fired" THEN [waker EXCEPT ![f] = "idle"] ELSE waker
        /\ UNCHANGED <<bound, posted, done, control>>
    BY <1>6 DEF Discard
  <2>2. waker[f] = "fired" => f \in done /\ bound[f] \in {f, None}
    BY <1>0, <2>1 DEF Ownership, NoWaker, UserDone, Bindings
  <2>3. \A u \in Thread \ {t} : pc'[u] = pc[u] /\ ft'[u] = ft[u]
    BY <1>0, <2>1 DEF TypeOK
  <2>4. pc'[t] = "scan"
    BY <1>0, <2>1 DEF TypeOK
  <2>5. ASSUME NEW j \in Job PROVE JobStatus(j)' = JobStatus(j)
    <3>1. Runs(j)' <=> Runs(j)
      BY <2>1, <2>3, <2>4 DEF Runs
    <3>2. j \notin done => (Sleeps(j)' <=> Sleeps(j))
      BY <1>0, <2>1, <2>2 DEF Sleeps, TypeOK
    <3>3. QED BY <2>1, <3>1, <3>2, SameStatus
  <2>6. QED BY <2>1, <2>5 DEF Stays, Status
<1>7. ASSUME NEW t \in Thread, Arm(t) PROVE Stays
  <2>1. /\ pc[t] = "body" /\ pc' = [pc EXCEPT ![t] = "armed"]
        /\ waker' = [waker EXCEPT ![ft[t]] = "armed"]
        /\ UNCHANGED <<ft, bound, posted, done, control>>
    BY <1>7 DEF Arm
  <2>2. \A u \in Thread : pc'[u] \in InBody <=> pc[u] \in InBody
    BY <1>0, <2>1 DEF TypeOK
  <2>3. Runs(bound[ft[t]])
    BY <2>1, InBodyRuns
  <2>4. ASSUME NEW j \in Job PROVE JobStatus(j)' = JobStatus(j)
    <3>1. Runs(j)' <=> Runs(j)
      BY <2>1, <2>2 DEF Runs
    <3>2. ~Runs(j) => (Sleeps(j)' <=> Sleeps(j))
      BY <1>0, <2>1, <2>3 DEF Sleeps, TypeOK
    <3>3. QED BY <2>1, <3>1, <3>2, SameStatus
  <2>5. QED BY <2>1, <2>4 DEF Stays, Status
<1>8. ASSUME NEW t \in Thread, Settle(t) PROVE Stays
  <2> DEFINE f == ft[t]
  <2>1. /\ f \in Fiber /\ pc[t] = "settle" /\ pc' = [pc EXCEPT ![t] = "scan"]
        /\ ft' = [ft EXCEPT ![t] = None] /\ UNCHANGED <<waker, posted, done, control>>
    BY <1>0, <1>8 DEF Settle, Ownership, HoldsTask
  <2>2. \/ bound' = bound
        \/ /\ bound' = [bound EXCEPT ![f] = None] /\ cbFiber[t] = f /\ state[f] \in Dead
    BY <1>8 DEF Settle
  <2>3. bound' # bound => waker[f] = "idle" /\ \A u \in Thread : pc[u] \in InBody => ft[u] # f
    BY <1>0, <2>1, <2>2 DEF Ownership, CbFiberReady, NoWaker, HolderState, HoldsTask
  <2>4. \A g \in Fiber \ {f} : bound'[g] = bound[g]
    BY <1>0, <2>1, <2>2 DEF TypeOK
  <2>5. /\ pc'[t] = "scan"
        /\ \A u \in Thread \ {t} : pc'[u] = pc[u] /\ ft'[u] = ft[u]
    BY <1>0, <2>1 DEF TypeOK
  <2>6. \A u \in Thread : pc[u] \in InBody => ft[u] \in Fiber
    BY <1>0 DEF Ownership, HoldsTask, TypeOK
  <2>7. ASSUME NEW j \in Job PROVE JobStatus(j)' = JobStatus(j)
    <3>1. Runs(j)' <=> Runs(j)
      BY <2>1, <2>3, <2>4, <2>5, <2>6 DEF Runs
    <3>2. Sleeps(j)' <=> Sleeps(j)
      <4>1. waker' = waker
        BY <2>1
      <4>2. \A g \in Fiber : waker[g] # "idle" => bound'[g] = bound[g]
        BY <2>3, <2>4
      <4>3. QED BY <4>1, <4>2 DEF Sleeps
    <3>3. QED BY <2>1, <3>1, <3>2, SameStatus
  <2>8. QED BY <2>1, <2>7 DEF Stays, Status
<1>9. ASSUME NEW f \in Fiber, Wake(f) PROVE Stays
  <2>1. /\ waker[f] = "armed" /\ waker' = [waker EXCEPT ![f] = "fired"]
        /\ UNCHANGED <<pc, ft, bound, posted, done, control>>
    BY <1>9 DEF Wake
  <2>2. ASSUME NEW j \in Job PROVE JobStatus(j)' = JobStatus(j)
    <3>1. Runs(j)' <=> Runs(j)
      BY <2>1 DEF Runs
    <3>2. Sleeps(j)' <=> Sleeps(j)
      BY <1>0, <2>1 DEF Sleeps, TypeOK
    <3>3. QED BY <2>1, <3>1, <3>2, SameStatus
  <2>3. QED BY <2>1, <2>2 DEF Stays, Status
<1>10. ASSUME NEW t \in Thread,
              \/ Take(t) \/ FindNothing(t) \/ SwitchTo(t) \/ CountDown(t)
              \/ IdleEnter(t) \/ IdleCheck(t) \/ IdleLeave(t)
       PROVE  Stays
  <2>1. /\ UNCHANGED <<bound, waker, posted, done, control>>
        /\ \E p : /\ pc' = [pc EXCEPT ![t] = p]
                  /\ pc[t] \in InBody <=> p \in InBody
        /\ pc[t] \in InBody => ft' = ft
        /\ ft' = ft \/ \E x : ft' = [ft EXCEPT ![t] = x]
    BY <1>10 DEF Take, FindNothing, SwitchTo, CountDown, IdleEnter, IdleCheck, IdleLeave
  <2>2. \A u \in Thread : pc'[u] \in InBody <=> pc[u] \in InBody
    BY <1>0, <2>1 DEF TypeOK
  <2>3. \A u \in Thread : pc[u] \in InBody => ft'[u] = ft[u]
    BY <1>0, <2>1 DEF TypeOK
  <2>4. QED BY <2>1, <2>2, <2>3, Unseen DEF Stays
<1>11. CASE Proceed
  <2>1. /\ UNCHANGED <<bound, waker, posted, done, ft>>
        /\ \A u \in Thread : pc'[u] \in InBody <=> pc[u] \in InBody
    <3>1. CASE Start
      BY <1>0, <3>1 DEF Start, TypeOK, Ownership, Locals
    <3>2. CASE StopBegin
      BY <3>2 DEF StopBegin
    <3>3. CASE StopCheck
      BY <1>0, <3>3 DEF StopCheck, TypeOK, Ownership, Locals
    <3>4. CASE CallReturns
      BY <1>0, <3>4 DEF CallReturns, TypeOK
    <3>5. CASE StopJoins
      BY <1>0, <3>5 DEF StopJoins, TypeOK, Ownership, Locals
    <3>6. QED BY <1>11, <3>1, <3>2, <3>3, <3>4, <3>5 DEF Proceed
  <2>2. Status' = Status
    BY <2>1, Unseen
  <2>3. CASE StopJoins
    <3>1. control' = "stopped" /\ \A u \in Thread : pc'[u] = "off"
      BY <2>3 DEF StopJoins
    <3>2. \A j : ~Runs(j)'
      BY <3>1 DEF Runs
    <3>3. \A j \in posted' \ done' : Sleeps(j)'
      BY <3>1 DEF StopDrained, Sleeps, Asleep
    <3>4. ASSUME NEW j \in Job PROVE Status'[j] \notin {"ready", "running"}
      BY <3>2, <3>3 DEF Status, JobStatus
    <3>5. PoolOfTasks!In("ready") = {} /\ PoolOfTasks!In("running") = {}
      BY <2>2, <3>4 DEF PoolOfTasks!In
    <3>6. PoolOfTasks!Close
      BY <2>2, <3>1, <3>5 DEF PoolOfTasks!Close
    <3>7. QED BY <3>6 DEF PoolOfTasks!Next
  <2>4. CASE Start
    <3>1. PoolOfTasks!Open
      BY <2>2, <2>4 DEF Start, PoolOfTasks!Open
    <3>2. QED BY <3>1 DEF PoolOfTasks!Next
  <2>5. CASE StopBegin \/ StopCheck \/ CallReturns
    BY <2>2, <2>5 DEF StopBegin, StopCheck, CallReturns
  <2>6. QED BY <1>11, <2>3, <2>4, <2>5 DEF Proceed
<1>12. Stays => UNCHANGED <<Status, control = "stopped">>
  BY DEF Stays
<1>13. QED
  BY <1>1, <1>2, <1>3, <1>4, <1>5, <1>6, <1>7, <1>8, <1>9, <1>10, <1>11, <1>12 DEF Next, Run

(* Every step of the scheduler is one of TaskPool or none: for any threads *)
(* and jobs no job is lost, entered twice, entered after its end or run    *)
(* beyond the number of threads, and stop() returns over a pool in which   *)
(* nothing is ready or runs.  The hypotheses are those of                  *)
(* StopDrainedCorrect; that a ready job comes to run is checked with TLC.  *)
THEOREM ImplementsTaskPoolSafely ==
  ASSUME MainFuncCallsCb, ~PinAnywhere
  PROVE  Spec => PoolOfTasks!Safe
<1>1. Inv /\ [Next \/ Over]_vars => Inv'
  BY InvStep
<1>2. Inv /\ Suspended /\ [Next \/ Over]_vars => Suspended'
  BY SuspendedStep
<1>3. Inv /\ Draining /\ [Next \/ Over]_vars => Draining'
  BY DrainingStep
<1>4. Init => Suspended
  BY DEF Init, Suspended
<1>5. Inv /\ Suspended /\ Draining => StopDrained
  BY StoppedDrained
<1>6. Init => PoolOfTasks!Init
  <2> SUFFICES ASSUME Init PROVE PoolOfTasks!Init
    OBVIOUS
  <2>1. \A j \in Job : JobStatus(j) = "new"
    BY DEF Init, JobStatus
  <2>2. QED BY <2>1 DEF Init, PoolOfTasks!Init, Status
<1>7. Inv /\ Inv' /\ Draining /\ StopDrained' /\ [Next \/ Over]_vars => [PoolOfTasks!Next]_<<Status, control = "stopped">>
  <2>1. CASE Next
    BY <2>1, PoolStep DEF Draining
  <2>2. UNCHANGED vars => UNCHANGED <<Status, control = "stopped">>
    BY DEF vars, Status, JobStatus, Runs, Sleeps
  <2>3. QED BY <2>1, <2>2 DEF Over
<1>8. QED
  BY InitInv, InitDraining, <1>1, <1>2, <1>3, <1>4, <1>5, <1>6, <1>7, PTL
     DEF Spec, PoolOfTasks!Safe, PoolOfTasks!vars
=============================================================================

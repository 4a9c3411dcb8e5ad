--------------------------- MODULE FdEventsProofs ---------------------------
(***************************************************************************)
(* For every set of descriptors, threads and pollers, whatever the calls   *)
(* and reports: the places where the event table keeps who waits agree,    *)
(* the table ends the process in the one way FailsOnlyStaleStep names, and *)
(* it implements EventWait.                                                *)
(***************************************************************************)
EXTENDS FdEvents, FiniteSetTheorems, TLAPS

-----------------------------------------------------------------------------
(* The inductive invariant.                                                *)

(* The table has an object for each descriptor below its size, and never   *)
(* gets smaller than it began.                                             *)
Table ==
  /\ size >= InitialSize
  /\ \A fd \in Fd : fd < size <=> slot[fd] # 0

(* What a call has found is what the table holds, unless a late growth cut *)
(* it off; a call that has found nothing is for a descriptor that the      *)
(* table did not have at first.                                            *)
FoundBy(u) ==
  IF op[u].ctx = Nil THEN op[u].fd >= InitialSize
  ELSE /\ op[u].ctx[1] = op[u].fd
       /\ slot[op[u].fd] = op[u].ctx[2] \/ op[u].fd \in lost

Found == \A u \in User : op[u] # Nil => FoundBy(u)

(* Who waits has asked. *)
WaitersAsked == \A c \in Context : \A e \in events[c] : <<c[1], e>> \in asked

Adds(u) == op[u] # Nil /\ op[u].kind = "add"
Asks(u) == <<op[u].fd, op[u].ev>>

(* What addEvent is called for is asked for, does not wait yet, and nobody *)
(* else asks for it.                                                       *)
AsksOnce ==
  /\ \A u \in User : Adds(u) =>
       /\ Asks(u) \in asked
       /\ \A c \in Context : c[1] = op[u].fd => op[u].ev \notin events[c]
  /\ \A u, v \in User : Adds(u) /\ Adds(v) /\ u # v => Asks(u) # Asks(v)

Agrees ==
  /\ armed = events
  /\ \A c \in Context :
       events[c] # {} => epoll[c[1]] = [events |-> events[c], ctx |-> c]
  /\ \A fd \in Fd : epoll[fd] # Nil => epoll[fd].events = events[epoll[fd].ctx] /\ epoll[fd].events # {}

(* data.ptr of a descriptor is an object of that descriptor. *)
OwnObject == \A fd \in Fd : epoll[fd] # Nil => epoll[fd].ctx[1] = fd

Inv ==
  /\ TypeOK /\ Agrees /\ OwnObject /\ PendingCounts /\ InContainer
  /\ Table /\ Found /\ WaitersAsked /\ AsksOnce

Calls == [kind : Kind, fd : Fd, ev : Event \cup {Nil}, ctx : Context \cup {Nil}]
Report == [ctx : Context, seen : SUBSET (Event \cup {Hup})]

(* Every call but at most those that return goes on as it was. *)
CallsLeft ==
  /\ op' \in [User -> Calls \cup {Nil}]
  /\ \A u \in User : op'[u] = Nil \/ op'[u] = op[u]

(* A section that takes the events E of c away. *)
TakesAway(c, E) ==
  /\ Control(c[1], Drop(c, E), Leaving(c, E), c)
  /\ events' = [events EXCEPT ![c] = @ \ E]
  /\ armed' = [armed EXCEPT ![c] = @ \ E]
  /\ pending' = pending - Cardinality(E)
  /\ asked' = asked \ ({c[1]} \X E)

-----------------------------------------------------------------------------
LEMMA Descriptors ==
  /\ Fd \subseteq Nat
  /\ \A s \in Source : s[1] \in Fd /\ s[2] \in Event /\ s = <<s[1], s[2]>>
  /\ Context = Fd \X (1 .. MaxContext)
<1>1. \A s \in Source : s[1] \in Nat /\ s = <<s[1], s[2]>>
  BY TableAssumption
<1>2. QED
  BY <1>1 DEF Fd, Event, Context

LEMMA FiniteEvents == IsFiniteSet(Event) /\ IsFiniteSet(Context \X Event)
<1>1. IsFiniteSet(Source)
  BY TableAssumption
<1>2. IsFiniteSet(Event)
  <2> DEFINE f == [s \in Source |-> s[2]]
  <2>1. f \in Surjection(Source, Event)
    BY DEF Surjection, Event
  <2>2. QED
    BY <1>1, <2>1, FS_Surjection
<1>3. IsFiniteSet(Fd)
  <2> DEFINE f == [s \in Source |-> s[1]]
  <2>1. f \in Surjection(Source, Fd)
    BY DEF Surjection, Fd
  <2>2. QED
    BY <1>1, <2>1, FS_Surjection
<1>4. IsFiniteSet(1 .. MaxContext)
  BY FS_Interval, TableAssumption
<1>5. IsFiniteSet(Context)
  BY <1>3, <1>4, FS_Product DEF Context
<1>6. QED
  BY <1>2, <1>5, FS_Product

(* What an entry of op, of got and of epoll is, when there is one. *)
LEMMA CallType ==
  ASSUME TypeOK, NEW u \in User, op[u] # Nil
  PROVE  /\ op[u] \in Calls
         /\ op[u].kind \in Kind /\ op[u].fd \in Fd /\ op[u].ev \in Event \cup {Nil}
         /\ op[u].ctx # Nil => op[u].ctx \in Context
<1>1. op[u] \in Calls
  BY DEF TypeOK, Calls
<1>2. QED
  BY <1>1 DEF Calls

LEMMA ReportType ==
  ASSUME TypeOK, NEW p \in Poller, got[p] # Nil
  PROVE  got[p].ctx \in Context /\ got[p].seen \subseteq Event \cup {Hup}
<1>1. got[p] \in Report
  BY DEF TypeOK, Report
<1>2. QED
  BY <1>1 DEF Report

(* Only one object of a descriptor has events. *)
LEMMA OneObject ==
  ASSUME TypeOK, Agrees, NEW c \in Context, NEW d \in Context, c[1] = d[1],
         events[c] # {}, events[d] # {}
  PROVE  c = d
<1>1. [events |-> events[c], ctx |-> c] = [events |-> events[d], ctx |-> d]
  BY DEF Agrees
<1>2. QED
  BY <1>1

LEMMA Registered ==
  ASSUME TypeOK, NEW c \in Context, NEW E \in SUBSET Event
  PROVE  [events |-> E, ctx |-> c] \in Registration /\ [events |-> E, ctx |-> c] # Nil
<1>1. [events |-> E, ctx |-> c] \in Registration
  BY DEF Registration
<1>2. QED
  BY <1>1, TableAssumption

LEMMA ControlTypes ==
  ASSUME TypeOK, NEW c \in Context, NEW E \in SUBSET Event, NEW ctl, Control(c[1], ctl, E, c)
  PROVE  epoll' \in [Fd -> Registration \cup {Nil}] /\ edge' \in [Fd -> BOOLEAN]
<1>1. [events |-> E, ctx |-> c] \in Registration
  BY Registered
<1>2. epoll \in [Fd -> Registration \cup {Nil}] /\ edge \in [Fd -> BOOLEAN]
  BY DEF TypeOK
<1>3. epoll' = [epoll EXCEPT ![c[1]] = IF ctl = "DEL" THEN Nil ELSE [events |-> E, ctx |-> c]]
  BY DEF Control
<1>4. edge' = [edge EXCEPT ![c[1]] = ctl # "DEL" /\ Reportable(c[1], E) # {}]
  BY DEF Control
<1>5. epoll' \in [Fd -> Registration \cup {Nil}]
  BY <1>1, <1>2, <1>3
<1>6. (ctl # "DEL" /\ Reportable(c[1], E) # {}) \in BOOLEAN
  OBVIOUS
<1>7. edge' \in [Fd -> BOOLEAN]
  BY <1>2, <1>4, <1>6
<1>8. QED
  BY <1>5, <1>7

-----------------------------------------------------------------------------
(* A section that takes events away.                                       *)

LEMMA TakeTypes ==
  ASSUME Inv, NEW c \in Context, NEW E \in SUBSET events[c], E # {}, TakesAway(c, E)
  PROVE  /\ E \subseteq Event /\ c[1] \in Fd
         /\ epoll' \in [Fd -> Registration \cup {Nil}] /\ edge' \in [Fd -> BOOLEAN]
         /\ events' \in [Context -> SUBSET Event] /\ armed' \in [Context -> SUBSET Event]
         /\ pending' \in Int /\ asked' \subseteq Source
         /\ events'[c] = events[c] \ E
         /\ \A d \in Context : d # c => events'[d] = events[d]
<1>1. TypeOK
  BY DEF Inv
<1>2. events \in [Context -> SUBSET Event] /\ armed \in [Context -> SUBSET Event]
      /\ pending \in Int /\ asked \subseteq Source
  BY <1>1 DEF TypeOK
<1>3. E \subseteq Event /\ c[1] \in Fd
  BY <1>2, Descriptors
<1>4. Leaving(c, E) \subseteq Event
  BY <1>2 DEF Leaving
<1>5. epoll' \in [Fd -> Registration \cup {Nil}] /\ edge' \in [Fd -> BOOLEAN]
  BY <1>1, <1>4, ControlTypes DEF TakesAway
<1>6. events' = [events EXCEPT ![c] = @ \ E] /\ armed' = [armed EXCEPT ![c] = @ \ E]
  BY DEF TakesAway
<1>7. events' \in [Context -> SUBSET Event] /\ armed' \in [Context -> SUBSET Event]
      /\ events'[c] = events[c] \ E
      /\ \A d \in Context : d # c => events'[d] = events[d]
  BY <1>2, <1>6
<1>8. Cardinality(E) \in Nat
  BY <1>3, FiniteEvents, FS_Subset, FS_CardinalityType
<1>9. pending' \in Int
  BY <1>2, <1>8 DEF TakesAway
<1>10. asked' \subseteq Source
  BY <1>2 DEF TakesAway
<1>11. QED
  BY <1>3, <1>5, <1>7, <1>9, <1>10

LEMMA TakeAgrees ==
  ASSUME Inv, NEW c \in Context, NEW E \in SUBSET events[c], E # {}, TakesAway(c, E)
  PROVE  Agrees' /\ OwnObject'
<1>1. TypeOK /\ Agrees
  BY DEF Inv
<1>2. /\ E \subseteq Event /\ c[1] \in Fd
      /\ events'[c] = events[c] \ E
      /\ \A d \in Context : d # c => events'[d] = events[d]
  BY TakeTypes
<1>3. events \in [Context -> SUBSET Event] /\ epoll \in [Fd -> Registration \cup {Nil}]
  BY <1>1 DEF TypeOK
<1>4. armed' = events'
  BY <1>1 DEF Agrees, TakesAway
<1>5. /\ \A fd \in Fd : fd # c[1] => epoll'[fd] = epoll[fd]
      /\ events'[c] = {} => epoll'[c[1]] = Nil
      /\ events'[c] # {} => epoll'[c[1]] = [events |-> events'[c], ctx |-> c]
  <2>1. epoll' = [epoll EXCEPT ![c[1]] = IF Drop(c, E) = "DEL" THEN Nil
                                          ELSE [events |-> Leaving(c, E), ctx |-> c]]
    BY DEF TakesAway, Control
  <2>2. Leaving(c, E) = events'[c]
    BY <1>2 DEF Leaving
  <2>3. Drop(c, E) = "DEL" <=> events'[c] = {}
    BY <2>2 DEF Drop
  <2>4. QED
    BY <1>2, <1>3, <2>1, <2>2, <2>3
<1>6. ASSUME NEW d \in Context, events'[d] # {}
      PROVE  epoll'[d[1]] = [events |-> events'[d], ctx |-> d]
  <2>1. CASE d = c
    BY <2>1, <1>5, <1>6
  <2>2. CASE d # c
    <3>1. events'[d] = events[d] /\ events[d] # {} /\ events[c] # {}
      BY <2>2, <1>2, <1>6
    <3>2. d[1] # c[1]
      BY <2>2, <3>1, <1>1, OneObject
    <3>3. epoll'[d[1]] = epoll[d[1]]
      BY <3>2, <1>5, Descriptors
    <3>4. QED
      BY <3>1, <3>3, <1>1 DEF Agrees
  <2>3. QED
    BY <2>1, <2>2
<1>7. ASSUME NEW fd \in Fd, epoll'[fd] # Nil
      PROVE  epoll'[fd].events = events'[epoll'[fd].ctx] /\ epoll'[fd].events # {}
  <2>1. CASE fd = c[1]
    BY <2>1, <1>5, <1>7
  <2>2. CASE fd # c[1]
    <3>1. epoll'[fd] = epoll[fd] /\ epoll[fd] # Nil
      BY <2>2, <1>5, <1>7
    <3>2. epoll[fd].events = events[epoll[fd].ctx] /\ epoll[fd].events # {}
          /\ epoll[fd].ctx \in Context
      BY <3>1, <1>1, <1>3 DEF Agrees, Registration
    <3>3. epoll[fd].ctx # c
      BY <2>2, <3>1 DEF Inv, OwnObject
    <3>4. QED
      BY <3>1, <3>2, <3>3, <1>2
  <2>3. QED
    BY <2>1, <2>2
<1>8. OwnObject'
  BY <1>5 DEF Inv, OwnObject
<1>9. QED
  BY <1>4, <1>6, <1>7, <1>8 DEF Agrees

LEMMA TakeCounts ==
  ASSUME Inv, NEW c \in Context, NEW E \in SUBSET events[c], E # {}, TakesAway(c, E)
  PROVE  PendingCounts'
<1> DEFINE P == {x \in Context \X Event : x[2] \in events[x[1]]}
           Q == {x \in Context \X Event : x[2] \in events'[x[1]]}
           T == {c} \X E
<1>1. /\ E \subseteq Event
      /\ events'[c] = events[c] \ E
      /\ \A d \in Context : d # c => events'[d] = events[d]
  BY TakeTypes
<1>2. IsFiniteSet(P) /\ IsFiniteSet(Q) /\ IsFiniteSet(E)
  BY <1>1, FiniteEvents, FS_Subset
<1>3. IsFiniteSet(T) /\ Cardinality(T) = 1 * Cardinality(E)
  <2>1. IsFiniteSet({c}) /\ Cardinality({c}) = 1
    BY FS_Singleton
  <2>2. QED
    BY <1>2, <2>1, FS_Product
<1>4. P = Q \cup T /\ Q \cap T = {}
  BY <1>1
<1>5. Cardinality(P) = Cardinality(Q) + Cardinality(T) - 0
  BY <1>2, <1>3, <1>4, FS_Union, FS_EmptySet
<1>6. Cardinality(E) \in Nat /\ Cardinality(Q) \in Nat /\ Cardinality(P) \in Nat
  BY <1>2, FS_CardinalityType
<1>7. pending = Cardinality(P) /\ pending' = pending - Cardinality(E)
  BY DEF Inv, PendingCounts, TakesAway
<1>8. pending' = Cardinality(Q)
  BY <1>3, <1>5, <1>6, <1>7
<1>9. QED
  BY <1>8 DEF PendingCounts

LEMMA TakeWaiters ==
  ASSUME Inv, NEW c \in Context, NEW E \in SUBSET events[c], E # {}, TakesAway(c, E)
  PROVE  WaitersAsked' /\ Waiting' = Waiting \ ({c[1]} \X E) /\ {c[1]} \X E \subseteq Waiting
<1>1. /\ TypeOK /\ Agrees /\ WaitersAsked /\ asked \subseteq Source
      /\ events \in [Context -> SUBSET Event]
  BY DEF Inv, TypeOK
<1>2. /\ E \subseteq Event
      /\ events'[c] = events[c] \ E
      /\ \A d \in Context : d # c => events'[d] = events[d]
  BY TakeTypes
<1>3. \A d \in Context : d # c /\ d[1] = c[1] => events[d] = {}
  BY <1>1, OneObject
<1>4. asked' = asked \ ({c[1]} \X E)
  BY DEF TakesAway
<1>5. WaitersAsked'
  <2> SUFFICES ASSUME NEW d \in Context, NEW e \in events'[d] PROVE <<d[1], e>> \in asked'
    BY DEF WaitersAsked
  <2>1. <<d[1], e>> \in asked
    BY <1>1, <1>2 DEF WaitersAsked
  <2>2. <<d[1], e>> \notin {c[1]} \X E
    BY <1>2, <1>3
  <2>3. QED
    BY <2>1, <2>2, <1>4
<1>6. {c[1]} \X E \subseteq Waiting
  BY <1>1, <1>2, Descriptors DEF WaitersAsked, Waiting
<1>7. ASSUME NEW s \in Source
      PROVE  s \in Waiting' <=> s \in Waiting /\ s \notin {c[1]} \X E
  <2>1. s = <<s[1], s[2]>>
    BY Descriptors
  <2>2. CASE s[1] = c[1]
    <3>1. s \in Waiting <=> s[2] \in events[c]
      BY <2>2, <1>3 DEF Waiting
    <3>2. s \in Waiting' <=> s[2] \in events'[c]
      BY <2>2, <1>2, <1>3 DEF Waiting
    <3>3. s \in {c[1]} \X E <=> s[2] \in E
      BY <2>1, <2>2
    <3>4. QED
      BY <3>1, <3>2, <3>3, <1>2
  <2>3. CASE s[1] # c[1]
    BY <2>3, <1>2 DEF Waiting
  <2>4. QED
    BY <2>2, <2>3
<1>8. Waiting \subseteq Source /\ Waiting' \subseteq Source
  BY DEF Waiting
<1>9. QED
  BY <1>5, <1>6, <1>7, <1>8

(* What concerns the calls, when some of them return.                      *)
LEMMA LessOps ==
  ASSUME Inv, CallsLeft, slot' = slot, lost' = lost, NEW c \in Context, NEW E \in SUBSET events[c],
         asked' = asked \ ({c[1]} \X E),
         \A d \in Context : events'[d] \subseteq events[d]
  PROVE  Found' /\ AsksOnce' /\ InContainer'
<1>1. Found'
  BY DEF Inv, Found, FoundBy, CallsLeft
<1>2. InContainer'
  BY DEF Inv, InContainer
<1>3. AsksOnce'
  <2>1. ASSUME NEW u \in User, Adds(u)'
        PROVE  /\ Asks(u)' \in asked'
               /\ \A d \in Context : d[1] = op'[u].fd => op'[u].ev \notin events'[d]
    <3>1. op'[u] = op[u] /\ Adds(u)
      BY <2>1 DEF CallsLeft, Adds
    <3>2. Asks(u) \in asked /\ \A d \in Context : d[1] = op[u].fd => op[u].ev \notin events[d]
      BY <3>1 DEF Inv, AsksOnce
    <3>3. Asks(u) \notin {c[1]} \X E
      BY <3>2 DEF Asks
    <3>4. Asks(u)' = Asks(u)
      BY <3>1 DEF Asks
    <3>5. QED
      BY <3>1, <3>2, <3>3, <3>4
  <2>2. ASSUME NEW u \in User, NEW v \in User, Adds(u)', Adds(v)', u # v
        PROVE  Asks(u)' # Asks(v)'
    <3>1. op'[u] = op[u] /\ Adds(u) /\ op'[v] = op[v] /\ Adds(v)
      BY <2>2 DEF CallsLeft, Adds
    <3>2. Asks(u) # Asks(v)
      BY <2>2, <3>1 DEF Inv, AsksOnce
    <3>3. QED
      BY <3>1, <3>2 DEF Asks
  <2>3. QED
    BY <2>1, <2>2 DEF AsksOnce
<1>4. QED
  BY <1>1, <1>2, <1>3

(* The sections that take events away. *)
LEMMA TakeKeeps ==
  ASSUME Inv, NEW c \in Context, NEW E \in SUBSET events[c], E # {}, TakesAway(c, E),
         UNCHANGED <<tableVars, ready, adds, failed>>, CallsLeft,
         scheduled' \in [Source -> Nat],
         got' \in [Poller -> Report \cup {Nil}]
  PROVE  Inv'
<1>1. slot' = slot /\ lost' = lost /\ size' = size /\ made' = made
  BY DEF tableVars
<1>2. TypeOK'
  BY <1>1, TakeTypes DEF Inv, TypeOK, Report, CallsLeft, Calls
<1>3. Agrees' /\ OwnObject'
  BY TakeAgrees
<1>4. PendingCounts'
  BY TakeCounts
<1>5. WaitersAsked'
  BY TakeWaiters
<1>6. Found' /\ AsksOnce' /\ InContainer'
  <2>1. \A d \in Context : events'[d] \subseteq events[d]
    BY TakeTypes
  <2>2. asked' = asked \ ({c[1]} \X E)
    BY DEF TakesAway
  <2>3. QED
    BY <1>1, <2>1, <2>2, LessOps
<1>7. Table'
  BY <1>1 DEF Inv, Table
<1>8. QED
  BY <1>2, <1>3, <1>4, <1>5, <1>6, <1>7 DEF Inv

(* What changes nothing of the events, the kernel's among them. *)
LEMMA IdleKeeps ==
  ASSUME Inv, UNCHANGED <<tableVars, eventVars, epoll, adds>>, CallsLeft,
         edge' \in [Fd -> BOOLEAN], ready' \in [Fd -> SUBSET (Event \cup {Hup})],
         got' \in [Poller -> Report \cup {Nil}],
         failed' \in {"no", "addEvent", "triggerEvent"},
         asked' = asked
  PROVE  Inv'
<1>1. /\ slot' = slot /\ lost' = lost /\ size' = size /\ made' = made
      /\ events' = events /\ armed' = armed /\ pending' = pending /\ scheduled' = scheduled
  BY DEF tableVars, eventVars
<1>2. TypeOK'
  BY <1>1 DEF Inv, TypeOK, Report, CallsLeft, Calls
<1>3. Agrees' /\ OwnObject' /\ PendingCounts' /\ WaitersAsked' /\ Table' /\ InContainer'
  BY <1>1 DEF Inv, Agrees, OwnObject, PendingCounts, WaitersAsked, Table, InContainer
<1>4. Found'
  BY <1>1 DEF Inv, Found, FoundBy, CallsLeft
<1>5. AsksOnce'
  BY <1>1 DEF Inv, AsksOnce, Adds, Asks, CallsLeft
<1>6. QED
  BY <1>2, <1>3, <1>4, <1>5 DEF Inv

LEMMA ReturnLeaves ==
  ASSUME TypeOK, NEW u \in User, Return(u)
  PROVE  CallsLeft
<1>1. op \in [User -> Calls \cup {Nil}]
  BY DEF TypeOK, Calls
<1>2. op' = [op EXCEPT ![u] = Nil]
  BY DEF Return
<1>3. QED
  BY <1>1, <1>2 DEF CallsLeft

-----------------------------------------------------------------------------
(* addEvent.                                                               *)

(* What an addEvent asks for does not wait, so its first assertion holds   *)
(* and, as armed and current events are the same, so do the others.        *)
LEMMA AddCase ==
  ASSUME Inv, NEW u \in User, Add(u),
         NEW c, c = op[u].ctx, NEW e, e = op[u].ev,
         NEW ctl, ctl = IF events[c] = {} THEN "ADD" ELSE "MOD"
  PROVE  /\ c \in Context /\ c[1] = op[u].fd /\ c[1] \in Fd /\ e \in Event /\ <<c[1], e>> \in Source
         /\ Adds(u) /\ Asks(u) = <<c[1], e>> /\ e \notin events[c] /\ <<c[1], e>> \notin Waiting
         /\ Return(u) /\ UNCHANGED <<tableVars, ready, got, adds, scheduled, failed>>
         /\ \/ CtlFails(c[1], ctl) /\ UNCHANGED <<eventVars, kernelVars>> /\ asked' = asked \ {<<c[1], e>>}
            \/ /\ ~CtlFails(c[1], ctl)
               /\ Control(c[1], ctl, events[c] \cup {e}, c)
               /\ pending' = pending + 1
               /\ events' = [events EXCEPT ![c] = @ \cup {e}]
               /\ armed' = [armed EXCEPT ![c] = @ \cup {e}]
               /\ asked' = asked
<1>1. TypeOK /\ Agrees /\ armed = events /\ asked \subseteq Source
  BY DEF Inv, Agrees, TypeOK
<1>2. /\ op[u] # Nil /\ op[u].ctx # Nil /\ op[u].kind = "add" /\ Return(u)
      /\ UNCHANGED <<tableVars, ready, got, adds>>
  BY DEF Add, InCall
<1>3. c \in Context /\ Adds(u)
  BY <1>1, <1>2, CallType DEF Adds
<1>4. c[1] = op[u].fd
  BY <1>2 DEF Inv, Found, FoundBy
<1>5. Asks(u) = <<c[1], e>>
  BY <1>4 DEF Asks
<1>6. <<c[1], e>> \in asked /\ \A d \in Context : d[1] = c[1] => e \notin events[d]
  BY <1>3, <1>4, <1>5 DEF Inv, AsksOnce
<1>7. <<c[1], e>> \in Source /\ c[1] \in Fd /\ e \in Event
  BY <1>1, <1>6, Descriptors
<1>8. e \notin events[c] /\ e \notin armed[c]
  BY <1>1, <1>3, <1>6
<1>9. <<c[1], e>> \notin Waiting
  BY <1>6 DEF Waiting
<1>10. (CASE e \in events[c] -> Dies("addEvent")
         [] e \notin events[c] /\ CtlFails(c[1], ctl) -> Refused /\ asked' = asked \ {<<c[1], e>>}
         [] e \in armed[c] /\ ~CtlFails(c[1], ctl) -> Dies("addEvent")
         [] OTHER ->
              /\ Control(c[1], ctl, events[c] \cup {e}, c)
              /\ pending' = pending + 1
              /\ events' = [events EXCEPT ![c] = @ \cup {e}]
              /\ armed' = [armed EXCEPT ![c] = @ \cup {e}]
              /\ UNCHANGED <<scheduled, asked, failed>>)
  BY DEF Add
<1>11. CASE CtlFails(c[1], ctl)
  <2>1. Refused /\ asked' = asked \ {<<c[1], e>>}
    BY <1>8, <1>10, <1>11
  <2>2. UNCHANGED <<eventVars, kernelVars, failed>>
    BY <2>1 DEF Refused
  <2>3. scheduled' = scheduled
    BY <2>2 DEF eventVars
  <2>4. QED
    BY <1>2, <1>3, <1>4, <1>5, <1>7, <1>8, <1>9, <1>11, <2>1, <2>2, <2>3
<1>12. CASE ~CtlFails(c[1], ctl)
  <2>1. /\ Control(c[1], ctl, events[c] \cup {e}, c)
        /\ pending' = pending + 1
        /\ events' = [events EXCEPT ![c] = @ \cup {e}]
        /\ armed' = [armed EXCEPT ![c] = @ \cup {e}]
        /\ UNCHANGED <<scheduled, asked, failed>>
    BY <1>8, <1>10, <1>12
  <2>2. QED
    BY <1>2, <1>3, <1>4, <1>5, <1>7, <1>8, <1>9, <1>12, <2>1
<1>13. QED
  BY <1>11, <1>12

(* No object of a descriptor but the one an event is added to has events,  *)
(* if epoll_ctl takes it.                                                  *)
LEMMA OthersEmpty ==
  ASSUME Inv, NEW c \in Context, NEW d \in Context, d # c, d[1] = c[1],
         ~CtlFails(c[1], IF events[c] = {} THEN "ADD" ELSE "MOD")
  PROVE  events[d] = {}
<1>1. TypeOK /\ Agrees /\ events \in [Context -> SUBSET Event]
  BY DEF Inv, TypeOK
<1>2. CASE events[c] = {}
  <2>1. epoll[c[1]] = Nil
    BY <1>2 DEF CtlFails
  <2>2. events[d] # {} => epoll[d[1]] = [events |-> events[d], ctx |-> d]
    BY <1>1 DEF Agrees
  <2>3. [events |-> events[d], ctx |-> d] # Nil
    BY <1>1, Registered
  <2>4. QED
    BY <2>1, <2>2, <2>3
<1>3. CASE events[c] # {}
  BY <1>1, <1>3, OneObject
<1>4. QED
  BY <1>2, <1>3

LEMMA AddKeeps == ASSUME Inv, NEW u \in User, Add(u) PROVE Inv'
<1> DEFINE c == op[u].ctx
           e == op[u].ev
           ctl == IF events[c] = {} THEN "ADD" ELSE "MOD"
<1>1. /\ c \in Context /\ c[1] = op[u].fd /\ c[1] \in Fd /\ e \in Event /\ <<c[1], e>> \in Source
      /\ Adds(u) /\ Asks(u) = <<c[1], e>> /\ e \notin events[c] /\ <<c[1], e>> \notin Waiting
      /\ Return(u) /\ UNCHANGED <<tableVars, ready, got, adds, scheduled, failed>>
      /\ \/ CtlFails(c[1], ctl) /\ UNCHANGED <<eventVars, kernelVars>> /\ asked' = asked \ {<<c[1], e>>}
         \/ /\ ~CtlFails(c[1], ctl)
            /\ Control(c[1], ctl, events[c] \cup {e}, c)
            /\ pending' = pending + 1
            /\ events' = [events EXCEPT ![c] = @ \cup {e}]
            /\ armed' = [armed EXCEPT ![c] = @ \cup {e}]
            /\ asked' = asked
  BY AddCase
<1>2. /\ TypeOK /\ Agrees /\ armed = events /\ events \in [Context -> SUBSET Event]
      /\ epoll \in [Fd -> Registration \cup {Nil}] /\ asked \subseteq Source /\ pending \in Int
  BY DEF Inv, Agrees, TypeOK
<1>3. CallsLeft /\ op'[u] = Nil
  <2>1. CallsLeft
    BY <1>1, <1>2, ReturnLeaves
  <2>2. QED
    BY <1>1, <1>2, <2>1 DEF Return, TypeOK
<1>4. slot' = slot /\ lost' = lost /\ size' = size /\ made' = made
  BY <1>1 DEF tableVars
<1>5. Table' /\ Found'
  BY <1>3, <1>4 DEF Inv, Table, Found, FoundBy, CallsLeft
<1>6. ASSUME NEW v \in User, Adds(v)'
      PROVE  /\ op'[v] = op[v] /\ Adds(v) /\ v # u /\ Asks(v)' = Asks(v) /\ Asks(v) # <<c[1], e>>
             /\ Asks(v) \in asked
             /\ \A d \in Context : d[1] = op[v].fd => op[v].ev \notin events[d]
  <2>1. op'[v] = op[v] /\ Adds(v) /\ v # u
    BY <1>3, <1>6 DEF CallsLeft, Adds
  <2>2. QED
    BY <2>1, <1>1 DEF Inv, AsksOnce, Asks
<1>7. ASSUME NEW v \in User, NEW w \in User, Adds(v)', Adds(w)', v # w
      PROVE  Asks(v)' # Asks(w)'
  BY <1>6, <1>7 DEF Inv, AsksOnce
<1>8. CASE CtlFails(c[1], ctl) /\ UNCHANGED <<eventVars, kernelVars>> /\ asked' = asked \ {<<c[1], e>>}
  <2>1. /\ events' = events /\ armed' = armed /\ pending' = pending /\ scheduled' = scheduled
        /\ epoll' = epoll /\ edge' = edge /\ ready' = ready /\ got' = got
    BY <1>1, <1>8 DEF eventVars, kernelVars
  <2>2. TypeOK'
    BY <1>1, <1>3, <1>4, <1>8, <2>1 DEF Inv, TypeOK, CallsLeft, Calls
  <2>3. Agrees' /\ OwnObject' /\ PendingCounts' /\ InContainer'
    BY <1>4, <2>1 DEF Inv, Agrees, OwnObject, PendingCounts, InContainer
  <2>4. WaitersAsked'
    BY <1>1, <1>8, <2>1 DEF Inv, WaitersAsked, Waiting
  <2>5. AsksOnce'
    <3>1. \A v \in User : Adds(v)' =>
             /\ Asks(v)' \in asked'
             /\ \A d \in Context : d[1] = op'[v].fd => op'[v].ev \notin events'[d]
      BY <1>6, <1>8, <2>1
    <3>2. QED
      BY <1>7, <3>1 DEF AsksOnce
  <2>6. QED
    BY <1>5, <2>2, <2>3, <2>4, <2>5 DEF Inv
<1>9. CASE /\ ~CtlFails(c[1], ctl)
           /\ Control(c[1], ctl, events[c] \cup {e}, c)
           /\ pending' = pending + 1
           /\ events' = [events EXCEPT ![c] = @ \cup {e}]
           /\ armed' = [armed EXCEPT ![c] = @ \cup {e}]
           /\ asked' = asked
  <2> DEFINE new == [events |-> events[c] \cup {e}, ctx |-> c]
  <2>1. /\ events'[c] = events[c] \cup {e}
        /\ \A d \in Context : d # c => events'[d] = events[d]
        /\ armed' = events' /\ events' \in [Context -> SUBSET Event]
    BY <1>1, <1>2, <1>9
  <2>2. \A d \in Context : d # c /\ d[1] = c[1] => events[d] = {}
    BY <1>1, <1>9, OthersEmpty
  <2>3. epoll' = [epoll EXCEPT ![c[1]] = new]
    <3>1. ctl # "DEL"
      OBVIOUS
    <3>2. QED
      BY <1>9, <3>1 DEF Control
  <2>4. epoll' \in [Fd -> Registration \cup {Nil}] /\ edge' \in [Fd -> BOOLEAN]
    <3>1. events[c] \cup {e} \in SUBSET Event
      BY <1>1, <1>2
    <3>2. QED
      BY <1>1, <1>2, <1>9, <3>1, ControlTypes
  <2>5. TypeOK'
    <3>1. armed' \in [Context -> SUBSET Event] /\ pending' \in Int
      BY <1>2, <1>9, <2>1
    <3>2. QED
      BY <1>1, <1>3, <1>4, <1>9, <2>1, <2>4, <3>1 DEF Inv, TypeOK, CallsLeft, Calls
  <2>6. Agrees' /\ OwnObject'
    <3>1. /\ epoll'[c[1]] = new /\ new.events = events'[c] /\ new.ctx = c /\ new.events # {}
          /\ \A fd \in Fd : fd # c[1] => epoll'[fd] = epoll[fd]
      BY <1>1, <1>2, <2>1, <2>3
    <3>2. ASSUME NEW d \in Context, events'[d] # {}
          PROVE  epoll'[d[1]] = [events |-> events'[d], ctx |-> d]
      <4>1. CASE d = c
        BY <4>1, <2>1, <3>1
      <4>2. CASE d # c
        BY <4>2, <2>1, <2>2, <3>1, <3>2, <1>2, Descriptors DEF Agrees
      <4>3. QED
        BY <4>1, <4>2
    <3>3. ASSUME NEW fd \in Fd, epoll'[fd] # Nil
          PROVE  /\ epoll'[fd].events = events'[epoll'[fd].ctx] /\ epoll'[fd].events # {}
                 /\ epoll'[fd].ctx[1] = fd
      <4>1. CASE fd = c[1]
        BY <4>1, <3>1
      <4>2. CASE fd # c[1]
        <5>1. epoll'[fd] = epoll[fd] /\ epoll[fd] # Nil
          BY <4>2, <3>1, <3>3
        <5>2. epoll[fd].ctx \in Context /\ epoll[fd].ctx[1] = fd
              /\ epoll[fd].events = events[epoll[fd].ctx] /\ epoll[fd].events # {}
          BY <5>1, <1>2 DEF Inv, Agrees, OwnObject, Registration
        <5>3. QED
          BY <4>2, <5>1, <5>2, <2>1
      <4>3. QED
        BY <4>1, <4>2
    <3>4. QED
      BY <2>1, <3>2, <3>3 DEF Agrees, OwnObject
  <2>7. PendingCounts'
    <3> DEFINE P == {x \in Context \X Event : x[2] \in events[x[1]]}
               Q == {x \in Context \X Event : x[2] \in events'[x[1]]}
    <3>1. Q = P \cup {<<c, e>>} /\ <<c, e>> \notin P
      BY <1>1, <2>1
    <3>2. IsFiniteSet(P)
      BY FiniteEvents, FS_Subset
    <3>3. pending = Cardinality(P)
      BY DEF Inv, PendingCounts
    <3>4. SUFFICES pending' = Cardinality(Q)
      BY DEF PendingCounts
    <3> HIDE DEF P, Q
    <3>5. Cardinality(Q) = Cardinality(P) + 1
      BY <3>1, <3>2, FS_AddElement
    <3>6. QED
      BY <1>9, <3>3, <3>5
  <2>8. InContainer'
    <3>1. slot[c[1]] = c[2] \/ c[1] \in lost
      BY <1>1 DEF Inv, Found, FoundBy, Add, InCall
    <3>2. QED
      BY <1>4, <2>1, <3>1 DEF Inv, InContainer
  <2>9. WaitersAsked'
    <3>1. <<c[1], e>> \in asked
      BY <1>1 DEF Inv, AsksOnce
    <3>2. QED
      BY <1>9, <2>1, <3>1 DEF Inv, WaitersAsked
  <2>10. AsksOnce'
    <3>1. ASSUME NEW v \in User, Adds(v)'
          PROVE  /\ Asks(v)' \in asked'
                 /\ \A d \in Context : d[1] = op'[v].fd => op'[v].ev \notin events'[d]
      <4>1. Asks(v) # <<c[1], e>> /\ Asks(v) = <<op[v].fd, op[v].ev>> /\ op'[v] = op[v]
        BY <1>6, <3>1 DEF Asks
      <4>2. QED
        BY <4>1, <1>6, <1>9, <2>1, <3>1
    <3>2. QED
      BY <1>7, <3>1 DEF AsksOnce
  <2>11. QED
    BY <1>5, <2>5, <2>6, <2>7, <2>8, <2>9, <2>10 DEF Inv
<1>10. QED
  BY <1>1, <1>8, <1>9

-----------------------------------------------------------------------------
(* delEvent, cancelEvent, cancelAll and the loop over the reports.         *)

(* What Trigger does when it finds all it is asked for, and that it does   *)
(* nothing when it does not.                                               *)
LEMMA TriggerCase ==
  ASSUME Inv, NEW c \in Context, NEW E, E \cap events[c] # {}, Trigger(c, E)
  PROVE  \/ /\ E \subseteq events[c] /\ E # {} /\ TakesAway(c, E)
            /\ scheduled' = [s \in Source |-> IF s \in {c[1]} \X E THEN scheduled[s] + 1 ELSE scheduled[s]]
            /\ failed' = failed
         \/ ~(E \subseteq events[c]) /\ Dies("triggerEvent")
<1>1. armed = events
  BY DEF Inv, Agrees
<1>2. CASE E \subseteq events[c]
  <2>1. E \subseteq armed[c]
    BY <1>1, <1>2
  <2>2. QED
    BY <1>2, <2>1 DEF Trigger, TakesAway
<1>3. CASE ~(E \subseteq events[c])
  <2>1. ~(E \subseteq armed[c])
    BY <1>1, <1>3
  <2>2. QED
    BY <1>3, <2>1 DEF Trigger
<1>4. QED
  BY <1>2, <1>3

LEMMA ScheduledType ==
  ASSUME TypeOK, NEW X,
         scheduled' = [s \in Source |-> IF s \in X THEN scheduled[s] + 1 ELSE scheduled[s]]
  PROVE  scheduled' \in [Source -> Nat]
BY DEF TypeOK

LEMMA TriggerKeeps ==
  ASSUME Inv, NEW c \in Context, NEW E, E \cap events[c] # {}, Trigger(c, E),
         UNCHANGED <<tableVars, ready, adds>>, CallsLeft,
         got' \in [Poller -> Report \cup {Nil}]
  PROVE  Inv'
<1>1. TypeOK
  BY DEF Inv
<1>2. CASE /\ E \subseteq events[c] /\ E # {} /\ TakesAway(c, E)
           /\ scheduled' = [s \in Source |-> IF s \in {c[1]} \X E THEN scheduled[s] + 1 ELSE scheduled[s]]
           /\ failed' = failed
  <2>1. scheduled' \in [Source -> Nat]
    BY <1>1, <1>2, ScheduledType
  <2>2. QED
    BY <1>2, <2>1, TakeKeeps
<1>3. CASE Dies("triggerEvent")
  <2>1. /\ UNCHANGED <<eventVars, kernelVars, asked>> /\ failed' = "triggerEvent"
    BY <1>3 DEF Dies
  <2>2. UNCHANGED epoll /\ edge' \in [Fd -> BOOLEAN] /\ ready' \in [Fd -> SUBSET (Event \cup {Hup})]
    BY <1>1, <2>1 DEF kernelVars, TypeOK
  <2>3. QED
    BY <2>1, <2>2, IdleKeeps
<1>4. QED
  BY <1>2, <1>3, TriggerCase

LEMMA RefusedKeeps ==
  ASSUME Inv, Refused, UNCHANGED <<tableVars, ready, adds, asked>>, CallsLeft,
         got' \in [Poller -> Report \cup {Nil}]
  PROVE  Inv'
<1>1. UNCHANGED <<eventVars, kernelVars, failed>>
  BY DEF Refused
<1>2. UNCHANGED epoll /\ edge' \in [Fd -> BOOLEAN] /\ ready' \in [Fd -> SUBSET (Event \cup {Hup})]
      /\ failed' \in {"no", "addEvent", "triggerEvent"}
  BY <1>1 DEF kernelVars, Inv, TypeOK
<1>3. QED
  BY <1>1, <1>2, IdleKeeps

LEMMA SameGot == ASSUME TypeOK, got' = got PROVE got' \in [Poller -> Report \cup {Nil}]
  BY DEF TypeOK, Report

LEMMA DelCase ==
  ASSUME Inv, NEW u \in User, Del(u), NEW c, c = op[u].ctx, NEW E, E = {op[u].ev}
  PROVE  /\ c \in Context /\ CallsLeft /\ UNCHANGED <<tableVars, ready, got, adds, failed, scheduled>>
         /\ \/ Refused /\ asked' = asked
            \/ E \subseteq events[c] /\ E # {} /\ TakesAway(c, E)
<1>1. TypeOK /\ armed = events /\ events \in [Context -> SUBSET Event]
  BY DEF Inv, Agrees, TypeOK
<1>2. /\ op[u] # Nil /\ op[u].ctx # Nil /\ Return(u)
      /\ UNCHANGED <<tableVars, ready, got, adds>>
  BY DEF Del, InCall
<1>3. c \in Context /\ CallsLeft
  BY <1>1, <1>2, CallType, ReturnLeaves
<1>4. CASE E \cap events[c] = {} \/ CtlFails(c[1], Drop(c, E))
  <2>1. Refused /\ asked' = asked
    BY <1>4 DEF Del
  <2>2. failed' = failed /\ scheduled' = scheduled
    BY <2>1 DEF Refused, eventVars
  <2>3. QED
    BY <1>2, <1>3, <2>1, <2>2
<1>5. CASE ~(E \cap events[c] = {} \/ CtlFails(c[1], Drop(c, E)))
  <2>1. /\ Control(c[1], Drop(c, E), Leaving(c, E), c)
        /\ events' = [events EXCEPT ![c] = Leaving(c, E)]
        /\ armed' = [armed EXCEPT ![c] = @ \ E]
        /\ pending' = pending - 1
        /\ asked' = asked \ ({c[1]} \X E)
        /\ UNCHANGED <<scheduled, failed>>
    BY <1>5 DEF Del
  <2>2. E \subseteq events[c] /\ E # {}
    BY <1>5
  <2>3. Cardinality(E) = 1
    BY FS_Singleton
  <2>4. TakesAway(c, E)
    BY <1>1, <1>3, <2>1, <2>3 DEF TakesAway, Leaving
  <2>5. QED
    BY <1>2, <1>3, <2>1, <2>2, <2>4
<1>6. QED
  BY <1>4, <1>5

LEMMA DelKeeps == ASSUME Inv, NEW u \in User, Del(u) PROVE Inv'
<1> DEFINE c == op[u].ctx
           E == {op[u].ev}
<1>1. /\ c \in Context /\ CallsLeft /\ UNCHANGED <<tableVars, ready, got, adds, failed, scheduled>>
      /\ \/ Refused /\ asked' = asked
         \/ E \subseteq events[c] /\ E # {} /\ TakesAway(c, E)
  BY DelCase
<1>2. got' \in [Poller -> Report \cup {Nil}] /\ scheduled' \in [Source -> Nat]
  BY <1>1, SameGot DEF Inv, TypeOK
<1>3. CASE Refused /\ asked' = asked
  BY <1>1, <1>2, <1>3, RefusedKeeps
<1>4. CASE E \subseteq events[c] /\ E # {} /\ TakesAway(c, E)
  BY <1>1, <1>2, <1>4, TakeKeeps
<1>5. QED
  BY <1>1, <1>3, <1>4

LEMMA CancelKeeps == ASSUME Inv, NEW u \in User, Cancel(u) PROVE Inv'
<1> DEFINE c == op[u].ctx
           E == IF op[u].kind = "cancel" THEN {op[u].ev} ELSE events[c]
<1>1. TypeOK
  BY DEF Inv
<1>2. /\ op[u] # Nil /\ op[u].ctx # Nil /\ Return(u)
      /\ UNCHANGED <<tableVars, ready, got, adds>>
  BY DEF Cancel, InCall
<1>3. c \in Context /\ CallsLeft /\ got' \in [Poller -> Report \cup {Nil}]
  BY <1>1, <1>2, CallType, ReturnLeaves, SameGot
<1>4. CASE E \cap events[c] = {} \/ CtlFails(c[1], Drop(c, E))
  <2>1. Refused /\ asked' = asked
    BY <1>4 DEF Cancel
  <2>2. QED
    BY <1>2, <1>3, <2>1, RefusedKeeps
<1>5. CASE ~(E \cap events[c] = {} \/ CtlFails(c[1], Drop(c, E)))
  <2>1. Trigger(c, E)
    BY <1>5 DEF Cancel
  <2>2. QED
    BY <1>2, <1>3, <1>5, <2>1, TriggerKeeps
<1>6. QED
  BY <1>4, <1>5

LEMMA HandleKeeps == ASSUME Inv, NEW p \in Poller, Handle(p) PROVE Inv'
<1> DEFINE c == got[p].ctx
           E == (got[p].seen \ {Hup}) \cup (IF Hup \in got[p].seen THEN events[c] ELSE {})
<1>1. TypeOK
  BY DEF Inv
<1>2. /\ got[p] # Nil /\ got' = [got EXCEPT ![p] = Nil]
      /\ UNCHANGED <<tableVars, ready, op, adds>>
  BY DEF Handle
<1>3. c \in Context /\ got' \in [Poller -> Report \cup {Nil}]
  BY <1>1, <1>2, ReportType DEF TypeOK, Report
<1>4. CallsLeft
  BY <1>1, <1>2 DEF CallsLeft, TypeOK, Calls
<1>5. CASE E \cap events[c] = {} \/ CtlFails(c[1], Drop(c, E))
  <2>1. Refused /\ asked' = asked
    BY <1>5 DEF Handle
  <2>2. QED
    BY <1>2, <1>3, <1>4, <2>1, RefusedKeeps
<1>6. CASE ~(E \cap events[c] = {} \/ CtlFails(c[1], Drop(c, E)))
  <2>1. Trigger(c, E)
    BY <1>6 DEF Handle
  <2>2. QED
    BY <1>2, <1>3, <1>4, <1>6, <2>1, TriggerKeeps
<1>7. QED
  BY <1>5, <1>6

-----------------------------------------------------------------------------
(* A call begins, the table grows, the kernel reports, the world goes on.  *)

LEMMA BeginKeeps ==
  ASSUME Inv, NEW u \in User, NEW kind \in Kind, NEW s \in Source, Begin(u, kind, s[1], s[2])
  PROVE  Inv'
<1> DEFINE fd == s[1]
           e == s[2]
           new == [kind |-> kind, fd |-> fd, ev |-> IF kind = "cancelAll" THEN Nil ELSE e,
                   ctx |-> IF Holds(size, fd) THEN <<fd, slot[fd]>> ELSE Nil]
<1>1. /\ TypeOK /\ fd \in Fd /\ fd \in Nat /\ e \in Event /\ s = <<fd, e>>
      /\ slot \in [Fd -> 0 .. MaxContext] /\ size \in Nat /\ asked \subseteq Source
  BY Descriptors DEF Inv, TypeOK
<1>2. /\ op[u] = Nil /\ op' = [op EXCEPT ![u] = new]
      /\ UNCHANGED <<tableVars, eventVars, kernelVars, ready, got, failed>>
  BY DEF Begin
<1>3. /\ size' = size /\ slot' = slot /\ made' = made /\ lost' = lost
      /\ events' = events /\ armed' = armed /\ pending' = pending /\ scheduled' = scheduled
      /\ epoll' = epoll /\ edge' = edge /\ ready' = ready /\ got' = got /\ failed' = failed
  BY <1>2 DEF tableVars, eventVars, kernelVars
<1>4. Holds(size, fd) => <<fd, slot[fd]>> \in Context /\ <<fd, slot[fd]>> # Nil
  <2>1. Holds(size, fd) => slot[fd] \in 1 .. MaxContext
    BY <1>1 DEF Holds, Inv, Table
  <2>2. QED
    BY <1>1, <2>1, TableAssumption DEF Context
<1>5. new \in Calls
  BY <1>1, <1>4 DEF Calls
<1>6. /\ op'[u] = new /\ \A v \in User : v # u => op'[v] = op[v]
      /\ op' \in [User -> Calls \cup {Nil}]
  BY <1>1, <1>2, <1>5 DEF TypeOK, Calls
<1>7. CASE kind = "add"
  <2>1. /\ <<fd, e>> \notin asked /\ asked' = asked \cup {<<fd, e>>}
        /\ adds < MaxAdd /\ adds' = adds + 1
    BY <1>7 DEF Begin
  <2>2. asked' \subseteq Source /\ adds' \in 0 .. MaxAdd
    BY <1>1, <2>1, TableAssumption DEF TypeOK
  <2>3. WaitersAsked'
    BY <1>3, <2>1 DEF Inv, WaitersAsked
  <2>4. ASSUME NEW v \in User, Adds(v)', v # u
        PROVE  /\ op'[v] = op[v] /\ Asks(v)' = Asks(v) /\ Asks(v) \in asked /\ Asks(v) # <<fd, e>>
               /\ Adds(v)
               /\ \A c \in Context : c[1] = op[v].fd => op[v].ev \notin events[c]
    <3>1. op'[v] = op[v] /\ Adds(v) /\ Asks(v)' = Asks(v)
      BY <1>6, <2>4 DEF Adds, Asks
    <3>2. QED
      BY <2>1, <3>1 DEF Inv, AsksOnce
  <2>5. Asks(u)' = <<fd, e>> /\ op'[u].fd = fd /\ op'[u].ev = e
    BY <1>6, <1>7 DEF Asks
  <2>6. \A c \in Context : c[1] = fd => e \notin events[c]
    BY <2>1 DEF Inv, WaitersAsked
  <2>7. ASSUME NEW v \in User, Adds(v)'
        PROVE  /\ Asks(v)' \in asked'
               /\ \A c \in Context : c[1] = op'[v].fd => op'[v].ev \notin events'[c]
    <3>1. CASE v = u
      BY <3>1, <1>3, <2>1, <2>5, <2>6
    <3>2. CASE v # u
      BY <3>2, <1>3, <2>1, <2>4, <2>7
    <3>3. QED
      BY <3>1, <3>2
  <2>8. ASSUME NEW v \in User, NEW w \in User, Adds(v)', Adds(w)', v # w
        PROVE  Asks(v)' # Asks(w)'
    <3>1. CASE v = u
      BY <3>1, <2>4, <2>5, <2>8
    <3>2. CASE w = u
      BY <3>2, <2>4, <2>5, <2>8
    <3>3. CASE v # u /\ w # u
      <4>1. Adds(v) /\ Adds(w) /\ Asks(v)' = Asks(v) /\ Asks(w)' = Asks(w)
        BY <3>3, <2>4, <2>8
      <4>2. QED
        BY <4>1, <2>8 DEF Inv, AsksOnce
    <3>4. QED
      BY <3>1, <3>2, <3>3
  <2>9. AsksOnce'
    BY <2>7, <2>8 DEF AsksOnce
  <2>10. QED
    <3>1. asked' \subseteq Source /\ adds' \in 0 .. MaxAdd /\ WaitersAsked' /\ AsksOnce'
      BY <2>2, <2>3, <2>9
    <3>2. TypeOK'
      BY <1>3, <1>6, <3>1 DEF Inv, TypeOK, Calls
    <3>3. Agrees' /\ OwnObject' /\ PendingCounts' /\ InContainer' /\ Table'
      BY <1>3 DEF Inv, Agrees, OwnObject, PendingCounts, InContainer, Table
    <3>4. Found'
      <4>1. ASSUME NEW v \in User, op'[v] # Nil PROVE FoundBy(v)'
        <5>1. CASE v # u
          BY <5>1, <4>1, <1>3, <1>6 DEF Inv, Found, FoundBy
        <5>2. CASE v = u
          <6>1. CASE Holds(size, fd)
            BY <5>2, <6>1, <1>3, <1>4, <1>6 DEF FoundBy
          <6>2. CASE ~Holds(size, fd)
            <7>1. fd >= InitialSize
              BY <6>2, <1>1, TableAssumption DEF Holds, Inv, Table
            <7>2. QED
              BY <5>2, <6>2, <7>1, <1>6 DEF FoundBy
          <6>3. QED
            BY <6>1, <6>2
        <5>3. QED
          BY <5>1, <5>2
      <4>2. QED
        BY <4>1 DEF Found
    <3>5. QED
      BY <3>1, <3>2, <3>3, <3>4 DEF Inv
<1>8. CASE kind # "add"
  <2>1. Holds(size, fd) /\ asked' = asked /\ adds' = adds
    BY <1>8 DEF Begin, programVars
  <2>2. TypeOK'
    BY <1>3, <1>6, <2>1 DEF Inv, TypeOK, Calls
  <2>3. Agrees' /\ OwnObject' /\ PendingCounts' /\ InContainer' /\ Table' /\ WaitersAsked'
    BY <1>3, <2>1 DEF Inv, Agrees, OwnObject, PendingCounts, InContainer, Table, WaitersAsked
  <2>4. Found'
    <3>1. FoundBy(u)'
      BY <1>3, <1>4, <1>6, <2>1 DEF FoundBy
    <3>2. QED
      BY <1>3, <1>6, <3>1 DEF Inv, Found, FoundBy
  <2>5. AsksOnce'
    <3>1. ~Adds(u)'
      BY <1>6, <1>8 DEF Adds
    <3>2. \A v \in User : Adds(v)' => op'[v] = op[v] /\ Adds(v)
      BY <1>6, <3>1 DEF Adds
    <3>3. QED
      BY <1>3, <2>1, <3>2 DEF Inv, AsksOnce, Asks
  <2>6. QED
    BY <2>2, <2>3, <2>4, <2>5 DEF Inv
<1>9. QED
  BY <1>7, <1>8

LEMMA GrowKeeps == ASSUME Inv, NEW u \in User, Grow(u) PROVE Inv'
<1> DEFINE fd == op[u].fd
           n == (3 * fd) \div 2
           new == Slots(n)
<1>1. /\ op[u] # Nil /\ op[u].ctx = Nil
      /\ \A f \in Fd : new[f] <= MaxContext
      /\ size' = n /\ slot' = new
      /\ lost' = lost \cup {f \in Fd : Late(u) /\ Holds(size, f) /\ ~Holds(n, f)}
      /\ made' = [f \in Fd |-> IF new[f] > made[f] THEN new[f] ELSE made[f]]
      /\ op' = [op EXCEPT ![u].ctx = <<fd, new[fd]>>]
      /\ UNCHANGED <<eventVars, kernelVars, ready, got, programVars, failed>>
  BY DEF Grow
<1>2. /\ events' = events /\ armed' = armed /\ pending' = pending /\ scheduled' = scheduled
      /\ epoll' = epoll /\ edge' = edge /\ ready' = ready /\ got' = got /\ failed' = failed
      /\ asked' = asked /\ adds' = adds
  BY <1>1 DEF eventVars, kernelVars, programVars
<1>3. /\ TypeOK /\ op[u] \in Calls /\ fd \in Fd /\ fd \in Nat /\ InitialSize \in Nat
      /\ size \in Nat /\ slot \in [Fd -> 0 .. MaxContext] /\ made \in [Fd -> 0 .. MaxContext]
      /\ MaxContext \in Nat
  BY <1>1, CallType, Descriptors, TableAssumption DEF Inv, TypeOK
<1>4. fd >= InitialSize
  BY <1>1 DEF Inv, Found, FoundBy
<1>5. n > fd /\ n \in Nat
  BY <1>3, <1>4, TableAssumption
<1> HIDE DEF n
<1>6. \A f \in Fd : f \in Nat /\ (f < n <=> new[f] # 0) /\ new[f] \in 0 .. MaxContext
                    /\ (f < n /\ f < size => new[f] = slot[f])
  <2> SUFFICES ASSUME NEW f \in Fd
               PROVE  f \in Nat /\ (f < n <=> new[f] # 0) /\ new[f] \in 0 .. MaxContext
                      /\ (f < n /\ f < size => new[f] = slot[f])
    OBVIOUS
  <2>1. f \in Nat /\ new[f] <= MaxContext /\ slot[f] \in Nat /\ made[f] \in Nat
    BY <1>1, <1>3, Descriptors
  <2>2. /\ ~(f < n) => new[f] = 0
        /\ f < n /\ f < size => new[f] = slot[f]
        /\ f < n /\ ~(f < size) => new[f] = made[f] + 1
    BY DEF Slots, Holds
  <2>3. f < size => slot[f] # 0
    BY DEF Inv, Table
  <2> HIDE DEF new
  <2>4. QED
    BY <2>1, <2>2, <2>3, <1>3, <1>5
<1> HIDE DEF new
<1>7. <<fd, new[fd]>> \in Context /\ <<fd, new[fd]>> # Nil /\ new[fd] # 0
  <2>1. new[fd] \in 1 .. MaxContext
    BY <1>3, <1>5, <1>6
  <2>2. QED
    BY <1>3, <2>1, TableAssumption DEF Context
<1>8. /\ op'[u] = [op[u] EXCEPT !.ctx = <<fd, new[fd]>>]
      /\ \A v \in User : v # u => op'[v] = op[v]
      /\ op'[u] \in Calls /\ op' \in [User -> Calls \cup {Nil}]
  <2>1. op \in [User -> Calls \cup {Nil}]
    BY <1>3 DEF TypeOK, Calls
  <2>2. op' = [op EXCEPT ![u] = [op[u] EXCEPT !.ctx = <<fd, new[fd]>>]]
    BY <1>1, <2>1
  <2>3. [op[u] EXCEPT !.ctx = <<fd, new[fd]>>] \in Calls
    BY <1>3, <1>7 DEF Calls
  <2>4. QED
    BY <2>1, <2>2, <2>3
<1>9. /\ op'[u].kind = op[u].kind /\ op'[u].fd = fd /\ op'[u].ev = op[u].ev
      /\ op'[u].ctx = <<fd, new[fd]>>
  BY <1>3, <1>8 DEF Calls
<1>10. TypeOK'
  <2>1. made' \in [Fd -> 0 .. MaxContext] /\ slot' \in [Fd -> 0 .. MaxContext]
    <3>1. slot' \in [Fd -> 0 .. MaxContext]
      <4>1. slot' = [f \in Fd |-> new[f]]
        BY <1>1 DEF new, Slots
      <4>2. QED
        BY <1>6, <4>1
    <3>2. QED
      BY <1>1, <1>3, <1>6, <3>1
  <2>2. lost' \subseteq Fd
    BY <1>1, <1>3 DEF TypeOK
  <2>3. QED
    BY <1>1, <1>2, <1>3, <1>5, <1>8, <2>1, <2>2 DEF TypeOK, Calls
<1>11. Agrees' /\ OwnObject' /\ PendingCounts' /\ WaitersAsked'
  BY <1>2 DEF Inv, Agrees, OwnObject, PendingCounts, WaitersAsked
<1>12. Table'
  BY <1>1, <1>3, <1>4, <1>5, <1>6 DEF Table
<1>13. ASSUME NEW c \in Context, slot[c[1]] = c[2] \/ c[1] \in lost
       PROVE  slot'[c[1]] = c[2] \/ c[1] \in lost'
  <2>1. CASE c[1] \in lost
    BY <2>1, <1>1
  <2>2. CASE slot[c[1]] = c[2]
    <3>1. c[1] \in Fd /\ c[1] \in Nat /\ c[2] # 0
      BY Descriptors
    <3>2. c[1] < size
      BY <2>2, <3>1 DEF Inv, Table
    <3>3. CASE c[1] < n
      BY <1>1, <1>6, <2>2, <3>1, <3>2, <3>3
    <3>4. CASE ~(c[1] < n)
      <4>1. Late(u)
        BY <3>1, <3>2, <3>4, <1>3, <1>5 DEF Late, Holds
      <4>2. QED
        BY <4>1, <3>1, <3>2, <3>4, <1>1 DEF Holds
    <3>5. QED
      BY <3>3, <3>4
  <2>3. QED
    BY <2>1, <2>2, <1>13
<1>14. InContainer'
  BY <1>2, <1>13 DEF Inv, InContainer
<1>15. Found'
  <2>1. ASSUME NEW v \in User, op'[v] # Nil PROVE FoundBy(v)'
    <3>1. CASE v = u
      BY <3>1, <1>1, <1>7, <1>9 DEF FoundBy
    <3>2. CASE v # u
      <4>1. op'[v] = op[v] /\ FoundBy(v)
        BY <3>2, <2>1, <1>8 DEF Inv, Found
      <4>2. CASE op[v].ctx = Nil
        BY <4>1, <4>2 DEF FoundBy
      <4>3. CASE op[v].ctx # Nil
        <5>1. op[v].ctx \in Context
          BY <4>1, <4>3, <2>1, <1>3, CallType
        <5>2. QED
          BY <4>1, <4>3, <5>1, <1>13 DEF FoundBy
      <4>4. QED
        BY <4>2, <4>3
    <3>3. QED
      BY <3>1, <3>2
  <2>2. QED
    BY <2>1 DEF Found
<1>16. AsksOnce'
  <2>1. \A v \in User : (Adds(v)' => Adds(v)) /\ op'[v].fd = op[v].fd /\ op'[v].ev = op[v].ev
    BY <1>1, <1>8, <1>9 DEF Adds
  <2>2. QED
    BY <1>2, <2>1 DEF Inv, AsksOnce, Asks
<1>17. QED
  BY <1>10, <1>11, <1>12, <1>14, <1>15, <1>16 DEF Inv

LEMMA SameOp == ASSUME TypeOK, op' = op PROVE CallsLeft
  BY DEF TypeOK, CallsLeft, Calls

LEMMA CollectKeeps == ASSUME Inv, NEW p \in Poller, Collect(p) PROVE Inv'
<1>1. PICK fd \in Fd :
        /\ epoll[fd] # Nil
        /\ got' = [got EXCEPT ![p] = [ctx |-> epoll[fd].ctx,
                                      seen |-> Reportable(fd, epoll[fd].events)]]
        /\ edge' = [edge EXCEPT ![fd] = FALSE]
  BY DEF Collect
<1>2. UNCHANGED <<tableVars, eventVars, epoll, ready, op, programVars, failed>>
  BY DEF Collect
<1>3. TypeOK /\ epoll[fd] \in Registration /\ got \in [Poller -> Report \cup {Nil}]
  BY <1>1 DEF Inv, TypeOK, Report
<1>4. [ctx |-> epoll[fd].ctx, seen |-> Reportable(fd, epoll[fd].events)] \in Report
  BY <1>3 DEF Registration, Report, Reportable
<1>5. got' \in [Poller -> Report \cup {Nil}] /\ edge' \in [Fd -> BOOLEAN]
  BY <1>1, <1>3, <1>4 DEF TypeOK
<1>6. ready' \in [Fd -> SUBSET (Event \cup {Hup})] /\ failed' \in {"no", "addEvent", "triggerEvent"}
  BY <1>2, <1>3 DEF TypeOK
<1>7. asked' = asked /\ adds' = adds
  BY <1>2 DEF programVars
<1>8. QED
  BY <1>2, <1>3, <1>5, <1>6, <1>7, SameOp, IdleKeeps

LEMMA BecomesReadyKeeps ==
  ASSUME Inv, NEW fd \in Fd, NEW x \in Event \cup {Hup}, BecomesReady(fd, x)
  PROVE  Inv'
<1>1. /\ UNCHANGED <<tableVars, eventVars, epoll, op, got, programVars, failed>>
      /\ ready' = [ready EXCEPT ![fd] = @ \cup {x}]
      /\ edge' = [edge EXCEPT ![fd] = @ \/ (epoll[fd] # Nil /\ x \in epoll[fd].events \cup {Hup})]
  BY DEF BecomesReady
<1>2. TypeOK /\ ready \in [Fd -> SUBSET (Event \cup {Hup})] /\ edge \in [Fd -> BOOLEAN]
  BY DEF Inv, TypeOK
<1>3. ready' \in [Fd -> SUBSET (Event \cup {Hup})]
  BY <1>1, <1>2
<1>4. (edge[fd] \/ (epoll[fd] # Nil /\ x \in epoll[fd].events \cup {Hup})) \in BOOLEAN
  OBVIOUS
<1>5. edge' \in [Fd -> BOOLEAN]
  BY <1>1, <1>2, <1>4
<1>6. got' \in [Poller -> Report \cup {Nil}] /\ failed' \in {"no", "addEvent", "triggerEvent"}
      /\ asked' = asked /\ adds' = adds
  BY <1>1, <1>2, SameGot DEF TypeOK, programVars
<1>7. QED
  BY <1>1, <1>2, <1>3, <1>5, <1>6, SameOp, IdleKeeps

LEMMA DrainKeeps ==
  ASSUME Inv, NEW s \in Source, Drain(s[1], s[2])
  PROVE  Inv'
<1>1. /\ UNCHANGED <<tableVars, eventVars, kernelVars, op, got, programVars, failed>>
      /\ ready' = [ready EXCEPT ![s[1]] = @ \ {s[2]}]
  BY DEF Drain
<1>2. TypeOK /\ ready \in [Fd -> SUBSET (Event \cup {Hup})] /\ edge \in [Fd -> BOOLEAN]
  BY DEF Inv, TypeOK
<1>3. ready' \in [Fd -> SUBSET (Event \cup {Hup})] /\ edge' \in [Fd -> BOOLEAN] /\ epoll' = epoll
  BY <1>1, <1>2 DEF kernelVars
<1>4. got' \in [Poller -> Report \cup {Nil}] /\ failed' \in {"no", "addEvent", "triggerEvent"}
      /\ asked' = asked /\ adds' = adds
  BY <1>1, <1>2, SameGot DEF TypeOK, programVars
<1>5. QED
  BY <1>1, <1>2, <1>3, <1>4, SameOp, IdleKeeps

-----------------------------------------------------------------------------
LEMMA InitInv == Init => Inv
<1> SUFFICES ASSUME Init PROVE Inv
  OBVIOUS
<1>1. /\ size = InitialSize
      /\ made = [fd \in Fd |-> IF fd < InitialSize THEN 1 ELSE 0] /\ slot = made
      /\ events = [c \in Context |-> {}] /\ armed = [c \in Context |-> {}]
      /\ epoll = [fd \in Fd |-> Nil] /\ edge = [fd \in Fd |-> FALSE]
      /\ ready = [fd \in Fd |-> {}] /\ pending = 0
      /\ op = [u \in User |-> Nil] /\ got = [p \in Poller |-> Nil]
      /\ asked = {} /\ adds = 0 /\ scheduled = [s \in Source |-> 0] /\ lost = {} /\ failed = "no"
  BY DEF Init
<1>2. TypeOK
  <2>1. made \in [Fd -> 0 .. MaxContext] /\ slot \in [Fd -> 0 .. MaxContext]
    BY <1>1, TableAssumption
  <2>2. size \in Nat /\ pending \in Int /\ adds \in 0 .. MaxAdd
    BY <1>1, TableAssumption
  <2>3. QED
    BY <1>1, <2>1, <2>2 DEF TypeOK
<1>3. Agrees /\ OwnObject /\ Found /\ AsksOnce
  BY <1>1 DEF Agrees, OwnObject, Found, AsksOnce, Adds
<1>4. InContainer /\ WaitersAsked
  BY <1>1 DEF InContainer, WaitersAsked
<1>5. Table
  BY <1>1, TableAssumption, Descriptors DEF Table
<1>6. PendingCounts
  <2>1. {x \in Context \X Event : x[2] \in events[x[1]]} = {}
    BY <1>1
  <2>2. QED
    BY <1>1, <2>1, FS_EmptySet DEF PendingCounts
<1>7. QED
  BY <1>2, <1>3, <1>4, <1>5, <1>6 DEF Inv

LEMMA StutterKeeps == ASSUME Inv, UNCHANGED vars PROVE Inv'
<1>1. UNCHANGED <<tableVars, eventVars, kernelVars, ready, op, got, programVars, failed>>
  BY DEF vars
<1>2. /\ TypeOK /\ epoll' = epoll /\ edge' = edge /\ ready' = ready /\ failed' = failed
      /\ asked' = asked /\ adds' = adds
  BY <1>1 DEF Inv, kernelVars, programVars
<1>3. edge' \in [Fd -> BOOLEAN] /\ ready' \in [Fd -> SUBSET (Event \cup {Hup})]
      /\ failed' \in {"no", "addEvent", "triggerEvent"}
  BY <1>2 DEF TypeOK
<1>4. QED
  BY <1>1, <1>2, <1>3, SameOp, SameGot, IdleKeeps

LEMMA NextInv == Inv /\ [Next]_vars => Inv'
<1> SUFFICES ASSUME Inv, [Next]_vars PROVE Inv'
  OBVIOUS
<1>1. ASSUME NEW u \in User, NEW kind \in Kind, NEW s \in Source, Begin(u, kind, s[1], s[2])
      PROVE  Inv'
  BY <1>1, BeginKeeps
<1>2. ASSUME NEW u \in User, Call(u) PROVE Inv'
  BY <1>2, GrowKeeps, AddKeeps, DelKeeps, CancelKeeps DEF Call
<1>3. ASSUME NEW p \in Poller, Poll(p) PROVE Inv'
  BY <1>3, CollectKeeps, HandleKeeps DEF Poll
<1>4. ASSUME NEW fd \in Fd, NEW x \in Event \cup {Hup}, BecomesReady(fd, x) PROVE Inv'
  BY <1>4, BecomesReadyKeeps
<1>5. ASSUME NEW s \in Source, Drain(s[1], s[2]) PROVE Inv'
  BY <1>5, DrainKeeps
<1>6. CASE UNCHANGED vars
  BY <1>6, StutterKeeps
<1>7. QED
  BY <1>1, <1>2, <1>3, <1>4, <1>5, <1>6 DEF Next

(* The invariant holds at every step of the table (iomanager.cpp:139-291   *)
(* and 378-428), for every set of descriptors and threads.                 *)
THEOREM TableInvariant == Spec => []Inv
<1>1. Init => Inv
  BY InitInv
<1>2. Inv /\ [Next]_vars => Inv'
  BY NextInv
<1>3. QED
  BY <1>1, <1>2, PTL DEF Spec

(* FdContext, EventContext and the kernel's registration agree between any *)
(* two sections under fd_ctx->mutex.                                       *)
THEOREM TableAgrees == Spec => []Agreement
<1>1. Inv => Agreement
  BY DEF Inv, Agrees, Agreement
<1>2. QED
  BY <1>1, TableInvariant, PTL

(* m_pendingEventCount is exact on all the paths that move it, so          *)
(* stopping() goes by the right number.                                    *)
THEOREM TableCounts == Spec => []PendingCounts
<1>1. Inv => PendingCounts
  BY DEF Inv
<1>2. QED
  BY <1>1, TableInvariant, PTL

(* Nothing that waits is out of m_fdContexts, but for what a resize that   *)
(* came too late has cut off (iomanager.cpp:148-151).                      *)
THEOREM TableContains == Spec => []InContainer
<1>1. Inv => InContainer
  BY DEF Inv
<1>2. QED
  BY <1>1, TableInvariant, PTL

-----------------------------------------------------------------------------
(* How it fails.                                                           *)

FailsStale == failed' # failed => \E p \in Poller : got[p] # Nil /\ got'[p] = Nil /\ Stale(got[p])

LEMMA CancelDoesNotFail == ASSUME Inv, NEW u \in User, Cancel(u) PROVE failed' = failed
<1> DEFINE c == op[u].ctx
           E == IF op[u].kind = "cancel" THEN {op[u].ev} ELSE events[c]
<1>1. c \in Context
  BY CallType DEF Inv, Cancel, InCall
<1>2. CASE E \cap events[c] = {} \/ CtlFails(c[1], Drop(c, E))
  BY <1>2 DEF Cancel, Refused
<1>3. CASE ~(E \cap events[c] = {} \/ CtlFails(c[1], Drop(c, E)))
  <2>1. Trigger(c, E)
    BY <1>3 DEF Cancel
  <2>2. E \subseteq events[c]
    BY <1>3
  <2> HIDE DEF c, E
  <2>3. QED
    BY <1>1, <1>3, <2>1, <2>2, TriggerCase
<1>4. QED
  BY <1>2, <1>3

LEMMA HandleFailsStale == ASSUME Inv, NEW p \in Poller, Handle(p) PROVE FailsStale
<1> DEFINE c == got[p].ctx
           E == (got[p].seen \ {Hup}) \cup (IF Hup \in got[p].seen THEN events[c] ELSE {})
<1>1. /\ got[p] # Nil /\ got'[p] = Nil /\ c \in Context
  BY ReportType DEF Inv, Handle, TypeOK
<1>2. CASE E \cap events[c] = {} \/ CtlFails(c[1], Drop(c, E))
  <2>1. failed' = failed
    BY <1>2 DEF Handle, Refused
  <2>2. QED
    BY <2>1 DEF FailsStale
<1>3. CASE ~(E \cap events[c] = {} \/ CtlFails(c[1], Drop(c, E)))
  <2>1. Trigger(c, E)
    BY <1>3 DEF Handle
  <2>2. failed' = failed \/ ~(E \subseteq events[c])
    <3> HIDE DEF c, E
    <3>1. QED
      BY <1>1, <1>3, <2>1, TriggerCase
  <2>3. ~(E \subseteq events[c]) => Stale(got[p])
    BY <1>3 DEF Stale
  <2>4. QED
    BY <1>1, <2>2, <2>3 DEF FailsStale
<1>4. QED
  BY <1>2, <1>3

LEMMA StepFailsStale == Inv /\ [Next]_vars => FailsStale
<1> SUFFICES ASSUME Inv, [Next]_vars, failed' # failed PROVE FailsStale
  BY DEF FailsStale
<1>1. ASSUME NEW u \in User, NEW kind \in Kind, NEW s \in Source, Begin(u, kind, s[1], s[2])
      PROVE  FALSE
  BY <1>1 DEF Begin
<1>2. ASSUME NEW u \in User, Call(u) PROVE FALSE
  <2>1. CASE Grow(u)
    BY <2>1 DEF Grow
  <2>2. CASE Add(u)
    <3>1. UNCHANGED <<tableVars, ready, got, adds, scheduled, failed>>
      BY <2>2, AddCase
    <3>2. QED
      BY <3>1
  <2>3. CASE Del(u)
    <3>1. UNCHANGED <<tableVars, ready, got, adds, failed, scheduled>>
      BY <2>3, DelCase
    <3>2. QED
      BY <3>1
  <2>4. CASE Cancel(u)
    BY <2>4, CancelDoesNotFail
  <2>5. QED
    BY <1>2, <2>1, <2>2, <2>3, <2>4 DEF Call
<1>3. ASSUME NEW p \in Poller, Poll(p) PROVE FailsStale
  <2>1. CASE Collect(p)
    BY <2>1 DEF Collect
  <2>2. CASE Handle(p)
    BY <2>2, HandleFailsStale
  <2>3. QED
    BY <1>3, <2>1, <2>2 DEF Poll
<1>4. ASSUME NEW fd \in Fd, NEW x \in Event \cup {Hup}, BecomesReady(fd, x) PROVE FALSE
  BY <1>4 DEF BecomesReady
<1>5. ASSUME NEW s \in Source, Drain(s[1], s[2]) PROVE FALSE
  BY <1>5 DEF Drain
<1>6. CASE UNCHANGED vars
  BY <1>6 DEF vars
<1>7. QED
  BY <1>1, <1>2, <1>3, <1>4, <1>5, <1>6 DEF Next

(* The assertions of addEvent always hold, and a null scheduler is met     *)
(* only by the loop over the reports, with a report of several events of   *)
(* which some still wait and some do not (iomanager.cpp:406-413).          *)
THEOREM TableFailsOnlyStale == Spec => FailsOnlyStaleStep
<1>1. Inv /\ [Next]_vars =>
        [failed' # failed => \E p \in Poller : got[p] # Nil /\ got'[p] = Nil /\ Stale(got[p])]_vars
  BY StepFailsStale DEF FailsStale
<1>2. QED
  BY <1>1, TableInvariant, PTL DEF Spec, FailsOnlyStaleStep

-----------------------------------------------------------------------------
(* The table implements EventWait.                                         *)

LEMMA TakeWakes ==
  ASSUME Inv, NEW c \in Context, NEW E \in SUBSET events[c], E # {}, TakesAway(c, E),
         scheduled' = [s \in Source |-> IF s \in {c[1]} \X E THEN scheduled[s] + 1 ELSE scheduled[s]]
  PROVE  Waits!Next
<1> DEFINE S == {c[1]} \X E
<1>1. S \subseteq Waiting /\ Waiting' = Waiting \ S
  BY TakeWaiters
<1>2. S # {}
  <2>1. PICK e \in E : TRUE
    OBVIOUS
  <2>2. <<c[1], e>> \in S
    OBVIOUS
  <2>3. QED
    BY <2>2
<1>3. Waits!Wake(S)
  BY <1>1, <1>2 DEF Waits!Wake
<1>4. QED
  BY <1>1, <1>3 DEF Waits!Next

LEMMA TriggerWakes ==
  ASSUME Inv, NEW c \in Context, NEW E, E \cap events[c] # {}, Trigger(c, E)
  PROVE  Waits!Next \/ UNCHANGED <<Waiting, scheduled>>
<1>1. CASE /\ E \subseteq events[c] /\ E # {} /\ TakesAway(c, E)
           /\ scheduled' = [s \in Source |-> IF s \in {c[1]} \X E THEN scheduled[s] + 1 ELSE scheduled[s]]
  BY <1>1, TakeWakes
<1>2. CASE Dies("triggerEvent")
  BY <1>2 DEF Dies, eventVars, Waiting
<1>3. QED
  BY <1>1, <1>2, TriggerCase

LEMMA AddAsks == ASSUME Inv, NEW u \in User, Add(u) PROVE Waits!Next \/ UNCHANGED <<Waiting, scheduled>>
<1> DEFINE c == op[u].ctx
           e == op[u].ev
           s == <<c[1], e>>
<1>1. /\ c \in Context /\ s \in Source /\ s \notin Waiting /\ scheduled' = scheduled
      /\ \/ UNCHANGED eventVars
         \/ events' = [events EXCEPT ![c] = @ \cup {e}]
  <2> DEFINE ctl == IF events[c] = {} THEN "ADD" ELSE "MOD"
  <2>1. /\ c \in Context /\ c[1] = op[u].fd /\ c[1] \in Fd /\ e \in Event /\ <<c[1], e>> \in Source
        /\ Adds(u) /\ Asks(u) = <<c[1], e>> /\ e \notin events[c] /\ <<c[1], e>> \notin Waiting
        /\ Return(u) /\ UNCHANGED <<tableVars, ready, got, adds, scheduled, failed>>
        /\ \/ CtlFails(c[1], ctl) /\ UNCHANGED <<eventVars, kernelVars>> /\ asked' = asked \ {<<c[1], e>>}
           \/ /\ ~CtlFails(c[1], ctl)
              /\ Control(c[1], ctl, events[c] \cup {e}, c)
              /\ pending' = pending + 1
              /\ events' = [events EXCEPT ![c] = @ \cup {e}]
              /\ armed' = [armed EXCEPT ![c] = @ \cup {e}]
              /\ asked' = asked
    BY AddCase
  <2>2. QED
    BY <2>1
<1>2. CASE UNCHANGED eventVars
  BY <1>1, <1>2 DEF eventVars, Waiting
<1>3. CASE events' = [events EXCEPT ![c] = @ \cup {e}]
  <2>1. events \in [Context -> SUBSET Event]
    BY DEF Inv, TypeOK
  <2>2. events'[c] = events[c] \cup {e} /\ \A d \in Context : d # c => events'[d] = events[d]
    BY <1>1, <1>3, <2>1
  <2>3. ASSUME NEW x \in Source PROVE x \in Waiting' <=> x \in Waiting \/ x = s
    <3>1. x = <<x[1], x[2]>>
      BY Descriptors
    <3>2. x = s <=> x[1] = c[1] /\ x[2] = e
      BY <3>1
    <3>3. x \in Waiting' <=> x \in Source /\ \E d \in Context : d[1] = x[1] /\ x[2] \in events'[d]
      BY DEF Waiting
    <3>4. x \in Waiting <=> x \in Source /\ \E d \in Context : d[1] = x[1] /\ x[2] \in events[d]
      BY DEF Waiting
    <3>5. QED
      BY <1>1, <2>2, <3>2, <3>3, <3>4
  <2>4. Waiting' = Waiting \cup {s}
    <3>1. Waiting \subseteq Source /\ Waiting' \subseteq Source
      BY DEF Waiting
    <3>2. QED
      BY <1>1, <2>3, <3>1
  <2>5. Waits!Ask(s)
    BY <1>1, <2>4 DEF Waits!Ask
  <2>6. QED
    BY <1>1, <2>5 DEF Waits!Next
<1>4. QED
  BY <1>1, <1>2, <1>3

LEMMA DelWithdraws == ASSUME Inv, NEW u \in User, Del(u) PROVE Waits!Next \/ UNCHANGED <<Waiting, scheduled>>
<1> DEFINE c == op[u].ctx
           e == op[u].ev
<1>1. /\ c \in Context /\ scheduled' = scheduled
      /\ \/ Refused
         \/ {e} \subseteq events[c] /\ {e} # {} /\ TakesAway(c, {e})
  <2>1. /\ c \in Context /\ UNCHANGED <<tableVars, ready, got, adds, failed, scheduled>>
        /\ \/ Refused /\ asked' = asked
           \/ {e} \subseteq events[c] /\ {e} # {} /\ TakesAway(c, {e})
    BY DelCase
  <2>2. QED
    BY <2>1
<1>2. CASE Refused
  BY <1>2 DEF Refused, eventVars, Waiting
<1>3. CASE {e} \subseteq events[c] /\ {e} # {} /\ TakesAway(c, {e})
  <2> DEFINE s == <<c[1], e>>
  <2>1. Waiting' = Waiting \ ({c[1]} \X {e}) /\ {c[1]} \X {e} \subseteq Waiting
    BY <1>1, <1>3, TakeWaiters
  <2>2. {c[1]} \X {e} = {s}
    OBVIOUS
  <2>3. s \in Waiting /\ s \in Source /\ Waiting' = Waiting \ {s}
    BY <2>1, <2>2 DEF Waiting
  <2>4. Waits!Withdraw(s)
    BY <1>1, <2>3 DEF Waits!Withdraw
  <2>5. QED
    BY <2>3, <2>4 DEF Waits!Next
<1>4. QED
  BY <1>1, <1>2, <1>3

LEMMA StepWaits == Inv /\ [Next]_vars => Waits!Next \/ UNCHANGED <<Waiting, scheduled>>
<1> SUFFICES ASSUME Inv, [Next]_vars PROVE Waits!Next \/ UNCHANGED <<Waiting, scheduled>>
  OBVIOUS
<1>1. UNCHANGED eventVars => UNCHANGED <<Waiting, scheduled>>
  BY DEF eventVars, Waiting
<1>2. ASSUME NEW u \in User, NEW kind \in Kind, NEW s \in Source, Begin(u, kind, s[1], s[2])
      PROVE  UNCHANGED eventVars
  BY <1>2 DEF Begin
<1>3. ASSUME NEW u \in User, Cancel(u) PROVE Waits!Next \/ UNCHANGED <<Waiting, scheduled>>
  <2> DEFINE c == op[u].ctx
             E == IF op[u].kind = "cancel" THEN {op[u].ev} ELSE events[c]
  <2>1. c \in Context
    BY <1>3, CallType DEF Inv, Cancel, InCall
  <2>2. CASE E \cap events[c] = {} \/ CtlFails(c[1], Drop(c, E))
    <3>1. Refused
      BY <1>3, <2>2 DEF Cancel
    <3>2. QED
      BY <1>1, <3>1 DEF Refused
  <2>3. CASE ~(E \cap events[c] = {} \/ CtlFails(c[1], Drop(c, E)))
    <3>1. Trigger(c, E) /\ E \cap events[c] # {}
      BY <1>3, <2>3 DEF Cancel
    <3> HIDE DEF c, E
    <3>2. QED
      BY <2>1, <3>1, TriggerWakes
  <2>4. QED
    BY <2>2, <2>3
<1>4. ASSUME NEW p \in Poller, Handle(p) PROVE Waits!Next \/ UNCHANGED <<Waiting, scheduled>>
  <2> DEFINE c == got[p].ctx
             E == (got[p].seen \ {Hup}) \cup (IF Hup \in got[p].seen THEN events[c] ELSE {})
  <2>1. c \in Context
    BY <1>4, ReportType DEF Inv, Handle
  <2>2. CASE E \cap events[c] = {} \/ CtlFails(c[1], Drop(c, E))
    <3>1. Refused
      BY <1>4, <2>2 DEF Handle
    <3>2. QED
      BY <1>1, <3>1 DEF Refused
  <2>3. CASE ~(E \cap events[c] = {} \/ CtlFails(c[1], Drop(c, E)))
    <3>1. Trigger(c, E) /\ E \cap events[c] # {}
      BY <1>4, <2>3 DEF Handle
    <3> HIDE DEF c, E
    <3>2. QED
      BY <2>1, <3>1, TriggerWakes
  <2>4. QED
    BY <2>2, <2>3
<1>5. ASSUME NEW u \in User, Call(u) PROVE Waits!Next \/ UNCHANGED <<Waiting, scheduled>>
  <2>1. Grow(u) => UNCHANGED eventVars
    BY DEF Grow
  <2>2. QED
    BY <1>1, <1>3, <1>5, <2>1, AddAsks, DelWithdraws DEF Call
<1>6. ASSUME NEW p \in Poller, Poll(p) PROVE Waits!Next \/ UNCHANGED <<Waiting, scheduled>>
  <2>1. Collect(p) => UNCHANGED eventVars
    BY DEF Collect
  <2>2. QED
    BY <1>1, <1>4, <1>6, <2>1 DEF Poll
<1>7. ASSUME NEW fd \in Fd, NEW x \in Event \cup {Hup}, BecomesReady(fd, x) PROVE UNCHANGED eventVars
  BY <1>7 DEF BecomesReady
<1>8. ASSUME NEW s \in Source, Drain(s[1], s[2]) PROVE UNCHANGED eventVars
  BY <1>8 DEF Drain
<1>9. CASE UNCHANGED vars
  <2>1. UNCHANGED eventVars
    BY <1>9 DEF vars
  <2>2. QED
    BY <1>1, <2>1
<1>10. QED
  BY <1>1, <1>2, <1>5, <1>6, <1>7, <1>8, <1>9 DEF Next

(* No job is scheduled without having waited, twice for one wait, or after *)
(* its wait was taken back, for any descriptors, threads and pollers.      *)
THEOREM TableImplementsEventWait == Spec => ImplementsEventWait
<1>1. Init => Waits!Init
  <2> SUFFICES ASSUME Init PROVE Waits!Init
    OBVIOUS
  <2>1. Waiting = {} /\ scheduled = [s \in Source |-> 0]
    BY DEF Init, Waiting
  <2>2. QED
    BY <2>1 DEF Waits!Init
<1>2. Inv /\ [Next]_vars => [Waits!Next]_<<Waiting, scheduled>>
  BY StepWaits
<1>3. QED
  BY <1>1, <1>2, TableInvariant, PTL DEF Spec, ImplementsEventWait, Waits!Spec, Waits!vars
=============================================================================

------------------------------ MODULE FdEvents ------------------------------
(***************************************************************************)
(* The event table of an IOManager (iomanager.cpp): which job waits for    *)
(* which event of which file descriptor, in three places that have to      *)
(* agree: the FdContext objects, the epoll set of the kernel and           *)
(* m_pendingEventCount.  Any thread registers and withdraws events, and    *)
(* the threads in idle() collect reports and trigger them.                 *)
(*                                                                         *)
(* What a thread does under fd_ctx->mutex is one step.  Between two such   *)
(* sections it holds a pointer to an FdContext, or a report of epoll_wait, *)
(* which may be out of date when it gets the mutex.                        *)
(***************************************************************************)
EXTENDS Integers, FiniteSets

CONSTANTS
  Source,       \* what jobs wait for: pairs of a file descriptor, the number that
                \* indexes m_fdContexts, and READ or WRITE
  Hup,          \* EPOLLHUP or EPOLLERR, reported without being asked for
  User,         \* threads that call addEvent, delEvent, cancelEvent, cancelAll
  Poller,       \* threads in idle()
  InitialSize,  \* the size the constructor gives m_fdContexts
  Hangs,        \* the descriptors whose other end may hang up
  Nil,          \* no pointer, no report, no registration
  MaxContext,   \* bound: FdContext objects made for one descriptor
  MaxAdd        \* bound: calls of addEvent

Fd      == {s[1] : s \in Source}
Event   == {s[2] : s \in Source}
Context == Fd \X (1 .. MaxContext)
Kind    == {"add", "del", "cancel", "cancelAll"}

Registration == [events : SUBSET Event, ctx : Context]

ASSUME TableAssumption ==
  /\ Source \subseteq Nat \X Event /\ IsFiniteSet(Source)
  /\ InitialSize \in Nat /\ MaxContext \in Nat \ {0} /\ MaxAdd \in Nat
  /\ \A fd \in Fd : fd >= InitialSize => (3 * fd) \div 2 > fd
  /\ Hangs \subseteq Fd /\ Hup \notin Event /\ Nil \notin Context \cup Event \cup Registration

VARIABLES
  size,       \* m_fdContexts.size()
  slot,       \* slot[fd]: m_fdContexts[fd], as the number of the object; 0: past the end
  made,       \* made[fd]: FdContext objects made for fd so far
  events,     \* events[c]: FdContext::events of object c
  armed,      \* armed[c]: events of c whose EventContext holds a scheduler and a job
  epoll,      \* epoll[fd]: what the kernel has for fd, the events and data.ptr
  ready,      \* ready[fd]: what fd is ready for
  edge,       \* edge[fd]: epoll_wait has something new to report of fd (EPOLLET)
  pending,    \* m_pendingEventCount
  op,         \* op[u]: the call user u is in and the FdContext it has found
  got,        \* got[p]: the report poller p has taken from epoll_wait
  asked,      \* history: the sources the program has a job waiting for
  adds,       \* bound: calls of addEvent
  scheduled,  \* history: how often the job of a source was scheduled
  lost,       \* history: descriptors whose slot a late growth has cut off
  failed      \* what ended the process, or "no"

tableVars   == <<size, slot, made, lost>>
eventVars   == <<events, armed, pending, scheduled>>
kernelVars  == <<epoll, edge>>
programVars == <<asked, adds>>
vars == <<tableVars, eventVars, kernelVars, ready, op, got, programVars, failed>>

Alive == failed = "no"

Init ==
  /\ size = InitialSize
  /\ made = [fd \in Fd |-> IF fd < InitialSize THEN 1 ELSE 0]
  /\ slot = made
  /\ events = [c \in Context |-> {}] /\ armed = [c \in Context |-> {}]
  /\ epoll = [fd \in Fd |-> Nil] /\ edge = [fd \in Fd |-> FALSE]
  /\ ready = [fd \in Fd |-> {}]
  /\ pending = 0
  /\ op = [u \in User |-> Nil] /\ got = [p \in Poller |-> Nil]
  /\ asked = {} /\ adds = 0
  /\ scheduled = [s \in Source |-> 0] /\ lost = {}
  /\ failed = "no"

-----------------------------------------------------------------------------
(* The kernel: what epoll_ctl does, and when it refuses to. *)

CtlFails(fd, ctl) == IF ctl = "ADD" THEN epoll[fd] # Nil ELSE epoll[fd] = Nil

Reportable(fd, E) == ready[fd] \cap (E \cup {Hup})

Control(fd, ctl, E, c) ==
  /\ epoll' = [epoll EXCEPT ![fd] = IF ctl = "DEL" THEN Nil ELSE [events |-> E, ctx |-> c]]
  /\ edge'  = [edge EXCEPT ![fd] = ctl # "DEL" /\ Reportable(fd, E) # {}]

-----------------------------------------------------------------------------
(* m_fdContexts, under m_mutex: a call finds the FdContext of its          *)
(* descriptor; addEvent lets go of the lock before it asks for more room.  *)

Holds(n, fd) == fd < n

Begin(u, kind, fd, e) ==
  /\ Alive /\ op[u] = Nil
  /\ IF kind = "add"
     THEN /\ <<fd, e>> \notin asked /\ asked' = asked \cup {<<fd, e>>}
          /\ adds < MaxAdd /\ adds' = adds + 1
     ELSE Holds(size, fd) /\ UNCHANGED programVars
  /\ op' = [op EXCEPT ![u] = [kind |-> kind, fd |-> fd, ev |-> IF kind = "cancelAll" THEN Nil ELSE e,
                              ctx |-> IF Holds(size, fd) THEN <<fd, slot[fd]>> ELSE Nil]]
  /\ UNCHANGED <<tableVars, eventVars, kernelVars, ready, got, failed>>

(* Fault: contextResize makes every object anew. *)
SlotsRenewed(n) == [fd \in Fd |-> IF ~Holds(n, fd) THEN 0 ELSE made[fd] + 1]

(* IOManager::contextResize: new objects for the empty slots. *)
Slots(n) ==
  [fd \in Fd |-> IF ~Holds(n, fd) THEN 0
                 ELSE IF Holds(size, fd) THEN slot[fd] ELSE made[fd] + 1]

(* A call that waits to resize although another one has meanwhile made the *)
(* room: addEvent does not look again.                                      *)
Late(u) == Holds(size, op[u].fd)

Grow(u) ==
  /\ Alive /\ op[u] # Nil /\ op[u].ctx = Nil
  /\ LET fd == op[u].fd
         n  == (3 * fd) \div 2
     IN
     /\ \A f \in Fd : Slots(n)[f] <= MaxContext
     /\ size' = n /\ slot' = Slots(n)
     /\ lost' = lost \cup {f \in Fd : Late(u) /\ Holds(size, f) /\ ~Holds(n, f)}
     /\ made' = [f \in Fd |-> IF Slots(n)[f] > made[f] THEN Slots(n)[f] ELSE made[f]]
     /\ op' = [op EXCEPT ![u].ctx = <<fd, Slots(n)[fd]>>]
  /\ UNCHANGED <<eventVars, kernelVars, ready, got, programVars, failed>>

-----------------------------------------------------------------------------
(* The calls, under fd_ctx->mutex. *)

InCall(u, kind) == Alive /\ op[u] # Nil /\ op[u].ctx # Nil /\ op[u].kind = kind
Return(u) == op' = [op EXCEPT ![u] = Nil]

(* A call that changes nothing: nothing to do, or epoll_ctl has failed. *)
Refused == UNCHANGED <<eventVars, kernelVars, failed>>

(* The process ends; what it leaves behind is of no interest. *)
Dies(where) == failed' = where /\ UNCHANGED <<eventVars, kernelVars, asked>>

(* IOManager::addEvent *)
Add(u) ==
  LET c   == op[u].ctx
      e   == op[u].ev
      ctl == IF events[c] = {} THEN "ADD" ELSE "MOD"
  IN
  /\ InCall(u, "add") /\ Return(u)
  /\ CASE e \in events[c] -> Dies("addEvent")
       [] e \notin events[c] /\ CtlFails(c[1], ctl) ->
            Refused /\ asked' = asked \ {<<c[1], e>>}
       [] e \in armed[c] /\ ~CtlFails(c[1], ctl) -> Dies("addEvent")
       [] OTHER ->
            /\ Control(c[1], ctl, events[c] \cup {e}, c)
            /\ pending' = pending + 1
            /\ events' = [events EXCEPT ![c] = @ \cup {e}]
            /\ armed' = [armed EXCEPT ![c] = @ \cup {e}]
            /\ UNCHANGED <<scheduled, asked, failed>>
  /\ UNCHANGED <<tableVars, ready, got, adds>>

(* Fault: the kernel is told of the events as they were. *)
LeavingAll(c, E) == events[c]

(* What c still waits for when the events E are taken away, and the call of *)
(* epoll_ctl that tells the kernel.                                         *)
Leaving(c, E) == events[c] \ E
Drop(c, E) == IF Leaving(c, E) = {} THEN "DEL" ELSE "MOD"

(* Fault: FdContext::triggerEvent leaves the event among the current ones. *)
TriggerKeeping(c, E) ==
  IF ~(E \subseteq armed[c]) THEN Dies("triggerEvent")
  ELSE /\ Control(c[1], Drop(c, E), Leaving(c, E), c)
       /\ armed' = [armed EXCEPT ![c] = @ \ E]
       /\ scheduled' = [s \in Source |-> IF s \in {c[1]} \X E THEN scheduled[s] + 1 ELSE scheduled[s]]
       /\ asked' = asked \ ({c[1]} \X E)
       /\ pending' = pending - Cardinality(E)
       /\ UNCHANGED <<events, failed>>

(* epoll_ctl, then FdContext::triggerEvent for the events E of c and        *)
(* --m_pendingEventCount for each.  An EventContext that holds no scheduler *)
(* is a null pointer.                                                       *)
Trigger(c, E) ==
  IF ~(E \subseteq armed[c]) THEN Dies("triggerEvent")
  ELSE /\ Control(c[1], Drop(c, E), Leaving(c, E), c)
       /\ events' = [events EXCEPT ![c] = @ \ E]
       /\ armed' = [armed EXCEPT ![c] = @ \ E]
       /\ scheduled' = [s \in Source |-> IF s \in {c[1]} \X E THEN scheduled[s] + 1 ELSE scheduled[s]]
       /\ asked' = asked \ ({c[1]} \X E)
       /\ pending' = pending - Cardinality(E)
       /\ UNCHANGED failed

(* Fault: delEvent forgets to write FdContext::events. *)
DelForgetful(u) ==
  LET c == op[u].ctx
      E == {op[u].ev}
  IN
  /\ InCall(u, "del") /\ Return(u)
  /\ IF E \cap events[c] = {} \/ CtlFails(c[1], Drop(c, E))
     THEN Refused /\ UNCHANGED asked
     ELSE /\ Control(c[1], Drop(c, E), Leaving(c, E), c)
          /\ armed' = [armed EXCEPT ![c] = @ \ E]
          /\ pending' = pending - 1
          /\ asked' = asked \ ({c[1]} \X E)
          /\ UNCHANGED <<events, scheduled, failed>>
  /\ UNCHANGED <<tableVars, ready, got, adds>>

(* IOManager::delEvent *)
Del(u) ==
  LET c == op[u].ctx
      E == {op[u].ev}
  IN
  /\ InCall(u, "del") /\ Return(u)
  /\ IF E \cap events[c] = {} \/ CtlFails(c[1], Drop(c, E))
     THEN Refused /\ UNCHANGED asked
     ELSE /\ Control(c[1], Drop(c, E), Leaving(c, E), c)
          /\ events' = [events EXCEPT ![c] = Leaving(c, E)]
          /\ armed' = [armed EXCEPT ![c] = @ \ E]
          /\ pending' = pending - 1
          /\ asked' = asked \ ({c[1]} \X E)
          /\ UNCHANGED <<scheduled, failed>>
  /\ UNCHANGED <<tableVars, ready, got, adds>>

(* IOManager::cancelEvent takes one event away and wakes its job,          *)
(* IOManager::cancelAll every event of the descriptor.                     *)
Cancel(u) ==
  LET c == op[u].ctx
      E == IF op[u].kind = "cancel" THEN {op[u].ev} ELSE events[c]
  IN
  /\ InCall(u, "cancel") \/ InCall(u, "cancelAll")
  /\ Return(u)
  /\ IF E \cap events[c] = {} \/ CtlFails(c[1], Drop(c, E))
     THEN Refused /\ UNCHANGED asked
     ELSE Trigger(c, E)
  /\ UNCHANGED <<tableVars, ready, got, adds>>

-----------------------------------------------------------------------------
(* The threads in IOManager::idle. *)

(* epoll_wait reports a descriptor to one of the threads that wait. *)
Collect(p) ==
  /\ Alive /\ got[p] = Nil
  /\ \E fd \in Fd :
       /\ epoll[fd] # Nil /\ edge[fd]
       /\ got' = [got EXCEPT ![p] = [ctx |-> epoll[fd].ctx,
                                     seen |-> Reportable(fd, epoll[fd].events)]]
       /\ edge' = [edge EXCEPT ![fd] = FALSE]
  /\ UNCHANGED <<tableVars, eventVars, epoll, ready, op, programVars, failed>>

(* The body of the loop over the reports, under fd_ctx->mutex. *)
Handle(p) ==
  LET c    == got[p].ctx
      real == (got[p].seen \ {Hup}) \cup (IF Hup \in got[p].seen THEN events[c] ELSE {})
  IN
  /\ Alive /\ got[p] # Nil
  /\ got' = [got EXCEPT ![p] = Nil]
  /\ IF real \cap events[c] = {} \/ CtlFails(c[1], Drop(c, real))
     THEN Refused /\ UNCHANGED asked
     ELSE Trigger(c, real)
  /\ UNCHANGED <<tableVars, ready, op, adds>>

-----------------------------------------------------------------------------
(* The other end of the descriptor, and the program reading or writing it. *)
BecomesReady(fd, x) ==
  /\ Alive /\ x \notin ready[fd] /\ IF x = Hup THEN fd \in Hangs ELSE <<fd, x>> \in Source
  /\ ready' = [ready EXCEPT ![fd] = @ \cup {x}]
  /\ edge' = [edge EXCEPT ![fd] =
                 @ \/ (epoll[fd] # Nil /\ x \in epoll[fd].events \cup {Hup})]
  /\ UNCHANGED <<tableVars, eventVars, epoll, op, got, programVars, failed>>

Drain(fd, e) ==
  /\ Alive /\ e \in ready[fd] /\ <<fd, e>> \notin asked
  /\ ready' = [ready EXCEPT ![fd] = @ \ {e}]
  /\ UNCHANGED <<tableVars, eventVars, kernelVars, op, got, programVars, failed>>

-----------------------------------------------------------------------------
Call(u) == Grow(u) \/ Add(u) \/ Del(u) \/ Cancel(u)
Poll(p) == Collect(p) \/ Handle(p)

Next ==
  \/ \E u \in User, kind \in Kind, s \in Source : Begin(u, kind, s[1], s[2])
  \/ \E u \in User : Call(u)
  \/ \E p \in Poller : Poll(p)
  \/ \E fd \in Fd, x \in Event \cup {Hup} : BecomesReady(fd, x)
  \/ \E s \in Source : Drain(s[1], s[2])

Spec == Init /\ [][Next]_vars

(* A thread that is in a call or in idle() is run, and epoll_wait returns  *)
(* to some thread what there is to report.                                 *)
FairSpec ==
  /\ Spec
  /\ \A u \in User : WF_vars(Call(u))
  /\ \A p \in Poller : WF_vars(Handle(p))
  /\ WF_vars(\E p \in Poller : Collect(p))

-----------------------------------------------------------------------------
(* Properties. *)

(* Every variable stays within the values the program gives it. *)
TypeOK ==
  /\ size \in Nat /\ slot \in [Fd -> 0 .. MaxContext] /\ made \in [Fd -> 0 .. MaxContext]
  /\ events \in [Context -> SUBSET Event] /\ armed \in [Context -> SUBSET Event]
  /\ epoll \in [Fd -> Registration \cup {Nil}]
  /\ ready \in [Fd -> SUBSET (Event \cup {Hup})] /\ edge \in [Fd -> BOOLEAN]
  /\ pending \in Int
  /\ op \in [User -> [kind : Kind, fd : Fd, ev : Event \cup {Nil}, ctx : Context \cup {Nil}] \cup {Nil}]
  /\ got \in [Poller -> [ctx : Context, seen : SUBSET (Event \cup {Hup})] \cup {Nil}]
  /\ asked \subseteq Source /\ adds \in 0 .. MaxAdd
  /\ scheduled \in [Source -> Nat] /\ lost \subseteq Fd
  /\ failed \in {"no", "addEvent", "triggerEvent"}

(* The sources a job waits for, by the FdContext objects. *)
Waiting == {s \in Source : \E c \in Context : c[1] = s[1] /\ s[2] \in events[c]}

(* Kernel, FdContext and EventContext agree between any two sections: an   *)
(* event nobody asked the kernel for would never wake its job, and one the *)
(* kernel has too much would be reported to a job that is gone.            *)
Agreement ==
  /\ TypeOK
  /\ armed = events
  /\ \A c \in Context :
       events[c] # {} => epoll[c[1]] = [events |-> events[c], ctx |-> c]
  /\ \A fd \in Fd : epoll[fd] # Nil => epoll[fd].events = events[epoll[fd].ctx] /\ epoll[fd].events # {}

(* m_pendingEventCount is "the number of events waiting to be executed"    *)
(* (iomanager.h:90), which is what stopping() takes it for.                *)
PendingCounts == pending = Cardinality({x \in Context \X Event : x[2] \in events[x[1]]})

(* m_fdContexts is "the container of the event contexts" (iomanager.h:94): *)
(* whatever waits can be found there by delEvent, cancelEvent, cancelAll   *)
(* and ~IOManager, as long as no thread resizes it that would not have had *)
(* to, had it looked at the size again under the write lock.               *)
InContainer == \A c \in Context : events[c] # {} => slot[c[1]] = c[2] \/ c[1] \in lost

(* Of the assertions of addEvent (iomanager.cpp:160, 180) none fails, and  *)
(* triggerEvent finds an EventContext without its scheduler in one case    *)
(* only: idle() handles a report of several events of which one is still   *)
(* waited for and another was withdrawn or triggered since (406-413).      *)
Stale(report) ==
  /\ events[report.ctx] # {}
  /\ ~(report.seen \ {Hup} \subseteq events[report.ctx])

FailsOnlyStaleStep ==
  [][failed' # failed => \E p \in Poller : got[p] # Nil /\ got'[p] = Nil /\ Stale(got[p])]_vars

(* A job that waits for what has happened is woken, unless it is withdrawn. *)
Woken ==
  \A s \in Source : (s \in Waiting /\ s[2] \in ready[s[1]]) ~> (s \notin Waiting \/ ~Alive)

(* The table implements one-shot waits: no job is scheduled without having *)
(* waited, twice for one wait, or after delEvent took its wait back.       *)
Waits == INSTANCE EventWait WITH waiting <- Waiting, woken <- scheduled

ImplementsEventWait == Waits!Spec
=============================================================================

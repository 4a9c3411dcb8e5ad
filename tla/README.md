# Formal models of fxk

fxk is a C++ framework of fibers: a scheduler that runs fibers and callbacks on
a set of threads, an IOManager that is a scheduler whose threads wait in
epoll, timers, a configuration store and a logger. This directory holds TLA+
models of its core, their TLC configurations and machine-checked proofs.

Sources are named relative to the repository, with lines. Most comments of the
C++ files are in GBK. The tree does not compile as it stands (misspelled
names, e.g. `ReadScopedLockImp` in `mutex.h:74`, and a statement cut in half at
`iomanager.cpp:405`); such places are read as what they can only mean. One that
does have a meaning as written, `cur->m_cb;` at `fiber.cpp:178`, is modelled
both ways (below).

## 1. Inventory

| Component | State it keeps | Operations | Hard behaviour |
|---|---|---|---|
| **Scheduler** `scheduler.h`, `scheduler.cpp` | `m_fibers`, the task list, under `m_mutex`; atomics `m_activeThreadCount`, `m_idleThreadCount`; plain `m_stopping`, `m_autoStop`; `m_threads`; `m_rootFiber` | `schedule` (one, range), `switchTo`, `start`, `stop`, `stopping`, `run`, `idle`, `tickle` | threads race for tasks; counters move outside the lock; a fiber may be scheduled while it still runs; `stop()` has to see quiescence, and with `use_caller` helps out itself |
| **Fiber** `fiber.h`, `fiber.cpp` | `m_state`, `m_cb`, a stack, the thread's current fiber | `swapIn`/`swapOut`, `call`/`back`, `reset`, `YieldToReady`, `YieldToHold`, `MainFunc`, `CallerMainFunc` | its state is written by the fiber and by the thread that runs it; fiber objects are used again for other callbacks |
| **IOManager, event table** `iomanager.h`, `iomanager.cpp:61-299, 369-414` | `m_fdContexts`, one `FdContext` per descriptor with its own mutex; the epoll set; `m_pendingEventCount` | `addEvent`, `delEvent`, `cancelEvent`, `cancelAll`, `contextResize`, `triggerEvent`, the report loop of `idle` | three tables must agree; reports are stale when handled; edge-triggered events; the table grows under calls in flight |
| **IOManager, idle loop** `iomanager.cpp:305-358, 416-426` | the tickle pipe | `tickle`, `stopping(timeout)`, `idle`, `onTimerInsertedAtFront` | lost wake-ups, non-atomic `stopping` |
| **TimerManager** `timer.h`, `timer.cpp` | `m_timers`, ordered by time | `addTimer`, `Timer::cancel`, `refresh`, `reset` | order of the set, expiry racing with cancel; `getNextTimer`, `listExpiredCb`, `addConditionTimer`, `hasTimer` are declared only |
| **Thread, locks** `thread.*`, `mutex.h` | a pthread, a semaphore, id, name and callback of an object held by shared_ptrs | construct, `run`, `join`, destroy, `setName`, lock guards | the constructor waits until `run` has set the thread up; the object may go before its thread does; two may join |
| **Config** `config/config.cpp` | `ConfigVar::m_val`, `m_cbs`, and `s_fun_id`, one for all variables of a type; the map of variables | `setValue`, `getValue`, `addListener`, `delListener`, `clearListener`, `Lookup`, `LoadFromYaml` | listeners and value under two locks, ids under none |
| **Log** `log.h`, `log.cpp` (and an older copy in `log/`) | loggers, levels, appenders, the streams of files; a formatter's pattern and items | `log`, `addAppender`, `delAppender`, `clearAppenders`, `reopen`, `getLogger`, the formatter's `init` and `format`, the configuration listener | configuration changes at run time; records are written without the lock of the list; files fail and are moved away |
| **Hook, GateServer** | none | declared only (`hook.cpp` is empty) | |

`tests/` also uses an environment, sockets, a TCP server, URIs and daemons that
are not in the repository.

How they interact: the program, fibers, and events call `schedule`, which takes
`m_mutex`; the threads in `run` take from the list under the same mutex and
swap into fibers; a fiber that called `addEvent` yields and is scheduled by
`triggerEvent` on a thread in `IOManager::idle` (a virtual override of
`Scheduler::idle`); `tickle` is called back from the scheduler; `stop` reads
what all of them write. `IOManager` is also a `TimerManager`, whose expired
callbacks `idle` schedules.

What makes each one correct: a fiber is on one thread at a time and is never
lost; every task runs once; the counters are exact; `stop` returns, and only
when nothing runnable is left (Scheduler, Fiber). A registered wait ends in
exactly one way, what is ready wakes its job, the tables agree (event table). No
task waits for the epoll timeout while a thread idles; no event is lost by
`stopping` (idle loop). Timers fire in order, once, not after `cancel`
(TimerManager). Each thread is joined or detached once, and its object outlives the
hand-shake (Thread). Listeners and value agree, and none is lost (Config). Loggers have the level and
appenders of the last configuration, a record reaches every appender, and reads as its
pattern says (Log).

## 2. Modules

| Module | What it is |
|---|---|
| `TaskPool` | abstract: what a scheduler promises a program that posts jobs |
| `Scheduler` | `Scheduler`, the part of `Fiber` its threads execute, properties, and the refinement of `TaskPool` |
| `SchedulerInvariant` | the inductive invariants, in named parts |
| `SchedulerProofs` | theorems and proofs (TLAPS) |
| `MCScheduler` | model values for TLC |
| `EventWait` | abstract: one-shot waits that end woken or withdrawn |
| `FdEvents` | the event table of `IOManager`, properties, and the refinement of `EventWait` |
| `FdEventsProofs` | its inductive invariant, theorems and proofs, the refinement among them (TLAPS) |
| `MCFdEvents` | model values for TLC |
| `IOManager` | the threads of an `IOManager`: `run()` with its `tickle`, `stopping` and `idle`, and its properties |
| `IOManagerProofs` | its inductive invariant, theorems and proofs (TLAPS) |
| `MCIOManager` | model values for TLC |
| `Timers` | `Timer` and `TimerManager`, threads that call them, and the part of `IOManager::idle` that sleeps and expires |
| `TimersProofs` | its inductive invariant, theorems and proofs (TLAPS) |
| `MCTimers` | model values for TLC |
| `LogConfig` | `ConfigVar<std::set<LogDefine>>` "logs", the listener `LogIniter` hangs on it, the loggers, and the locks all of them take |
| `MCLogConfig` | model values for TLC |
| `ConfigVar` | the variables of one type: `setValue`, and listeners that come and go |
| `ConfigVarProofs` | its inductive invariant, theorems and proofs (TLAPS) |
| `MCConfigVar` | model values for TLC |
| `LogFormat` | `LogFormatter`: how `init` cuts a pattern and what `format` then writes |
| `LogProofs` | the inductive invariants of `LogConfig` and of `LogFormat`, theorems and proofs (TLAPS) |
| `MCLogFormat` | the patterns for TLC |
| `LogWrite` | a record on its way: macro, `Logger::log`, appenders, and the reopening of files |
| `LogWriteProofs` | its inductive invariant, theorems and proofs (TLAPS) |
| `MCLogWrite` | model values for TLC |
| `Thread` | `Thread` objects, their pthreads and the semaphore between them |
| `ThreadPool` | composes `Thread` with `start` and `stop` of a `Scheduler`, and a program's own use of `Thread` |
| `ThreadPoolProofs` | its inductive invariant, theorems and proofs (TLAPS) |
| `MCThreadPool` | model values for TLC |

### Scheduler

One step is what a thread does between two points at which another can see or
change something it uses: a section under `m_mutex`, one update of an atomic
counter, a stretch of a fiber's body. `pc[t]` follows thread `t` through
`run()`:

| `pc` | place in `run()` | actions that leave it |
|---|---|---|
| `scan` | the loop over `m_fibers`, 154-177 | `Take`, `FindNothing` |
| `taken` | has a task, counted active, 183-205 | `ResumeFiber`, `Discard`, `StartCallback` |
| `body`, `armed`, `switching` | inside the fiber | `BodySchedules`, `Arm`, `SwitchTo`, `YieldToHold`, `YieldToReady`, `CbEnds` |
| `out` | back from `swapIn`, 186 / 206 | `CountDown` |
| `settle` | what the state of the fiber asks for, 188-194 / 207-218 | `Settle` |
| `nothing`, `idle`, `idleOut` | the idle fiber, 220-236 | `IdleEnter`, `IdleCheck`, `IdleLeave` |
| `exit` | left `run()`, 225-227 | |

`control` follows the thread that owns the scheduler through `start()` and
`stop()`. `waker[f]` stands for whatever will schedule a suspended fiber: an event
of the IOManager or a timer; `Wake` is `triggerEvent`. `posted`, `done` are
history; `yields`, `starts` are bounds.

Where several lines are one step, the reason is that nothing another thread
does can come between to effect:

* `ResumeFiber` joins the test of `scheduler.cpp:183` with `swapIn`
  (`fiber.cpp:131-132`): the fiber is out of the list, and the runs and proofs show
  that only one thread has it.
* `FindNothing` includes the test of the thread's own idle fiber (225).
* `StopBegin` includes the early return's tests and the tickles (which only
  log): `m_autoStop` and `m_stopping` are read together by `stopping()` and no
  other code reads `m_autoStop`.
* `Settle` reads and writes only the fiber the thread still holds, and one
  `schedule` under the lock. `CountDown` is apart from it, as in the code, because
  between the two a READY fiber is invisible to `stopping()`.

Parameters that switch a reading of the code:

* `MainFuncCallsCb`: TRUE reads `fiber.cpp:178` as the call every test
  expects, `cur->m_cb();`, which `CallerMainFunc` has at 207. FALSE is the line as
  it is written: a fiber ends without entering its function. Only
  `scheduler_not_called` uses FALSE.
* `PinAnywhere`: a task may be pinned to any thread. Liveness of `stop()` does
  not hold then (`scheduler_pinned_hang`), so the passing liveness runs pin a task
  to no thread or to the thread of its poster.

A job that armed an event yields to HOLD, as `addEvent`'s users do, and not to
READY (the guard of `YieldToReady`): one that did both would be in `m_fibers` twice,
and `scheduler.cpp:165` and `fiber.cpp:131-132` look at its state in two sections,
so that two threads could both pass the first look.

A callback does not return while an event it armed is still to come (`CbEnds`):
`run()` would use its fiber for the next callback, and the event would then
schedule that one. Nothing in the repository says what should happen then; fibers
of the program itself may do so, and `Discard` is what saves them.

### FdEvents

`FdContext` objects are numbered per descriptor (`made`, `slot`); `op[u]` is the
call user thread `u` is in with the pointer it found, `got[p]` the report thread
`p` took from `epoll_wait`. `Begin` and `Grow` are the sections under `m_mutex`, `Add`,
`Del`, `Cancel` and `Handle` those under `fd_ctx->mutex`. Between two sections
everything may happen. `epoll`, `edge` and `ready` are the kernel: level
`ready`, a pending edge, the registered events with `data.ptr`; `epoll_ctl`
fails when a descriptor is added twice or is not there to be changed, and the
code's error return (`Refused`) is taken then. `failed` becomes `"addEvent"` or
`"triggerEvent"` when an assertion fails or a null scheduler is called.

`Source` is what the program waits for, pairs of a descriptor and an event; `Hangs` are descriptors whose
other end may hang up, which epoll reports unasked and `Handle` takes for every event the descriptor waits for (380).

The program does not add an event that is already waited for (`asked`: the
assertion at 160 forbids it), and does not read or write a descriptor it waits
for (`Drain`). Reports are handed out one descriptor at a time: `epoll_wait`
returns up to 256, but each is handled under its own mutex and its data is
fixed when it is taken.

Two things go wrong in this component, and the properties say exactly when. `addEvent` releases the read lock
before it takes the write lock and does not look at the size again, so that its `contextResize` may come late and make
the table smaller (`Late`): `lost` are the descriptors whose slot it cut off, and `InContainer` holds of all the others.
`idle` triggers every event of a report of which one is still waited for, the withdrawn ones too: `FailsOnlyStaleStep` says that a null
scheduler is called in this case and no other.

### IOManager

Here the subject is who sleeps in `epoll_wait`, who wakes whom, and when a thread
leaves. Only amounts are kept: `queue[p]` tasks for thread `p` (or any), `active`, `idle`,
`pending`, `timers` with `due` of them expired. Which fiber a task is belongs to `Scheduler`, which
event is whose to `FdEvents`. An entry whose fiber still runs, which the scan passes over, is not
told apart from one that can be taken. `pc[t]` again follows the thread:

| `pc` | place | actions that leave it |
|---|---|---|
| `scan` | `scheduler.cpp` 154-177 | `Take`, `FindNothing` |
| `passOnThenRun`, `passOnThenIdle`, `jobTickles`, `yieldTickles`, `timerTickles`, `eventTickles` | about to call `tickle()`, after the lock was let go (`tickle_me`, `schedule`) | `CallTickle` |
| `job` | in a fiber | `JobPosts`, `JobWaits`, `JobAddsTimer`, `JobYields`, `JobEnds` |
| `back`, `backReady`, `requeue` | 186-189 | `CountDown`, `Requeue` |
| `idleIn` | 230 | `IdleIn` |
| `readTimers`, `readEvents`, `readTasks` | the conjuncts of `stopping(timeout)`, `iomanager.cpp` 314-317 | `CheckStopping` |
| `epoll` | `epoll_wait` | `EpollWait` |
| `expire`, `scheduleExpired` | `listExpiredCb` and `schedule`, 361-366 | `Expire`, `ScheduleExpired` |
| `handle`, `handled` | the report loop, before and after `triggerEvent`; the pipe among the reports | `Handle`, `Handled`, `Drain` |
| `quiet`, and `handle` with no report left | the idle fiber ends or swaps out | `IdleOut` |

`signal` is the edge of the pipe's read end: bytes nobody has read make one, so the
tickles of `stop()`, one per thread, are one step (`StopBegin`). A thread whose report holds the pipe
is in `drain` until it has read it empty; an edge that came meanwhile and that no other thread has been given goes
with the bytes. `cbs[t]` are the expired callbacks that are in
the local vector of `idle()`: out of `m_timers`, not yet in `m_fibers`. `unheard` is history: a
`tickle()` came while tasks were queued and nobody was counted idle. `EventReady`
and `TimerExpires` are the kernel and the clock. A job that adds a timer may or may
not find it the first to expire (`onTimerInsertedAtFront` is `tickle()`). `listExpiredCb` and `getNextTimer`
have no body in the repository: they are modelled by what `idle()` uses them for. The early return at the head of
`stop()` changes nothing but the order in which it reads what `StopChecks` reads, and is not a step of its own.

`Crews` are the sets of threads an IOManager may be made with, the caller among them for `use_caller`; one
run covers several. `late` is history too: a job has armed an event or a timer after some thread that is about
to leave had read that part of `stopping()`. `StopLeavesOnlyLate` says that only then does `stop()` leave one behind.

`schedule(fc, thread)` takes any thread id (`scheduler.h:37-48`), and `Pins` says which ones a poster gives it: -1, its own (for a job
the thread it is on, for the program those it constructed), and the members of the constant `Foreign`, which anybody may name, whether
that thread runs, has left `run()` or is none of the crew. `Left(t)` says
that `t` does not look at `m_fibers` again, and `stray` is history: the threads for which a task was scheduled then. A job that
yields READY while the threads leave one by one can leave such a task behind: it pins it to a thread that has gone, runs out, its own thread finds
nothing and leaves in turn, and `stop()` returns over it. `StopLeavesOnlyLate` names this exception: a queue that is not
empty when `stop()` has returned is that of a thread in `stray`. The other thing a task for a thread that has left may do is keep
`stopping()` false for ever, as in `scheduler_pinned_hang`: `StopReturns` promises nothing once `stray` has a member. Nothing
adds to it but such a task, so for programs that schedule for no thread that has left it is unconditional. As every execution here goes on
to `stop()`, it says with `StopLeavesOnlyLate` that every task is taken, though its tickle was lost, unless it is for such a thread.

### Timers

`timers` is `m_timers`. The set is ordered by `m_next`, and finds a timer by the
`m_next` it has at that moment; `key[x]` is the one with which it went in, and
`Found(x)` that the two agree. `made`, `known` and `live` are the timers constructed, returned by
`addTimer`, and with an `m_cb`. `now` is the clock.

A call under the lock is one step. `addTimer` has two sections, because the
constructor reads the clock before the lock is taken (`Construct`, `Insert`), and so has `reset`, whose first test
comes before the lock (`ResetBegins`, `Reset`). That test is modelled as written: `ms = m_ms && !from_now`
assigns, so that `reset` without `from_now` does nothing to a timer with a period, and
any other makes the period 0. A call that finds the timer over returns false and
changes nothing; it is no step.

| `pc` | place | actions that leave it |
|---|---|---|
| `top` | before `getNextTimer`, `iomanager.cpp` 336; also in `run()` | `Sleep` |
| `asleep` | from `getNextTimer` on, 336-352 | `Wake` |
| `expire`, `expireThenDrain` | 360-366, the report without and with the pipe | `Expire` |
| `drain` | 371-375 | `Drain` |

`until[p]` is when `epoll_wait` times out; the time from `getNextTimer` to `epoll_wait` is
taken as none. `signal` is the pipe's edge, as in `IOManager`. `OnTimerInsertedAtFront` writes if a thread is
asleep, and may if none is: a thread that is elsewhere may or may not be counted idle. The private `addTimer`,
`getNextTimer` and `listExpiredCb` have no body in the repository: `AddTimer` inserts and calls
`onTimerInsertedAtFront` if the timer is then the first, the least it must do for `idle()`
to work; `Expire` takes the timers that are due, sets the recurring ones anew and clears `m_cb` of the others, which
is what `cancel()` and `refresh()` test. Memory order of timers with one `m_next` is the order of
the numbers that stand for them. What happens to the callbacks afterwards is the subject of `IOManager`.

### LogConfig

The configuration of the loggers is a `ConfigVar` whose one listener brings the
loggers to the new definitions. Three locks take part: the variable's `m_mutex`,
`Config::GetMutex()`, and the `LoggerManager`'s; each is a variable that names its
holder. A read lock excludes other read locks too, since `ReadScopedLockImpl` calls
`wrlock()` (`mutex.h:72-80`): this is what keeps two listeners apart, and the mutant
`CompareShared` shows what would happen if it were repaired. The mutex of one logger
is only ever held over a single call, which is one step.

| `pc` | place | actions that leave it |
|---|---|---|
| `compare` | `setValue`, before the first lock, 399 | `Compare` |
| `apply` | the listener's first loop, `log.cpp` 681-696 | `PassOver`, `Add`, `Change`, `AllApplied` |
| `setLevel`, `clear`, `addAppender` | 697, 698, 699-720 | `SetLevel`, `ClearAppenders`, `AddAppender`, `Added` |
| `retire`, `clearRetired` | the second loop, 724-731 | `Retire`, `ClearRetired`, `Told` |
| `store` | between the two sections of `setValue`, 407 | `Store` |
| `lookup`, `toString` | `Config::Lookup` that finds a variable of another type, `config.cpp` 484-497 | `Find`, `Mismatch` |
| `toYaml` | `LoggerManager::toYamlString`, 557-566 | `LoggerToYaml`, `ToYamlReturns` |

`new`, `todo`, `logger`, `left` are the locals of a call. `died` is set where the
code calls `setLevel` on a null pointer (`log.cpp:691, 697`), and nothing goes on after
that. `last` and `overlap` are history: what the last listener to visit a logger meant it
to be, and whether a listener was called while some thread had yet to store.

`Equal` compares levels only, because `appenders == appenders` (585) compares a
definition's appenders with themselves. Appenders are counted per kind and their order is
left out. A logger that `getLogger` has not made yet is written as the one it would make
(`Fresh`), which nothing can tell apart. Left out: the root logger
(`toYamlString` would dereference the null `m_formatter` of its `StdoutLogAppender`, `log.cpp:412`, on the first dump),
`addListener` and `delListener` (called before `main` only), variables other than "logs", and what
`Logger::log` reads.

### ConfigVar

Variables of one type have a mutex each and share the static `s_fun_id`. Under the mutex of a
variable nothing of its own changes between two lines, so that a section is one step, but for the three uses of
`s_fun_id` in `addListener`, which another variable's `addListener` may interleave: `AddRead` and `AddWrite` are
`++s_fun_id`, and `AddInsert` and `AddReturn` use either what was written or what is there by then, as a
compiler may. In `setValue`, `SetValue` is the comparison under the lock, `Tell` one listener, `AllTold` the
end of that section and `Store` the second. `given` is history: the ids that `addListener` returned and nobody has
removed. `raced` and `overlap` mark the two exceptions the properties make: two `addListener` at a time, and
a `setValue` or an `addListener` between the two sections of a `setValue`. A listener here changes nothing of the variables; what
the one of "logs" does is the subject of `LogConfig`.

### LogFormat

Nothing is copied: `tmp`, `patterns` and `dateformat` name positions of the pattern, so that every
pattern over `Char` can be a parameter. `place` follows `init()`: `scan` is the loop over the characters, `date` and `braces` the
test and the loop behind a `%d` (281-297), `build` the loop over the entries (339-364).
Reading behind the terminating zero of a pattern that ends in `%d` (290) may find anything: `ClosedOutcomes` is a choice.
`Meaning` is the reference: what a pattern means, defined without the loop's variables, by the positions at which an
escape begins (`MeaningFrom[k]` is what is read from position `k` on). It has an element for each thing a pattern says, and two for what is
malformed whatever the letters are: `open`, a brace that is not closed, and `lone`, a sign that ends the pattern, with no letter behind it.
In two things the code departs from it, and `ReadsAsMeant` and `ErrorMeansMalformed` name both. All dates share what stands in the braces of any
(`log.cpp:234, 344`). And a lone sign is dropped without setting `m_error`, against the comment at 222: the
loop is over before the letter it waits for, and nothing looks at `parsing_string` afterwards (246-256, 300-311). So a character is lost
there, and a malformed pattern is not refused; `Noticed` is what is malformed otherwise. What an item writes of a record (a name, a number) is its letter.

### LogWrite

A step ends where another thread can see or be seen. `Begin`, `WriteConsole`, `WriteFile`, `Drop` and `Finish` are the turns
of the walk of `Logger::log`, which holds no lock of the list; `TestWindow`, `Reopen` and `Stamp` are the unlocked test, `reopen()` under
its mutex and the unlocked assignment of `FileLogAppender::log`. `ClearAppenders` and `Cleared` are the two halves
of `std::list::clear`: the nodes are freed before the list is reset, and a walk that begins between the two follows the old head.
`broken` is set when a freed node is used; nothing goes on from there. A stream is `open` and `fail`;
opening and writing succeed or fail as the system likes. `tried`, `failing`, `done` and `through` are
history: when a file was last reopened, whether its last open or write failed, what a walk has done, and what was in the list since it began.
An appender is constructed and added in one step, since nobody knows of it before.

### Thread and ThreadPool

`Thread` has no specification of its own: its operators take the object, the caller and the holder of the shared_ptr, and `ThreadPool`
uses them twice, for the objects `start()` makes (held by `Pool`) and for a program's own (`Own`).

| state | in the code |
|---|---|
| `life`, `refs` | an object, and who holds a shared_ptr to it |
| `handle`, `hasId`, `hasCb`, `sem` | `m_thread`, `m_id`, `m_cb`, `m_semaphore` |
| `body` | where `run()` is: `begin`, `id` (78), `moved` (81), `run` (82), `over` |
| `pthread` | what the system knows: none, joinable, joined, detached |
| `call` | a caller in the constructor (`create`, `wait`) or in `join()` (`join`, `joined`) |
| `stage`, `slot` | where `Main` is in `start()` or `stop()`, and in which slot |

`pthread_create` may fail and the constructor throw (`CreateFails`); out of `start()` the exception leaves slots
empty and `m_stopping` false (`StartFails`, `failed`). A second `join()` at a time is refused by the system or joins a thread that is gone
(`JoinAgain`, `stray`). `broken` is undefined behaviour: a thread used after it was joined, `setName` on an object that is gone, `join()` through an empty
slot. Workers here take `m_mutex`, and end when `m_stopping` is set; what else they do is `Scheduler`'s.

## 3. Runs

| Run | Shows | Instance |
|---|---|---|
| `scheduler_workers` | type, counters, ownership, no fiber dropped, no assertion fails, the invariant of the proofs, and that each `stop()` returns, with callbacks that share `cb_fiber` objects, across `stop()` and a second `start()` | 2 workers, 2 callbacks, 2 fiber objects, 1 yield, 2 starts |
| `scheduler_caller` | `stop()` with `use_caller` returns and leaves nothing runnable; each job runs once; no assertion fails; implements `TaskPool`, liveness included | 1 worker and the caller, a fiber, a callback |
| `scheduler_not_called` | violation: with 178 as written a fiber ends without having run | 1 worker, 1 fiber |
| `scheduler_pinned_hang` | violation: `stop()` never returns | 2 workers, 2 callbacks, `PinAnywhere` |
| `fd_events` | the three tables agree, the count is exact, what waits is in the table unless a late growth cut it off, nothing but a stale report fails, ready jobs wake, implements `EventWait` | 2 users, 1 poller, two descriptors beyond the table, READ and WRITE on one of them and it may hang up, 2 calls of `addEvent` |
| `iomanager` | counts never wrap; tasks wait behind sleeping threads only when a tickle found nobody idle; `stop()` leaves a task only for a thread that had left, and armed things only if armed late; `stop()` returns unless a task was scheduled for a thread that had left | 2 workers, or the default of one thread with `use_caller`, or a worker and the caller; tasks for one worker by anybody; 2 posts, 2 yields, 1 event, 1 timer, 4 of these in all |
| `timers` | the ordered set loses no timer, a timer runs once or is cancelled, no timer is slept past, every timer due expires | 2 users, 2 pollers, 2 timers, periods 1 and 2, `MAX_TIMEOUT` 3, 3 calls, clock to 2 |
| `log_config` | two listeners never mix in one logger; loggers and configuration agree unless two `setValue` calls overlapped; no call waits for ever | 3 threads, 2 loggers, 5 values, 4 calls, `-d` |
| `log_format` | what the parse has read is in an entry or still being read; a formatter writes what its pattern means and is refused if it is malformed, but for two named exceptions; where the pattern is read beyond its zero | every pattern of up to 5 of 6 characters, and every one of up to 4 of 9 pieces |
| `log_write` | a walk does each appender that stays, once; a record is dropped only in a fault, and goes to a file reopened in time | 2 threads, a console, a file, 2 levels, a window of 2 ticks, clock to 4 |
| `config_var` | ids are unique and listeners kept unless `addListener` raced; what a listener heard is the value; the list that is told does not change | 3 threads, 2 variables, 3 listeners, 2 values, 3 values stored |
| `thread_pool` | the hand-shake of constructor and `run()`, what becomes of each thread, what alone breaks the program, `start()` and `stop()` return | a pool of 2 started twice, an object two callers share |

**Bounds.** `MaxYield` limits how often a job leaves its thread: a job's
second turn starts from the state its first left, and the invariant (proved for every
bound) depends on no count. `MaxStart` 2 is the first restart; `Start` makes all
locals of `run()` anew, so a third differs in nothing. Two threads are enough
for a race over a fiber, since no step looks at more than one other. `Pool` has as many objects as
there are callbacks: run() allocates one only for a callback that starts, so the pool never
runs dry. In `FdEvents` two descriptors beyond the table are what it takes for a late growth to cut one off, and
`MaxContext` 2 lets a slot that was cut off be made anew; `MaxAdd` 2 lets one event be armed again while an older report
is held, two events of a descriptor be reported together and one withdrawn, or two
descriptors be armed at once. The proofs, for any numbers of all of them, say that the bounds hide nothing of the safety properties.
The passing runs stop when the program is over or a bound is used up:
`Over` in `Scheduler` and `IOManager` says the first, so TLC's deadlock check is on there and means that nobody
waits for everybody; in `FdEvents` calls end with `MaxAdd`, so it is off. In `IOManager` an amount of
two tells "the last one" from "one more", which is all its guards ask; one event and one timer are
enough for a thread to leave over one of them, so they are enough to look for other ways. `MaxUse` 4 is the least
with which a task is left behind: the program's, two yields while the threads leave one by one, and the task for one that has left; with three TLC finds no
such state. `Foreign` is one worker, in the crews of which it is and in that of which it is not; what it would do with both the proofs cover. The three crews are the three shapes
of `stop()`: it only joins, it only helps, it does both.
In `LogConfig` three threads are two that change the configuration and one that holds another
lock at the time; two names and the five values of `SomeInput` reach every
pair of "new, changed, unchanged, gone" in one call. Four calls let a third `setValue` see what
two that overlapped left. Calls end with `MaxCall`, so the deadlock check is off and
`EveryCallReturns` is what says that no lock is waited for in a circle.

In `Timers` two timers are a first and another; three calls are an insertion, and a second that comes before it or a
call that moves it, and one against that; the clock reaches every period once, and a recurring
timer of period 1 expires twice. The clock and the calls end, so the deadlock check is off. That these
bounds hide nothing of the invariants is what the proofs say.

In `LogFormat` five characters reach every pair of states of the loop, and the pieces reach two dates and an unclosed brace behind them;
what a formatter writes is proved for any pattern. In `LogWrite` a console and a file make the list in both orders, of one, two and no
elements; the clock passes two windows. In `ConfigVar` two threads race on the static while a third tells; three stored values let a third
overlap what two left. In `ThreadPool` two slots are a first and a last, and four objects of the pool its second start. These runs end with their
bounds or when the program is broken, so the deadlock check is off; in `thread_pool` `CallsReturn` says that nobody waits for
ever. In `log_format` it is on: a parse that is over stutters.

**Fairness.** `Scheduler`: weak fairness of each thread's `Run` (a thread that
can go on is run by the operating system; no step of `run()` waits for a condition,
`Scheduler::idle` polls), of each `Wake` (an event that was armed comes) and of the
owner's `Proceed`. Jobs give up after `MaxYield`. Nothing is assumed of who wins a lock.
`FdEvents`: weak fairness of a thread in a call, of a thread that holds a
report, and that some thread in `epoll_wait` gets what there is to report. Nothing makes
users call or descriptors become ready.
`IOManager`: weak fairness of each thread, whose `EpollWait` is always possible in
`epoll` because of `MAX_TIMEOUT` (3 s): this is what makes a lost tickle a delay and not a
hang, and a mutant that drops it breaks `StopReturns`. Armed events arrive and timers expire;
without that `stop()` rightly waits for ever. The program's thread goes on, to `stop()` and through it.
`LogConfig`: weak fairness of each thread in a call. It is enough although mutexes may be unfair, because the calls are
finitely many: a lock that is let go for good is taken by whoever still waits.
`ThreadPool`: threads that were created run, the callbacks of a program and the workers that see `m_stopping` end, and `start()` and `stop()`
go on when they can. `ConfigVar`, `LogFormat` and `LogWrite` are checked for safety only: no step of theirs waits but for a
mutex that is held over finitely many steps.
`Timers`: the clock moves, a thread in a call and a thread in `idle()` go on. A thread asleep goes on only when
its timeout is reached or the pipe has something for it.

## 4. Proofs

`SchedulerProofs` proves, for every finite set of workers, all fibers, callbacks and
bounds, `Spec => []P` for `TypeOK`, `Ownership`, `SingleOwner`, `RunsOnce`,
`Counters`, `NoneDropped` and `NoAssertFails`. Assumptions: `ConstantsAssumption` and
`FiniteThreads` of the module (checked by TLC in every run), and for
`NoAssertFails` that a scheduler built with `use_caller` is started once. This is needed because a second
`stop()` calls the root fiber (`scheduler.cpp:116`), which ended in the first; `call()` asserts nothing
of a fiber that is in TERM, but its entry function then runs past its `back()` into `SYLAR_ASSERT2(false, ...)`.

The argument. `SingleOwner` and the others are not inductive: that two
threads never hold one fiber needs that it is never listed twice, which needs
that its event does not fire while it is listed, which needs to know in what
state it armed the event. `Ownership` is the conjunction that closes this circle.
It says, for each place a fiber can be in (list, thread, armed event, a thread's
`cb_fiber`, nowhere) what its state and binding are:

* `QueueDistinct`, `HolderUnique`, `HolderNotQueued`: places exclude each
  other. The exceptions are the code's: a fiber that has armed an event or
  scheduled itself may be listed before its thread has swapped out of it (the scan
  passes it over because it says EXEC), and one that ended may be listed by a late event.
* `HoldsTask`, `HolderState`: `ft[t]` and `state` against `pc[t]`.
* `ArmedAlone`, `NoWaker`: what an armed event implies.
* `PoolFresh`, `PoolDead`, `CbFiberReady`: fiber objects used again.
* `Bindings`, `LiveJobs`, `WaitingCallbacks`, `JobsPosted`: jobs.
* `Locals`, `RootOnce`: idle fibers and the root fiber.

`Inv == TypeOK /\ Ownership` is inductive; the proof has one lemma per action and
group of conjuncts. `NoneDropped` adds `Suspended`, which also says of a fiber
about to leave its thread what will bring it back. `Counters` is proved on top of it: each
action changes one thread's `pc`, and the cardinality of the counted set
changes by one or not at all.

`StopDrained`, and that every step of `Scheduler` is one of `TaskPool` or none (`ImplementsTaskPoolSafely`), are proved under two hypotheses.
`MainFuncCallsCb`: as `fiber.cpp:178` is written a job never runs. `~PinAnywhere`: with tasks pinned to any thread the statement is false, and TLC
has shown how in 29 states. Both workers have found `stopping()` true and are on their way out of `run()`, an event resumes a job on one that has not
yet left, and the job pins a task to the other, which does not look again. The invariant is `Inv /\ Draining`. Once a scheduler is being
stopped, what is listed has a thread that will still look for it, or was listed for an event (`Served`); no worker ends before `stop()`
(`WorkersRun`); a fiber listed while a thread still has it is listed for that thread or for all (`PinnedOwn`, where the second hypothesis is needed); a fiber that says EXEC has a
thread (`ExecHeld`); a posted job is listed, held, or in a fiber that has begun and not ended (`JobPlaced`). The refinement goes action by action over these; its fairness stays with TLC.

`LogProofs` proves of `LogConfig`, for any threads, names, levels, kinds of appenders and values,
`Spec => []P` for `TypeOK` (which says that no logger of a daemon gets an appender on stdout), `Whole` and
`AppliedUnlessOverlap`, from `LogConfigAssumption` alone. The inductive invariant has two parts. `Mutual`:
a listener runs exactly under the variable's lock (`Exclusive`); what it has yet to visit and the
logger it is at (`Visits`); how far that logger has come from what it was to what it shall be, appenders given plus
appenders left being those wanted (`Stage`); every other logger is as last made (`Settled`). `TypeOK` itself needs
`Stage`: that `AddAppender` adds no muted appender follows from what is left to add. `Agreement`, which holds as long as
nothing has overlapped: one `setValue` at a time is past its comparison (`Serial`), the loggers it has visited agree
with its value and the others with the stored one (`AgreesApplying`, `AgreesRetiring`), and all agree with the stored one
when none is (`Agreed`). The step to `Agreement` from `Compare` is where an overlap would break it.

`IOManagerProofs` proves, for any threads, crews and bounds and from `IOManagerAssumption` alone, `TypeOK` (whose point is that no counter goes
below zero: they are unsigned), `OnlyUnheardWait` and `StopLeavesOnlyLate`, for any `Foreign`; and, with `Foreign = {}` as its hypothesis, `StopLeavesNoTask`: nothing at all is queued when `stop()` has returned. `CountsThreads` makes the counters exact: `active` and `idle` are the numbers
of threads at certain places, so that a decrement finds its own increment; `HoldsReports` does it for `pending`, which is never less than the
reports still to be handled. `Attended` carries `OnlyUnheardWait`: while a task is listed some thread is awake, that is, on its way to a scan or to a
`tickle()`, unless an edge of the pipe is there to wake one, a tickle found nobody idle, or `stop()` is still tickling. What might break it is a thread that has
looked and goes to sleep: once it is counted idle a `tickle()` writes, and before that the tickle is unheard. `StopLeavesOnlyLate` needs four more: who of the crew runs (`Members`), that
nobody leaves before `stop()` (`Leaving`), that what is listed for a thread has that thread still to look or was listed when it had left (`Left`, `stray`), and what is listed for all has one of them or the
caller (`Served`); that without foreign pins nothing is listed for a thread that has left (`NoStray`); and that what a leaving thread has read of timers and events stays as it was unless `late` (`Read`).

`TimersProofs` proves, for any set of timers, users, pollers, periods and bounds, `Spec => []P` for
`TypeOK`, `InSet`, `OnceOrCancelled` and `Watched`, from `TimersAssumption` alone. Two facts make them inductive: the timer of an
`addTimer` call that has not inserted it yet is known to nobody else (`Adding`), and a timer that has run out or was
cancelled has lost its callback for good (`Over`). `Watched` rests on `TypeOK`: because no timer is ever due later than its own
period from now, `refresh` can only put one off, and need not wake anybody (`WatchedKept`); `reset` can bring one forward and
goes through `addTimer`, which does (`AddTimerWatched`).

`FdEventsProofs` proves, for any descriptors, events, users, pollers, table size and bounds, `Agreement`, `PendingCounts`, `InContainer` and
`FailsOnlyStaleStep`, and that `Spec` implements `Waits!Spec`, from `TableAssumption` alone (half as much again as a descriptor
beyond the table is more than it, which is what `contextResize(fd * 1.5)` needs). The inductive invariant adds what
these rest on: an object in the kernel's `data.ptr` belongs to its descriptor (`OwnObject`), without which a report for one descriptor could trigger another's;
what a call in flight has found is what the table holds, or was cut off (`Found`, `Table`), which carries `InContainer` over `Add`; and
whoever waits has asked, and nobody asks twice for one thing (`WaitersAsked`, `AsksOnce`), which is why no assertion of `addEvent`
fails. The refinement has one lemma per action: `Add` is `Ask`, `Del` is `Withdraw`, `Cancel` and `Handle` are `Wake` of the sources whose
events they take away, and every other step, and every refusal, is a stutter; the types of `Waiting` come from the invariant.

`LogProofs` proves of `LogFormat`, for every pattern of any length over any alphabet, `Tokenised`, `Faithful` (with the two exceptions it names) and `ReadsInside`, that the zero at the end is passed only behind a `%d`
that ends the pattern; and two facts no run lists: the types (no position beyond the pattern gets into a time's format), and `WritesEntries`, that a formatter writes its entries in order, all of them unless it is refused. From `LogFormatAssumption`
alone. The invariant has three layers. `ParseInv == ParseTypeOK /\ Tokenised /\ InDate /\ AfterEscape`: `InDate` says how far the reading of braces has come,
`AfterEscape` that text never follows text. `MadeInv` adds `Collected`, that `dateformat` is what stands in the braces read so far, and `ItemsMade`,
which follows the loop over the entries and says why it stops. `MeantInv` adds `Meant`, which relates the loop to the reference: at every step the
meaning of the pattern is that of the entries there are, followed by what is read from where they end (`ReadBy`), which at the end is nothing, or a lone sign (`WholeMeaning`); while a date is being read, from where
it began. Each step of the loop is then one unfolding of `MeaningFrom`. That this recursion defines a function at all, and a sequence at each position, is
proved by going down from the end of the pattern (`Downward`), over sets of positions and the least element of what is missing, so that no induction
theorem with an operator parameter is needed.

`ThreadPoolProofs` proves `HandedOver`, `ReleasedOnce` and `BrokenWhy` for any objects, callers and pool size, from `ThreadPoolAssumption`.
The invariant is about one object and its thread (`Phase`, `Told`), the callers in its methods (`Method`, `Holds`; there is one at most: `Alone`), and
the slots (`Slots`, `Stage`). `Alone` and `Holds` are why nobody destroys an object that is being joined; `Slots` says where empty slots can come from,
which makes `failed` the only cause of a null `join()`; and that a slot `stop()` has passed holds a joined thread.

`ConfigVarProofs` proves `KeepsListeners`, `HeardIsValue` and `TellingKeepsListenersStep` for any threads, variables, listeners and values, from
`ConfigVarAssumption`. A callback is used once (`UsedOnce`), so that two lists never share one and telling the listeners of one variable leaves
those of the others alone. As long as no two `addListener()` have raced, ids only go up and the newest belongs to the call under way (`Drawn`), and what is
listed is what was given out or is about to be (`Listed`). `Told` follows `setValue` through its two sections: one call at a time is between
them, those not on its list have heard the new value, and all have when the value is yet to be stored. `TodoListed`, that whoever is still to be told
is in the list, is what the iterator of the code needs.

`LogWriteProofs` proves `VisitsEach`, `DroppedOnlyInFault` and `FreshFile` for any threads, appenders, levels and window, from `LogWriteAssumption`, and
`StaysMuteStep`, which no run lists. `VisitsEach` is not inductive: `Behind` also says of an appender that has left `through`, or came after the
walk began, that it lies behind the iterator once it is done; removing one appender shifts the positions of the others and keeps their order, which is the
heart of the proof (`DelAppenderKeeps`). `Used`, that an appender is constructed once, keeps one that was removed from coming back, `Cleaned` says that who walks
while the nodes are freed is past them all. `FreshFile` rests on `Times`: no appender's `m_lastTime` is ahead of the last reopening of
its file, and no record is from the future.

Every safety invariant a passing run checks is proved, and so are the action properties. Only model-checked are the liveness properties (`StopReturns`,
`ImplementsTaskPool` with its liveness, `Woken`, `Expires`, `EveryCallReturns`, `CallsReturn`): they rest on fairness or
ENABLED, which the prover cannot treat. For `StopDrained` and the steps of `ImplementsTaskPool` the theorems have the two hypotheses named above.

## 5. Findings

The violation runs stand for disagreements between the code and its own
comments, assertions or tests; `PROJECT.json` quotes them. In short:
`fiber.cpp:178` does not call the function; `scheduler.cpp:186` makes a READY fiber
invisible to `stopping()`, so that a task it pins to a thread that left meanwhile hangs `stop()`.

Others are characterised by properties that hold, each of which names the one case in which the code departs from what it says:

* `iomanager.cpp:406` triggers events of the report that are no longer waited for, through a null scheduler (`FailsOnlyStaleStep`).
* `iomanager.cpp:151` may shrink the table under an armed event, which then neither `delEvent` nor `cancelAll` can find (`InContainer`, `lost`).
* `scheduler.h:38` takes the id of a thread that has left `run()`: with an IOManager `stop()` may return over such a task, which nobody ever runs
  (`StopLeavesOnlyLate`, `stray`).
* `iomanager.cpp:315` reads the pending count before the others, so that `stop()` may return over an armed event (`StopLeavesOnlyLate`, `late`).
* `config.cpp:407` stores a value in a section of its own: of two `setValue` calls whose listeners both ran before either
  value was stored, the change from the first value to the second is told to no listener, and
  loggers the first defined keep their appenders (`AppliedUnlessOverlap`, `HeardIsValue`).
* `config.cpp:417-418` promises a unique id; `s_fun_id` is counted up under the mutex of one variable and shared with all others of its type: two
  `addListener` at a time may be given one id, or an id under which the callback is not found (`KeepsListeners`, `raced`).
* `log.cpp:427-429` reopens so that a file that went away comes back; a stream whose write has failed is neither closed nor opened again (458) and writes
  nothing more until the program ends (`StaysMuteStep`).
* `log.h:21` lets a record pass when the logger's level is at most the record's, `log.cpp:505` when it is at least: only records of
  exactly the logger's level are written (`Macro`, `Passes`).
* `log.cpp:246` drops a sign that ends a pattern and leaves the error flag clear, which 222 says is set for every escape that is not
  recognised (`Faithful`, `Lone`).
* `log.cpp:290` reads `m_pattern[Size + 1]` when the pattern ends in `%d`; `log.cpp:344` gives every date of a pattern the format of all (`ReadsInside`, `Faithful`).
* `thread.cpp:28` writes to an object that may be gone, `thread.cpp:61` joins twice when two call `join()`, and
  after a `start()` that threw (`scheduler.cpp:62`) `stop()` dereferences an empty slot (128) (`BrokenWhy`, whose first two causes are histories: what breaks
  after one of them has come about is put down to it).
* `log.cpp:691` compares where it means to assign and then calls a null logger
  (`died`). `timer.cpp:74` assigns where it means to compare. `config.cpp:500` refuses names with a `9`, which its comment allows.

## 6. Not modelled

Stacks, contexts, fiber ids and thread-locals (machine code under the swaps);
exceptions other than those a job or a `Thread` constructor throws; failures of pipes and allocation; a descriptor closed
while it is registered (`epoll_ctl` then fails at `iomanager.cpp:170` for reasons the table does not know); `dump` and every log line; `FdEvents` does not follow a job after it is
scheduled. Plain reads of `m_stopping` and `m_autoStop` outside the lock are modelled as
reads of the current value. Of Config and Log what section 2 names is modelled; `LoadFromYaml`, the creation of variables, conversion from and to YAML, `setFormatter`,
what single items write and `LogEvent::printf` are not: they keep no state that two could change, and their subject is text. `addConditionTimer`, `hasTimer`
and `detectClockRollover` of the timers have neither body nor use, and `OnTimer` no caller; times in `Timers` stay below the
2^31 ms from which `iomanager.cpp:346` would go wrong (the value is cut to `int` before it is compared). Spinlock, CASLock and NullMutex promise what Mutex does. Hook and GateServer have no
code, and `log/` is an older copy whose level test is the opposite.

## 7. Plan

Done: the modules of section 2. What could follow, in this order:

1. `FdEvents` in place of the amounts of `IOManager`, and `ThreadPool` in place of the workers of `Scheduler`: theorems that the composition keeps what
   each part promises, from the invariants proved of the parts.
2. `StopDrained` with `PinAnywhere` for schedulers of one thread, where a pinned task has nowhere else to be.
3. `Config`: variables created by `Lookup` while others visit the map, if the repository's declarations get their bodies.

# TLA+ models of zjhServer

This directory holds TLA+ models of zjhServer's concurrency core and of its
HTTP request routing, with the TLC configurations that check them.

`PROJECT.json` lists:

- the components, and what is and is not modelled for each;
- the runs and their properties;
- the mutants: a plausible bug per property, which TLC must catch;
- the map from each TLA+ definition to the source lines it translates;
- the findings and the hazards.

Only headers of `TimerManager` and `IOManager` are in the repository: there is
no `timer.cc` and no `iomanager.cc`. Their operations follow spec.md 4.3 and
4.4. The map points them to the header declarations whose comments state the
same behaviour, and marks them `spec_modelled` where no line exists at all.

## 1. The system (inventory)

| Part | Source | State | Operations | Module |
|---|---|---|---|---|
| Fiber | fiber.h/.cc | `m_state`, `m_ctx`, `m_cb`, `m_runInScheduler`; thread-locals `t_fiber`, `t_thread_fiber` | `GetThis`, `Fiber(cb)`, `resume`, `yield`, `MainFunc`, `reset`, `~Fiber` | `Fiber`, `Scheduler` (all but `~Fiber`) |
| Scheduler | scheduler.h/.cc | `m_tasks`, `m_activeThreadCount`, `m_idleThreadCount`, `m_stopping`, `m_rootFiber`; `t_scheduler_fiber` | `schedule`, `start`, `stop`, `run`, `idle`, `stopping`, `tickle` | `Scheduler`, abstract `SchedulerTasks` |
| TimerManager | timer.h | ordered `m_timers`, `m_tickled`, `m_previouseTime`; per timer `m_next`, `m_ms`, `m_recurring`, `m_cb` | `addTimer`, `cancel`, `refresh`, `reset`, `getNextTimer`, `listExpiredCb`, rollover | `TimerManager` |
| IOManager | iomanager.h | `FdContext` (`events`, read/write `EventContext`), `m_pendingEventCount`, tickle pipe, epoll | `addEvent`, `delEvent`, `cancelEvent`, `cancelAll`, `triggerEvent`, `tickle`, `stopping`, `idle`, `onTimerInsertedAtFront` | `IOManager` (composes `TimerManager`) |
| Servlet dispatch | http/servlet.h/.cc | `m_datas`, `m_globs`, `m_default` | `addServlet`, `addGlobServlet`, `delServlet`, `delGlobServlet`, `setDefault`, `getMatchedServlet`, `handle` | `ServletDispatch` |
| HTTP connection loop | http/http_server.cc | `m_isKeepLive` | `handleClient` | `ServletDispatch` |
| util | util.cc | the monotonic clock | `GetElapsedMS` | `TimerManager` (`Tick`), `IOManager` (`Clock`) |
| Thread, TcpServer, log, perf test, rest of util | various | sockets, formatting | — | not modelled |

How the parts interact:

- The application schedules work, then calls `start()` and later `stop()`.
- Each worker thread runs `Scheduler::run()`:
  - it takes the first queued task that its affinity allows, skipping fibers
    that are still RUNNING;
  - it resumes that fiber, or wraps a callback into its `cb_fiber`;
  - with no task, it resumes its idle fiber.
- A fiber gives control back with `yield()`, often after rescheduling itself.
- `IOManager` replaces `idle()` with a loop:
  1. `stopping(timeout)`: `getNextTimer()` gives the timeout, which also
     clears `m_tickled`; the loop ends when the IOManager may stop.
  2. `epoll_wait`.
  3. Drain the tickle pipe.
  4. Schedule the expired timer callbacks.
  5. Fire the reported fd events that are still registered.
  6. Yield back to `run()`.
- `schedule()` tickles (writes the pipe) when the queue was empty. A timer
  inserted at the front tickles, unless `m_tickled` is already set.
- `HttpServer::handleClient` reads a request and lets `ServletDispatch::handle`
  pick a servlet: exact path, then the first matching glob, then the default.
  It sends the response and loops unless the request or the server asks to
  close.

## 2. Modules

- **`SchedulerTasks`** is the abstract promise of the scheduler (spec.md 4.2, 8):
  - every scheduled work runs each of its segments once, in order;
  - a work may schedule a child;
  - `stop()` returns only after every work finished;
  - under weak fairness, every work finishes and `stop()` returns.
- **`Scheduler`** has one actor per thread, and the application code `App`
  on the constructing thread `Caller`.
  - The constructor's `use_caller` is the variable `useCaller`, chosen in
    `Init`. With it, `Caller` runs `run()` inside `stop()`. Without it,
    `Caller` never enters `run()`. The work pins tasks to the affinities in
    `Pins`: -1, a worker once `start()` has created it (before that its id
    is unknown), and `Caller` when it runs the loop.
  - The constructor's `threads` is the variable `pool`, the workers
    `start()` creates. Without `use_caller` it is `Workers`. With it, one
    of the threads is the caller, so `pool` is either `Workers` or empty:
    `Scheduler(1, true)`, the IOManager default, has no worker at all and
    the caller's loop inside `stop()` runs every task.
  - `App` schedules its work, calls `start()` and then `stop()`. The code
    does not require that order: with `StartBeforeStop` false, `stop()` may
    come first, and `Join` then has no threads to wait for.
  - Each step of `run()` is an action with the code's guards: `RunEntry`,
    `ScanTake`, `ScanIdle`, `ScanExit`, `Dispatch`, `DispatchCb`, `Back`,
    `IdleStep`.
  - The fiber steps are `ResumeFiber`, `Exec` (body and `MainFunc`), `Yield`
    and `Swap`. `yield()` is split into `Yield` and `Swap` because
    `m_state = READY` (fiber.cc:154) and `swapcontext` (159) are separate
    statements.
  - `selfRef` is the `shared_ptr` that `MainFunc` holds on its own fiber. It is
    released before the final yield (fiber.cc:171-186).
  - The refinement instantiates `SchedulerTasks` with `progress <- ran`,
    `stopReq <- m_stopping` and `stopped <- stop() returned`.
  - The callback-fiber reuse branch at scheduler.cc:200 is dead code:
    `cb_fiber` is reset at line 207 on every path. The model keeps only the
    live path.
- **`Fiber`** models `swapcontext` on one OS thread:
  - `saved` is which execution each `m_ctx` holds;
  - `exec` is the stack that runs;
  - `cur` is `t_fiber`.

  `rootMode`, chosen in `Init` from the constant `RootModes`, selects the
  `use_caller` thread, where `m_rootFiber` (`Root`) exists. `Resume(f)` is
  called by the fibers `MayResume(f)`: the repository's call sites
  (scheduler.cc:119, 194, 205, 216: the scheduling fiber, and `Main` for
  `Root`), and with `NestedResume` any other running fiber body, since
  `Fiber::resume` is public and checks nothing about its caller.
- **`TimerManager`** keeps `m_timers` as a set ordered by `Timer::Comparator`
  (deadline, then address), with `std::set` semantics.
  - An insert of an equivalent element is dropped.
  - `erase(find(t))` erases the equivalent element.
  - `InsertTimer` is `addTimer(val, lock)`: the front-insertion hook fires only
    while `m_tickled` is clear.
  - `listExpiredCb` re-arms recurring timers one by one. Its rollover check
    (a clock more than `Hour` behind `m_previouseTime`) is kept, but never
    fires: the clock is `GetElapsedMS` (util.cc:25-29, `CLOCK_MONOTONIC_RAW`),
    an environment variable that only ticks forward.
- **`IOManager`** composes `TimerManager` by `TM == INSTANCE TimerManager`
  over the same variables:
  - timer operations are `TM!addTimer` etc.;
  - the front-insertion hook becomes `tickle`;
  - idle uses `TM!getNextTimer`, `TM!NextTimeout` and `TM!listExpiredCb`.

  Its own state is the header's `FdContext` and members:
  - `mask` is `events`;
  - `ectx` is the registration number stored in each `EventContext`;
  - `pending` is `m_pendingEventCount`.

  epoll is edge-triggered:
  - `ready` holds fd reports not yet collected;
  - `tickleEdge` is a tickle report;
  - one `Wake` takes every report, so writes before that coalesce.

  Each worker alternates `RunTask` (a task runs to its yield) with one pass of
  the idle loop. `RunTask` is `run()`'s scan: it takes the first task that
  is `Eligible` (affinity -1 or this worker), and tickles when it skipped a
  task pinned elsewhere or left tasks behind (`tickle_me`). `Idle` also
  tickles when the scan skipped every queued task. The idle loop is `Idle`, `Wake`, `Expire`, `ProcessFd` per reported fd, then
  `YieldIdle`. `ProcessFd` fires only the reported events still in `events`.
  The application's actions are `addEvent`, `delEvent`, `cancelEvent`,
  `cancelAll`, `AddTimer`, `ResetTimer`, `CancelTimer`, `ScheduleUser` (a task
  pinned to one worker, at most `MaxUser` queued at once) and `Stop`. `Ready` is
  the peer, and `Clock` is time.
  - History variables: `fired` counts how often each handler was scheduled,
    and `deleted` holds the handlers `delEvent` dropped.
- **`ServletDispatch`** models the routing tables and the connection loop:
  - `globs` is a sequence, in `m_globs` order;
  - `FnMatch` is a RECURSIVE `fnmatch(p, s, 0)` for `*` and `?`, checked against
    the non-recursive reference `GlobRef`;
  - `handle`, `recvRequest`, `recvFail` and `sendResponse` are the steps of
    `handleClient`;
  - `handle` takes the read lock and looks up the exact and glob tables
    (`MatchedEntry`). When nothing matches, the connection stays in `copy`
    until the action `getMatchedServlet` copies `m_default` and releases
    the lock. The table writers wait in `WriteLock` until no connection
    is in `copy`. `setDefault` takes no lock: it starts (`writing`) and
    completes (`setDefaultDone`) as two steps, which lets TLC see it
    overlap a copy;
  - `isKeepLive` is fixed by the constructor and chosen in `Init`;
  - the history variables `live` and `before` give the reference router
    `RefRoute`.
- The MC modules (`MCScheduler`, `MCFiber`, `MCTimerManager`, `MCIOManager`,
  `MCServletDispatch`) give model values and small sets to the constants.

## 3. Runs

| Run | Config | Expect | What it shows |
|---|---|---|---|
| sched | MCScheduler.cfg | pass (38 107 states) | 2 workers, with and without `use_caller` (with it, the caller thread also runs tasks inside `stop()`, and the pool of workers may also be empty), self-rescheduling pinned to the own thread. `TypeOK`: among the types, `m_idleThreadCount` and `m_activeThreadCount` stay within the thread count, so every increment is paired with its decrement (scheduler.cc:188-217). `NoFiberLeak`: once the application returned, no queue entry, worker, `cb_fiber` or self-reference still owns a fiber. `Refinement` of `SchedulerTasks`, liveness included: every work runs to its end and `stop()` returns. |
| sched_race | MCScheduler_race.cfg | violation of `OneThreadPerFiber` | A fiber reschedules itself to any thread and yields. Another worker takes it between `m_state = READY` (fiber.cc:154) and `swapcontext` (159). The RUNNING check at scheduler.cc:169 does not prevent it, contrary to its comment. A code bug. |
| sched_nostart | MCScheduler_nostart.cfg | violation of `Refinement` | Without `use_caller`, the application schedules work and calls `stop()` without `start()`. `stop()` joins the empty `m_threads` and returns with every task queued, and `start()` is refused from then on (scheduler.cc:65). With `use_caller` the same sequence is fine: the caller's loop inside `stop()` runs the work. A spec gap: spec.md 4.2 and 8 do not say that `start()` must come first. |
| fiber | MCFiber.cfg | violation of `ContextsOwned` | On a worker thread, `Scheduler::run` (on `Main`) resumes `f1`, and `f1`'s body resumes `f2`. `resume()` saves `f1` into `Main`'s `m_ctx` (fiber.cc:137-146): the loop's saved execution is overwritten. `f2`'s yield returns into `f1`, and `f1`'s yield re-enters its own stale stack instead of the loop. A spec gap: spec.md 4.1 allows `resume()` on any READY fiber and neither forbids nor defines a nested resume. |
| fiber_current | MCFiber_current.cfg | violation of `CurrentIsRunning` | On the `use_caller` thread, after a task yields, `t_fiber` names the original fiber while `m_rootFiber` runs. A spec gap: spec.md 4.1 promises both. |
| dispatch | MCServletDispatch.cfg | pass (196 176 states) | With App adding and removing exact and glob servlets while a connection is served, `RoutesAsRegistered`: every request goes to the servlet `RefRoute` picks (exact, else the oldest matching live glob, else the default). The copy of `m_default` and `setDefault` are two steps each, and the locked writers wait for readers, so routing is also checked against an overlapping `setDefault` (196 176 states). |
| dispatch_race | MCServletDispatch_race.cfg | violation of `NoDefaultRace` | App starts `setDefault` and a request for an unrouted path reaches `return m_default` under the read lock: the unlocked shared_ptr assignment (servlet.h:69) and the copy overlap, a data race. A code bug: every other table writer takes `m_mutex` for writing. |
| timers | MCTimerManager.cfg | pass (24 790 states) | Two timers, periods 1 and 2, a monotonic clock 0..3. `TimersLive`: after any sequence of `addTimer`, `cancel`, `refresh`, `reset` and `listExpiredCb` with its re-arming of recurring timers, the timers with a callback are exactly those in `m_timers`: no tie of deadlines makes the ordered set drop one. |
| io_events | MCIOManager_events.cfg | pass (186 291 states) | 2 workers, one fd whose events are each registered up to twice. `EventsFireOnce`: every handler is scheduled at most once, and exactly once unless deleted, whatever the order of epoll reports, cancellations and re-registrations. `PendingCounted`: `m_pendingEventCount` equals the registered events. `NoStrandedTask`: a queued task always has a worker outside `epoll_wait` or a tickle pending. `EventsDelivered`: a reported event's handler eventually runs. `StopCompletes`: after `stop()`, with nothing registered, every worker leaves `run()`. |
| io_timers | MCIOManager_timers.cfg | pass (698 589 states) | 2 workers, two timers, clock 0..2, and one application task pinned to a worker, scheduled before the first timer is created. `NoOversleep`: after any mix of `addTimer`, `reset` and `cancel` racing `getNextTimer` and `epoll_wait`, some worker wakes by the earliest deadline, although `m_tickled` suppresses tickles. `NoStrandedTask`: a queued task, also one the scanning worker must skip because it is pinned to the other, always has a worker awake or a tickle pending. |
| io_uncapped | MCIOManager_uncapped.cfg | violation of `StopCompletes` | One worker (`IOManager(1, ...)`). spec.md 4.4 lets idle block without timeout when no timer exists and `stopping()` is false. After `stop()` the worker sees an event still registered and blocks; `delEvent` then removes the last registration and schedules nothing, so no tickle is written, and the worker never re-checks `stopping()`. A spec gap: nothing that makes `stopping()` true wakes a worker; the capped wait of `io_events` does. |

Each property of a passing run has a mutant in `PROJECT.json`, and TLC
catches each one. The mutants include:

- `idle()` without the idle-count decrement;
- an IOManager scan that skips pinned tasks without tickling;
- `stopping()` without `active == 0`;
- `MainFunc` never dropping its self-reference;
- `addGlobServlet` without erasing the old entry;
- globs tried before exact paths;
- a non-empty `*`;
- `addServlet` that does not wait for readers;
- a `Comparator` without the address tie-break;
- `getNextTimer` that keeps `m_tickled` set;
- `need_tickle` computed after `push_back`;
- a stale epoll report fired without the registration check;
- only READ fired when both events are reported;
- `cancelEvent` that triggers without clearing the registration;
- an uncapped idle timeout.

## 4. Bounds and fairness

- **Scheduler.** Two workers, three works and at most two segments each reach
  every interesting case:
  - a fiber reschedules itself and yields (in `sched_race` onto the other
    worker, which may take it while it is still RUNNING);
  - a child is scheduled during `stop()`;
  - an idle worker is woken;
  - with `use_caller`, three loops (two workers and the caller inside
    `stop()`) share the queue;
  - with `use_caller` and no worker, the caller's loop alone runs all work.

  `sched_nostart` uses one worker, which is enough: when no worker was
  started, no task is ever taken.

  `Segs`, `Child` and `MaxYields`/`MaxResets` bound the self-rescheduling.
- **ServletDispatch.** The paths `/`, `/a`, `/a/b` and `/b`, the patterns
  `/*`, `/a/*` and `/?`, and two servlets give every routing conflict:
  - exact against glob;
  - two globs that both match;
  - re-registration moving a glob to the end;
  - deletion uncovering another glob.
- **TimerManager.** Addresses 1 and 2 make equal deadlines tie-break. Periods 1
  and 2 make re-arming collide with other deadlines.
- **IOManager.**
  - Two workers make it possible for one of them to collect the report the
    other needed.
  - Two registrations per event give the stale-report case: a report is
    collected, then the event is cancelled and registered again before the fd
    is processed.
  - `MaxTimeout = 2` with periods 1 and 2 lets a later front insertion beat
    an earlier wait.
  - In `io_events` the clock stays at 0, so timeouts expire at once.
  - `io_timers` has `MaxUser = 1`: one pinned task queued among timer
    callbacks is enough for the other worker's scan to skip it. `App`
    schedules it before it creates its first timer (the task may still wait
    in the queue while timers are added and expire), which keeps the run
    at about a minute. Unpinned
    application tasks are not enumerated; they are queued like timer
    callbacks, which the run already has. `io_events` and `io_uncapped` have
    `MaxUser = 0`.
  - `io_timers` uses `ThreadSymmetry` (workers are interchangeable) and
    `TimersView`. The view leaves out `cbs`, `hooked`,
    `m_previouseTime` (read only by the rollover check, which a monotonic
    clock never meets) and
    the deadline of a worker outside `epoll_wait`. No later step reads them,
    and `NoOversleep` does not either. Both reductions are used only in this
    safety run.
- **Fairness.**
  - Weak fairness on each thread's steps, because every modelled thread is an
    OS thread that runs while it has a step.
  - Weak fairness on the IOManager's clock, because time passes.
  - None on the application or the peer: nothing obliges them to cancel,
    register or make an fd ready.
  - A timed-out `epoll_wait` may return once the clock reaches its bound, so
    the bound on time does not fake a hang.
- **Deadlock.**
  - The Fiber runs disable the deadlock check: a single thread with every fiber
    TERM and the reset bound reached really stops.
  - `io_uncapped` has one worker: the hang needs no second worker, and with
    one it does not depend on how the tickle writes of `stop()` coalesce.
  - All other passing runs check deadlock, with a `Terminated` stutter once
    everything exited.
  - `io_uncapped` disables the deadlock check so that the hang is reported as
    the violated `StopCompletes`.

## 5. Not modelled, and why

- `~Fiber` and its TERM assertion (fiber.cc:99). The reference count is
  modelled only as ownership (`Owners`). No separate check is needed:
  `MainFunc` holds `cur` for as long as the body runs, and every
  suspension happens inside the body. So `task.reset()` and
  `cb_fiber.reset()` in `run()` never drop the last reference to a
  suspended fiber, and no scheduler bug could break such a property. A
  fiber parked without a waker, for example on an event that `delEvent`
  drops, is never freed. `NoFiberLeak` covers the fibers the scheduler runs.
- `addConditionTimer`: its weak-pointer check runs inside the callback.
- `HttpServer::setServletDispatch`: an unlocked `shared_ptr` replacement, like
  `setDefault`, with no caller in the repository.
- `contextResize`, the fiber captured by `addEvent` without a callback, and
  EINTR retries.
- Hooks, sockets, HTTP parsing, logging and utilities: I/O and formatting.
  `endian.h` only forwards to `bswap_16/32/64`. `log.h` and `tcp_server.h`
  are declarations whose implementation is not in the repository, and
  spec.md 1 excludes the TCP server lifecycle.
- The unlocked write of `m_stopping` is taken as atomic. It is a race on a
  `bool` that the workers read again on every idle pass, so an old or a new
  value are its only outcomes, and the interleavings already produce both.
  The unlocked write of `m_default` is not taken as atomic (see
  `dispatch_race`).

## 6. Plan left

1. Fiber handlers in IOManager: `addEvent` without a callback parks the
   calling fiber, and `delEvent` then leaks it.
2. `addConditionTimer`.

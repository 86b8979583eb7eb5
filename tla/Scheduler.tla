----------------------------- MODULE Scheduler -----------------------------
(***************************************************************************)
(* The N:M fiber scheduler of src/server/scheduler.{h,cc} together with   *)
(* the fiber state machine of src/server/fiber.cc that it drives.         *)
(*                                                                         *)
(* The OS threads are the worker threads spawned by start() and Caller,  *)
(* the constructing thread.  The constructor's use_caller flag is chosen  *)
(* in Init: with it, Caller also runs Scheduler::run (on m_rootFiber,     *)
(* from inside stop()); without it, Caller never enters run().  A         *)
(* separate actor App is the application code on Caller that schedules    *)
(* the initial work, calls start() and then stop().                       *)
(*                                                                         *)
(* The work a task performs is abstracted to its control: a work w runs   *)
(* Segs[w] segments.  Between two segments it reschedules its own fiber   *)
(* (Scheduler::GetThis()->schedule(Fiber::GetThis())) and yields; after   *)
(* its last segment it may schedule one child work Child[w], then it      *)
(* returns from its entry and MainFunc terminates the fiber.              *)
(***************************************************************************)
EXTENDS Integers, Sequences, SequencesExt, FiniteSets

CONSTANTS
    Workers,      \* threads created by start() (m_threadCount of them)
    Caller,       \* thread id of the constructing thread
    AnyThread,          \* the affinity -1: "any thread"
    Works,        \* the units of work, each run by one fiber object
    Segs,         \* Segs[w]: number of segments (yield + 1) of work w
    Child,        \* Child[w]: the work w schedules before it returns, or NoWork
    Kind,         \* Kind[w] \in {"fiber","cb"}: scheduled as Fiber::ptr or as std::function
    Initial,      \* the works App schedules before stop()
    Pinned,       \* TRUE: a fiber reschedules itself on its own thread id
    StartBeforeStop, \* TRUE: App calls start() before stop()
    NoWork, NoFiber, NoTask

ASSUME /\ Caller \notin Workers /\ AnyThread \notin Workers \cup {Caller}
       /\ Pinned \in BOOLEAN /\ StartBeforeStop \in BOOLEAN
       /\ Segs \in [Works -> Nat \ {0}]
       /\ Child \in [Works -> Works \cup {NoWork}]
       /\ Kind \in [Works -> {"fiber", "cb"}]
       /\ Initial \subseteq Works

\* The threads that may run Scheduler::run.
RunThreads == Workers \cup {Caller}
\* The thread ids a ScheduleTask may carry: -1 or any thread's id.
Affinities == {AnyThread} \cup RunThreads
\* Fiber objects: the fiber created for work w (by App, by a parent, or by
\* run() for a callback task) has the identity w.
Fibers == Works
FiberStates == {"NONE", "READY", "RUNNING", "TERM"}
Task == [kind : {"fiber", "cb"}, id : Works, thread : Affinities]

VARIABLES
    queue,       \* m_tasks
    active,      \* m_activeThreadCount
    idleCount,   \* m_idleThreadCount
    stopFlag,    \* m_stopping
    started,     \* m_threads created by start()
    fstate,      \* Fiber::m_state of every fiber object
    entry,       \* Fiber::m_cb: the work a fiber object runs
    ctx,         \* Fiber::m_ctx: the segment its saved context resumes at
    pc,          \* position of each RunThread in Scheduler::run
    task,        \* the local `task` of run()
    running,     \* the fiber whose stack a thread executes on (NoFiber: run loop)
    seg,         \* the segment a thread executes in that fiber
    cbFiber,     \* the local `cb_fiber` of run()
    idleState,   \* Fiber::m_state of each thread's idle_fiber
    appPc,       \* position of App: scheduling, in stop(), returned
    submitted,   \* history: works handed to schedule()
    ran,         \* history: segments of each work executed so far
    selfRef,     \* fibers whose MainFunc holds `cur` (shared_from_this)
    useCaller,   \* m_useCaller, fixed by the constructor
    pool         \* the m_threadCount workers start() creates

vars == <<useCaller, pool, queue, active, idleCount, stopFlag, started, fstate, entry, ctx, pc,
          task, running, seg, cbFiber, idleState, appPc, submitted, ran, selfRef>>

TypeOK ==
    /\ queue \in Seq(Task)
    /\ active \in 0..Cardinality(RunThreads)
    /\ idleCount \in 0..Cardinality(RunThreads)
    /\ stopFlag \in BOOLEAN /\ started \in BOOLEAN
    /\ fstate \in [Fibers -> FiberStates]
    /\ entry \in [Fibers -> Works \cup {NoWork}]
    /\ ctx \in [Fibers -> Nat]
    /\ pc \in [RunThreads -> {"unborn", "run", "scan", "dispatch", "exec",
                              "yield", "swap", "back", "idle", "exit"}]
    /\ task \in [RunThreads -> Task \cup {NoTask}]
    /\ running \in [RunThreads -> Fibers \cup {NoFiber}]
    /\ seg \in [RunThreads -> Nat]
    /\ cbFiber \in [RunThreads -> Fibers \cup {NoFiber}]
    /\ idleState \in [RunThreads -> FiberStates]
    /\ appPc \in {"app", "root", "join", "returned"}
    /\ submitted \subseteq Works
    /\ ran \in [Works -> Nat]
    /\ selfRef \subseteq Fibers
    /\ useCaller \in BOOLEAN
    /\ pool \subseteq Workers

\* The constructor: use_caller spends one of the `threads` on the caller,
\* so Scheduler(1, true) creates no worker at all.
ThreadCounts(uc) == IF uc THEN {{}, Workers} ELSE {Workers}

Init ==
    /\ queue = <<>>
    /\ active = 0 /\ idleCount = 0
    /\ stopFlag = FALSE /\ started = FALSE
    /\ fstate = [f \in Fibers |-> "NONE"]
    /\ entry = [f \in Fibers |-> NoWork]
    /\ ctx = [f \in Fibers |-> 0]
    /\ pc = [t \in RunThreads |-> "unborn"]
    /\ task = [t \in RunThreads |-> NoTask]
    /\ running = [t \in RunThreads |-> NoFiber]
    /\ seg = [t \in RunThreads |-> 0]
    /\ cbFiber = [t \in RunThreads |-> NoFiber]
    /\ idleState = [t \in RunThreads |-> "NONE"]
    /\ appPc = "app"
    /\ submitted = {}
    /\ ran = [w \in Works |-> 0]
    /\ selfRef = {}
    /\ useCaller \in BOOLEAN
    /\ pool \in ThreadCounts(useCaller)

-----------------------------------------------------------------------------
(* Helpers                                                                 *)

\* Fault: stopping() that forgets m_activeThreadCount == 0.
stoppingIgnoringActive == stopFlag /\ queue = <<>>

\* Scheduler::stopping(), evaluated under m_mutex.
stopping == stopFlag /\ queue = <<>> /\ active = 0

\* ScheduleTask(fc, thread) for work w: a fiber task or a callback task.
NewTask(w, aff) == [kind |-> Kind[w], id |-> w, thread |-> aff]

\* new Fiber(cb): the fiber objects in `fib` become READY with a context
\* entering MainFunc; `st` are the states the caller's own step leaves.
NewFiber(fib, st) ==
    /\ fstate' = [f \in Fibers |-> IF f \in fib THEN "READY" ELSE st[f]]
    /\ entry' = [f \in Fibers |-> IF f \in fib THEN f ELSE entry[f]]
    /\ ctx' = [f \in Fibers |-> IF f \in fib THEN 1 ELSE ctx[f]]

\* Scheduler::scheduleNoLock: push_back.  Its need_tickle result only
\* reaches tickle(), a logging stub in the base scheduler.
scheduleNoLock(w, aff) == queue' = Append(queue, NewTask(w, aff))

\* Scheduler::schedule, after the caller made the fiber objects `fib`
\* (empty for a callback task, {w} for a fiber task).
Schedule(w, aff, fib, st) ==
    /\ scheduleNoLock(w, aff)
    /\ submitted' = submitted \cup {w}
    /\ NewFiber(fib, st)

FiberOf(w) == IF Kind[w] = "fiber" THEN {w} ELSE {}

\* The affinities the application's work uses: any thread, a worker once
\* start() has created it (its id is pushed to m_threadIds there), or the
\* constructing thread, which only runs tasks with use_caller.
Pins == {AnyThread} \cup (IF started THEN pool ELSE {})
          \cup (IF useCaller THEN {Caller} ELSE {})

\* The scan condition of run(): the affinity is -1 or this thread, and a
\* fiber task's fiber is not RUNNING (still yielding on another thread).
Eligible(t, e) ==
    /\ e.thread \in {AnyThread, t}
    /\ ~(e.kind = "fiber" /\ fstate[e.id] = "RUNNING")

-----------------------------------------------------------------------------
(* Application thread: schedule(), start(), stop()                         *)

Submit(w, aff) ==
    /\ appPc = "app"
    /\ w \in Initial \ submitted
    /\ Schedule(w, aff, FiberOf(w), fstate)
    /\ UNCHANGED <<useCaller, pool, active, idleCount, stopFlag, started, pc, task, running,
                   seg, cbFiber, idleState, appPc, ran, selfRef>>

\* Scheduler::start(): creates the m_threadCount threads, each entering run().
Start ==
    /\ appPc = "app" /\ ~started
    /\ ~stopFlag
    /\ started' = TRUE
    /\ pc' = [t \in RunThreads |-> IF t \in pool THEN "run" ELSE pc[t]]
    /\ UNCHANGED <<useCaller, pool, queue, active, idleCount, stopFlag, fstate, entry, ctx, task,
                   running, seg, cbFiber, idleState, appPc, submitted, ran, selfRef>>

\* Scheduler::stop(): its early return on stopping() cannot be taken, as
\* m_stopping is only set here and App calls stop() once.  It sets
\* m_stopping, tickles (no-op), and with use_caller resumes m_rootFiber,
\* whose entry is run() on the caller thread.  Nothing in stop() requires
\* start() to have run; StartBeforeStop is the application's protocol.
Stop ==
    /\ appPc = "app" /\ (started \/ ~StartBeforeStop) /\ Initial \subseteq submitted
    /\ stopFlag' = TRUE
    /\ IF useCaller
         THEN /\ appPc' = "root"
              /\ pc' = [pc EXCEPT ![Caller] = "run"]
         ELSE /\ appPc' = "join"
              /\ UNCHANGED pc
    /\ UNCHANGED <<useCaller, pool, queue, active, idleCount, started, fstate, entry, ctx, task,
                   running, seg, cbFiber, idleState, submitted, ran, selfRef>>

\* m_rootFiber's run() returned: MainFunc terminates it and yields back to
\* the caller's thread fiber, inside stop().
RootReturn ==
    /\ appPc = "root" /\ pc[Caller] = "exit"
    /\ appPc' = "join"
    /\ UNCHANGED <<useCaller, pool, queue, active, idleCount, stopFlag, started, fstate, entry,
                   ctx, pc, task, running, seg, cbFiber, idleState, submitted, ran, selfRef>>

\* stop() swaps m_threads out under the lock and joins every worker; when
\* start() never ran, m_threads is empty and there is nothing to join.
Join ==
    /\ appPc = "join"
    /\ started => \A t \in pool : pc[t] = "exit"
    /\ appPc' = "returned"
    /\ UNCHANGED <<useCaller, pool, queue, active, idleCount, stopFlag, started, fstate, entry,
                   ctx, pc, task, running, seg, cbFiber, idleState, submitted, ran, selfRef>>

-----------------------------------------------------------------------------
(* Scheduler::run, one action per step of a RunThread t                    *)

\* Entry of run(): setThis, hooks, the thread's main fiber, and
\* Fiber::ptr idle_fiber(new Fiber(idle)).
RunEntry(t) ==
    /\ pc[t] = "run"
    /\ idleState' = [idleState EXCEPT ![t] = "READY"]
    /\ pc' = [pc EXCEPT ![t] = "scan"]
    /\ UNCHANGED <<useCaller, pool, queue, active, idleCount, stopFlag, started, fstate, entry,
                   ctx, task, running, seg, cbFiber, appPc, submitted, ran, selfRef>>

\* The scan under m_mutex takes the first eligible task and counts the
\* thread active.  tickle_me only triggers tickle(), a no-op here.
ScanTake(t) ==
    LET i == SelectInSeq(queue, LAMBDA e : Eligible(t, e))
    IN  /\ pc[t] = "scan"
        /\ i # 0
        /\ task' = [task EXCEPT ![t] = queue[i]]
        /\ queue' = RemoveAt(queue, i)
        /\ active' = active + 1
        /\ pc' = [pc EXCEPT ![t] = "dispatch"]
        /\ UNCHANGED <<useCaller, pool, idleCount, stopFlag, started, fstate, entry, ctx, running,
                       seg, cbFiber, idleState, appPc, submitted, ran, selfRef>>

\* No eligible task: resume the idle fiber, counting the thread idle ...
ScanIdle(t) ==
    /\ pc[t] = "scan"
    /\ SelectInSeq(queue, LAMBDA e : Eligible(t, e)) = 0
    /\ idleState[t] # "TERM"
    /\ idleCount' = idleCount + 1
    /\ idleState' = [idleState EXCEPT ![t] = "RUNNING"]
    /\ pc' = [pc EXCEPT ![t] = "idle"]
    /\ UNCHANGED <<useCaller, pool, queue, active, stopFlag, started, fstate, entry, ctx, task,
                   running, seg, cbFiber, appPc, submitted, ran, selfRef>>

\* ... unless the idle fiber has terminated: run() breaks out and returns.
ScanExit(t) ==
    /\ pc[t] = "scan"
    /\ SelectInSeq(queue, LAMBDA e : Eligible(t, e)) = 0
    /\ idleState[t] = "TERM"
    /\ pc' = [pc EXCEPT ![t] = "exit"]
    /\ UNCHANGED <<useCaller, pool, queue, active, idleCount, stopFlag, started, fstate, entry,
                   ctx, task, running, seg, cbFiber, idleState, appPc, submitted, ran, selfRef>>

\* Fault: run() that never undoes ++m_idleThreadCount.
IdleStepNoDecrement(t) ==
    /\ pc[t] = "idle"
    /\ idleState' = [idleState EXCEPT ![t] = IF stopping THEN "TERM" ELSE "READY"]
    /\ pc' = [pc EXCEPT ![t] = "scan"]
    /\ UNCHANGED <<useCaller, pool, queue, active, idleCount, stopFlag, started, fstate, entry,
                   ctx, task, running, seg, cbFiber, appPc, submitted, ran, selfRef>>

\* Scheduler::idle(): while (!stopping()) yield.  One pass resumes here and
\* either yields (READY) or returns, MainFunc marking the fiber TERM; back
\* in run() the idle count drops.
IdleStep(t) ==
    /\ pc[t] = "idle"
    /\ idleState' = [idleState EXCEPT ![t] = IF stopping THEN "TERM" ELSE "READY"]
    /\ idleCount' = idleCount - 1
    /\ pc' = [pc EXCEPT ![t] = "scan"]
    /\ UNCHANGED <<useCaller, pool, queue, active, stopFlag, started, fstate, entry, ctx, task,
                   running, seg, cbFiber, appPc, submitted, ran, selfRef>>

\* Fiber::resume(): state RUNNING, then swapcontext loads the fiber's saved
\* context c, whatever segment that context stands at.
ResumeFiber(t, f, c) ==
    /\ fstate' = [fstate EXCEPT ![f] = "RUNNING"]
    /\ selfRef' = IF c = 1 THEN selfRef \cup {f} ELSE selfRef
    /\ running' = [running EXCEPT ![t] = f]
    /\ seg' = [seg EXCEPT ![t] = c]

\* A callback task: reuse cb_fiber with Fiber::reset(cb) if run() still
\* holds one, else new Fiber(cb); task.reset(); then resume it.
DispatchCb(t, w) ==
    LET obj == IF cbFiber[t] = NoFiber THEN w ELSE cbFiber[t]
    IN  /\ entry' = [entry EXCEPT ![obj] = w]
        /\ ctx' = [ctx EXCEPT ![obj] = 1]
        /\ cbFiber' = [cbFiber EXCEPT ![t] = obj]
        /\ task' = [task EXCEPT ![t] = NoTask]
        /\ ResumeFiber(t, obj, 1)

Dispatch(t) ==
    /\ pc[t] = "dispatch"
    /\ \/ /\ task[t].kind = "fiber"
          /\ ResumeFiber(t, task[t].id, ctx[task[t].id])
          /\ UNCHANGED <<useCaller, pool, entry, ctx, cbFiber, task>>
       \/ /\ task[t].kind = "cb"
          /\ DispatchCb(t, task[t].id)
    /\ pc' = [pc EXCEPT ![t] = "exec"]
    /\ UNCHANGED <<useCaller, pool, queue, active, idleCount, stopFlag, started, idleState, appPc,
                   submitted, ran>>

\* Fault: MainFunc yields for the last time still holding `cur`.
ReleaseSelfNever(f) == selfRef' = selfRef

\* MainFunc: raw_ptr = cur.get(); cur.reset() before the final yield.
ReleaseSelf(f) == selfRef' = selfRef \ {f}

\* The fiber body runs one segment.  Before its last segment it reschedules
\* its own fiber (pinned to this thread or to any thread) and goes on to
\* yield; the last segment schedules the child work, then the entry returns
\* and MainFunc sets m_cb = nullptr, m_state = TERM before its final yield.
Exec(t) ==
    LET f == running[t]
        w == entry[f]
        k == seg[t]
    IN  /\ pc[t] = "exec"
        /\ ran' = [ran EXCEPT ![w] = @ + 1]
        /\ \/ /\ k < Segs[w]
              /\ queue' = Append(queue, [kind |-> "fiber", id |-> f,
                                        thread |-> IF Pinned THEN t ELSE AnyThread])
              /\ pc' = [pc EXCEPT ![t] = "yield"]
              /\ UNCHANGED <<useCaller, pool, fstate, entry, ctx, submitted, selfRef>>
           \/ /\ k >= Segs[w]
              /\ Child[w] = NoWork
              /\ fstate' = [fstate EXCEPT ![f] = "TERM"]
              /\ ReleaseSelf(f)
              /\ pc' = [pc EXCEPT ![t] = "swap"]
              /\ UNCHANGED <<useCaller, pool, queue, entry, ctx, submitted>>
           \/ /\ k >= Segs[w]
              /\ Child[w] # NoWork
              /\ \E aff \in Pins :
                   Schedule(Child[w], aff, FiberOf(Child[w]),
                            [fstate EXCEPT ![f] = "TERM"])
              /\ ReleaseSelf(f)
              /\ pc' = [pc EXCEPT ![t] = "swap"]
        /\ UNCHANGED <<useCaller, pool, active, idleCount, stopFlag, started, task, running, seg,
                       cbFiber, idleState, appPc>>

\* Fiber::yield(), first half: SetThis(thread fiber) and m_state = READY.
Yield(t) ==
    /\ pc[t] = "yield"
    /\ fstate' = [fstate EXCEPT ![running[t]] = "READY"]
    /\ pc' = [pc EXCEPT ![t] = "swap"]
    /\ UNCHANGED <<useCaller, pool, queue, active, idleCount, stopFlag, started, entry, ctx, task,
                   running, seg, cbFiber, idleState, appPc, submitted, ran, selfRef>>

\* Fiber::yield(), second half: swapcontext saves the fiber's context (it
\* resumes at the next segment) and control is back in run().
Swap(t) ==
    /\ pc[t] = "swap"
    /\ ctx' = [ctx EXCEPT ![running[t]] = seg[t] + 1]
    /\ running' = [running EXCEPT ![t] = NoFiber]
    /\ pc' = [pc EXCEPT ![t] = "back"]
    /\ UNCHANGED <<useCaller, pool, queue, active, idleCount, stopFlag, started, fstate, entry,
                   task, seg, cbFiber, idleState, appPc, submitted, ran, selfRef>>

\* After resume() returns: --m_activeThreadCount, then task.reset() in the
\* fiber branch or cb_fiber.reset() in the callback branch (whose task was
\* already reset before the resume).
Back(t) ==
    /\ pc[t] = "back"
    /\ active' = active - 1
    /\ IF task[t] = NoTask
         THEN /\ cbFiber' = [cbFiber EXCEPT ![t] = NoFiber]
              /\ UNCHANGED task
         ELSE /\ task' = [task EXCEPT ![t] = NoTask]
              /\ UNCHANGED cbFiber
    /\ pc' = [pc EXCEPT ![t] = "scan"]
    /\ UNCHANGED <<useCaller, pool, queue, idleCount, stopFlag, started, fstate, entry, ctx,
                   running, seg, idleState, appPc, submitted, ran, selfRef>>

\* Once stop() has returned the program has nothing left to do.
Terminated ==
    /\ appPc = "returned"
    /\ UNCHANGED vars

ThreadStep(t) ==
    \/ RunEntry(t) \/ ScanTake(t) \/ ScanIdle(t) \/ ScanExit(t) \/ IdleStep(t)
    \/ Dispatch(t) \/ Exec(t) \/ Yield(t) \/ Swap(t) \/ Back(t)

AppStep ==
    \/ \E w \in Works, aff \in Pins : Submit(w, aff)
    \/ Start \/ Stop \/ RootReturn \/ Join

Next ==
    \/ AppStep
    \/ \E t \in RunThreads : ThreadStep(t)
    \/ Terminated

\* The OS schedules every thread fairly; no thread is starved forever.
Fairness ==
    /\ WF_vars(AppStep)
    /\ \A t \in RunThreads : WF_vars(ThreadStep(t))

Spec == Init /\ [][Next]_vars /\ Fairness

-----------------------------------------------------------------------------
(* Properties                                                              *)

\* No fiber's stack is executed by two threads at once.  run() skips a
\* queued fiber whose state is RUNNING because a fiber may be rescheduled
\* before it has finished yielding on its own thread (scheduler.cc:166-172);
\* this asks whether that check is enough to keep a second thread from
\* switching onto the fiber's stack while the first is still on it.
OneThreadPerFiber ==
    \A t1, t2 \in RunThreads :
        (t1 # t2 /\ running[t1] # NoFiber) => running[t1] # running[t2]

\* The owning references to fiber f: queued fiber tasks, run()'s local
\* task and cb_fiber, and MainFunc's `cur` while the body runs.
Owners(f) ==
    Len(SelectSeq(queue, LAMBDA e : e.kind = "fiber" /\ e.id = f))
      + Cardinality({t \in RunThreads : task[t] # NoTask /\ task[t].kind = "fiber"
                                        /\ task[t].id = f})
      + Cardinality({t \in RunThreads : cbFiber[t] = f})
      + (IF f \in selfRef THEN 1 ELSE 0)

\* When stop() returns, the last reference to every fiber the scheduler
\* ran has been dropped, so ~Fiber has run for it and freed its stack: the
\* final yield of MainFunc goes through a raw pointer after cur.reset()
\* precisely so that a fiber does not keep itself alive (spec.md 3).
NoFiberLeak ==
    appPc = "returned" => \A f \in Fibers : Owners(f) = 0

\* The scheduler implements SchedulerTasks: every scheduled work runs each
\* of its segments exactly once and in order, stop() returns only after all
\* scheduled work (including work scheduled by running tasks) finished,
\* and, under fair thread scheduling, everything finishes and stop() returns.
TP == INSTANCE SchedulerTasks
        WITH progress <- ran, stopReq <- stopFlag, stopped <- (appPc = "returned")

Refinement == TP!Spec

=============================================================================

----------------------------- MODULE IOManager -----------------------------
(***************************************************************************)
(* IOManager of src/server/iomanager.h: a Scheduler whose idle fiber      *)
(* blocks in epoll_wait, woken by a tickle pipe, by ready file            *)
(* descriptors and by the earliest timer of its TimerManager.  The        *)
(* repository holds only the header; the state is the header's members    *)
(* and the operations follow spec.md 4.4.                                  *)
(*                                                                         *)
(* The TimerManager part is the module TimerManager, instantiated over    *)
(* the same variables.  The scheduler part is reduced to what IOManager   *)
(* relies on: the task queue (handlers and timer callbacks are scheduled  *)
(* onto it for any thread, application tasks possibly for one thread, and *)
(* each runs to completion on the worker that takes it), the tickle of    *)
(* schedule() when the queue was empty, and the tickle of run()'s scan    *)
(* when it skipped a task pinned elsewhere or left tasks behind.  Each    *)
(* worker thread alternates between its run loop and one pass of idle(). *)
(*                                                                         *)
(* epoll is edge-triggered: a readiness change of a registered event, or  *)
(* a tickle write, is reported once, to one waiting thread; reports that *)
(* are not collected yet coalesce.                                         *)
(***************************************************************************)
EXTENDS Naturals, Sequences, FiniteSets, SequencesExt

CONSTANTS
    Threads,       \* worker threads
    Fds,           \* file descriptors with an FdContext
    MaxRegs,       \* bound on registrations per (fd, event)
    MaxTimeout,    \* the cap on epoll_wait's timeout
    CapTimeout,    \* TRUE: without timers epoll_wait waits MaxTimeout, not forever
    Inf,           \* an epoll_wait without timeout
    AnyThread,     \* the affinity -1
    MaxUser,       \* bound on application tasks queued at once
    Timers, Addr, Periods, MaxTime, Hour, NoTimer

ASSUME /\ MaxRegs \in Nat \ {0} /\ MaxTimeout \in Nat \ {0}
       /\ CapTimeout \in BOOLEAN /\ Inf \notin Nat
       /\ AnyThread \notin Threads /\ MaxUser \in Nat

\* IOManager::Event: READ (EPOLLIN) and WRITE (EPOLLOUT); NONE is {}.
Events == {"READ", "WRITE"}
\* An EventContext's fiber or callback, named by the registration it
\* came from: the g-th addEvent(fd, ev).
Handler == Fds \X Events \X (1..MaxRegs)
Task == [kind : {"event"}, h : Handler, thread : {AnyThread}]
          \cup [kind : {"timer"}, t : Timers, thread : {AnyThread}]
          \cup [kind : {"user"}, thread : Threads \cup {AnyThread}]

VARIABLES
    mask,        \* FdContext::events
    ectx,        \* FdContext::read/write: registration number, 0 when empty
    regs,        \* addEvent calls per (fd, event) so far
    pending,     \* m_pendingEventCount
    ready,       \* edge reports of registered fds not yet collected
    tickleEdge,  \* a tickle write not yet collected
    queue,       \* the Scheduler's m_tasks
    pc,          \* where each worker is
    deadline,    \* the time its epoll_wait times out at (Inf: never)
    got,         \* the fd events its epoll_wait returned
    stopFlag,    \* m_stopping
    fired,       \* history: how often each handler was scheduled (capped at 2)
    deleted      \* history: handlers dropped by delEvent

ioVars == <<mask, ectx, regs, pending, ready, tickleEdge, queue, pc, deadline,
            got, stopFlag, fired, deleted>>

VARIABLES made, next, period, recurring, hasCb, timers, tickled, prevTime,
          now, cbs, hooked

tmVars == <<made, next, period, recurring, hasCb, timers, tickled, prevTime,
            now, cbs, hooked>>

vars == <<ioVars, tmVars>>

TM == INSTANCE TimerManager

TypeOK ==
    /\ mask \in [Fds -> SUBSET Events]
    /\ ectx \in [Fds -> [Events -> 0..MaxRegs]]
    /\ regs \in [Fds -> [Events -> 0..MaxRegs]]
    /\ pending \in Nat
    /\ ready \in [Fds -> SUBSET Events]
    /\ tickleEdge \in BOOLEAN
    /\ queue \in Seq(Task)
    /\ pc \in [Threads -> {"sched", "wait", "timers", "events", "exit"}]
    /\ deadline \in [Threads -> Nat \cup {Inf}]
    /\ got \in [Threads -> [Fds -> SUBSET Events]]
    /\ stopFlag \in BOOLEAN
    /\ fired \in [Handler -> 0..2]
    /\ deleted \subseteq Handler
    /\ TM!TypeOK

\* IOManager(): contexts for every fd, no events, the tickle pipe's read
\* end registered; start() puts every worker into its run loop.
Init ==
    /\ mask = [fd \in Fds |-> {}]
    /\ ectx = [fd \in Fds |-> [e \in Events |-> 0]]
    /\ regs = [fd \in Fds |-> [e \in Events |-> 0]]
    /\ pending = 0
    /\ ready = [fd \in Fds |-> {}]
    /\ tickleEdge = FALSE
    /\ queue = <<>>
    /\ pc = [t \in Threads |-> "sched"]
    /\ deadline = [t \in Threads |-> Inf]
    /\ got = [t \in Threads |-> [fd \in Fds |-> {}]]
    /\ stopFlag = FALSE
    /\ fired = [h \in Handler |-> 0]
    /\ deleted = {}
    /\ TM!Init

-----------------------------------------------------------------------------
(* Scheduling and tickle                                                   *)

\* IOManager::tickle(): one byte into the pipe, an edge for one waiter.
tickle == tickleEdge' = TRUE

\* Fault: need_tickle computed after push_back.
ScheduleAllTickleAfterPush(ts) ==
    /\ queue' = queue \o ts
    /\ IF queue' = <<>> /\ ts # <<>> THEN tickle ELSE UNCHANGED tickleEdge

\* Scheduler::schedule of the tasks ts: push_back under the lock, then
\* tickle() if the queue was empty before.
ScheduleAll(ts) ==
    /\ queue' = queue \o ts
    /\ IF queue = <<>> /\ ts # <<>> THEN tickle ELSE UNCHANGED tickleEdge

\* The schedule tasks of the handlers stored for the events evs of fd:
\* triggerEvent is called for READ before WRITE.
HandlerTasks(fd, evs) ==
    LET es == SelectSeq(<<"READ", "WRITE">>, LAMBDA e : e \in evs)
    IN  [i \in 1..Len(es) |-> [kind |-> "event", h |-> <<fd, es[i], ectx[fd][es[i]]>>,
                               thread |-> AnyThread]]

\* The events evs of fd fire: their bits leave FdContext::events (and the
\* epoll registration, epoll_ctl MOD or DEL), m_pendingEventCount drops by
\* one per event, and FdContext::triggerEvent schedules each stored
\* handler and resets its EventContext.
Trigger(fd, evs) ==
    /\ mask' = [mask EXCEPT ![fd] = @ \ evs]
    /\ ready' = [ready EXCEPT ![fd] = @ \cap mask'[fd]]
    /\ ectx' = [ectx EXCEPT ![fd] = [e \in Events |-> IF e \in evs THEN 0 ELSE @[e]]]
    /\ pending' = pending - Cardinality(evs)
    /\ fired' = [h \in Handler |-> IF h[1] = fd /\ h[2] \in evs /\ h[3] = ectx[fd][h[2]]
                                     THEN IF fired[h] = 2 THEN 2 ELSE fired[h] + 1
                                     ELSE fired[h]]
    /\ ScheduleAll(HandlerTasks(fd, evs))

\* The application's schedule(cb, thread) of a task pinned to one worker
\* (a task for any thread is queued like a timer callback).
ScheduleUser(aff) ==
    /\ ~stopFlag
    /\ Len(SelectSeq(queue, LAMBDA e : e.kind = "user")) < MaxUser
    /\ ScheduleAll(<<[kind |-> "user", thread |-> aff]>>)
    /\ UNCHANGED <<mask, ectx, regs, pending, ready, pc, deadline, got, stopFlag,
                   fired, deleted>>
    /\ UNCHANGED tmVars

-----------------------------------------------------------------------------
(* Event registration, under the fd's FdContext::mutex                     *)

\* addEvent(fd, event, cb): -1 without effect when the event is already
\* registered; otherwise epoll_ctl ADD/MOD, the EventContext stores the
\* handler, and m_pendingEventCount is incremented.
addEvent(fd, e) ==
    /\ ~stopFlag
    /\ e \notin mask[fd]
    /\ regs[fd][e] < MaxRegs
    /\ regs' = [regs EXCEPT ![fd][e] = @ + 1]
    /\ mask' = [mask EXCEPT ![fd] = @ \cup {e}]
    /\ ectx' = [ectx EXCEPT ![fd][e] = regs'[fd][e]]
    /\ pending' = pending + 1
    /\ UNCHANGED <<ready, tickleEdge, queue, pc, deadline, got, stopFlag, fired,
                   deleted>>
    /\ UNCHANGED tmVars

\* delEvent(fd, event): false when not registered; otherwise the event
\* leaves the epoll registration and its EventContext is cleared without
\* being invoked.
delEvent(fd, e) ==
    /\ e \in mask[fd]
    /\ mask' = [mask EXCEPT ![fd] = @ \ {e}]
    /\ ready' = [ready EXCEPT ![fd] = @ \cap mask'[fd]]
    /\ ectx' = [ectx EXCEPT ![fd][e] = 0]
    /\ deleted' = deleted \cup {<<fd, e, ectx[fd][e]>>}
    /\ pending' = pending - 1
    /\ UNCHANGED <<regs, tickleEdge, queue, pc, deadline, got, stopFlag, fired>>
    /\ UNCHANGED tmVars

\* Fault: cancelEvent triggering the handler but leaving the event, its
\* EventContext and the pending count as they were.
cancelEventKeepingRegistration(fd, e) ==
    /\ e \in mask[fd]
    /\ fired' = [fired EXCEPT ![<<fd, e, ectx[fd][e]>>] = IF @ = 2 THEN 2 ELSE @ + 1]
    /\ ScheduleAll(HandlerTasks(fd, {e}))
    /\ UNCHANGED <<mask, ectx, regs, pending, ready, pc, deadline, got, stopFlag,
                   deleted>>
    /\ UNCHANGED tmVars

\* cancelEvent(fd, event): false when not registered; otherwise like
\* delEvent, but the stored handler is triggered once.
cancelEvent(fd, e) ==
    /\ e \in mask[fd]
    /\ Trigger(fd, {e})
    /\ UNCHANGED <<regs, pc, deadline, got, stopFlag, deleted>> /\ UNCHANGED tmVars

\* cancelAll(fd): false without events; otherwise every registered event
\* is triggered and fd leaves the epoll set.
cancelAll(fd) ==
    /\ mask[fd] # {}
    /\ Trigger(fd, mask[fd])
    /\ UNCHANGED <<regs, pc, deadline, got, stopFlag, deleted>> /\ UNCHANGED tmVars

\* The peer makes fd ready for the registered event e: an edge report.
Ready(fd, e) ==
    /\ e \in mask[fd]
    /\ ready' = [ready EXCEPT ![fd] = @ \cup {e}]
    /\ UNCHANGED <<mask, ectx, regs, pending, tickleEdge, queue, pc, deadline,
                   got, stopFlag, fired, deleted>>
    /\ UNCHANGED tmVars

-----------------------------------------------------------------------------
(* Timers: TimerManager's operations; a front insertion tickles            *)

\* addTimer, with onTimerInsertedAtFront() = tickle().
AddTimer(t, ms, rec) ==
    /\ ~stopFlag
    /\ TM!addTimer(t, ms, rec)
    /\ IF hooked' THEN tickle ELSE UNCHANGED tickleEdge
    /\ UNCHANGED <<mask, ectx, regs, pending, ready, queue, pc, deadline, got,
                   stopFlag, fired, deleted>>

\* Timer::reset goes through addTimer(val, lock), which may tickle too.
ResetTimer(t, ms, fromNow) ==
    /\ TM!reset(t, ms, fromNow)
    /\ IF hooked' THEN tickle ELSE UNCHANGED tickleEdge
    /\ UNCHANGED <<mask, ectx, regs, pending, ready, queue, pc, deadline, got,
                   stopFlag, fired, deleted>>

CancelTimer(t) == TM!cancel(t) /\ UNCHANGED ioVars

Clock == TM!Tick /\ UNCHANGED ioVars

-----------------------------------------------------------------------------
(* Worker threads: Scheduler::run and IOManager::idle                       *)

\* run()'s scan may take a task: its affinity is -1 or this thread.
Eligible(t, e) == e.thread \in {AnyThread, t}

\* Scheduler::run: the scan under m_mutex takes the first eligible task;
\* tickle_me is set by a task skipped for its affinity, or by tasks left
\* behind the one taken, and then tickle() is called.  The task runs to
\* completion.
RunTask(t) ==
    LET i == SelectInSeq(queue, LAMBDA e : Eligible(t, e))
        tickleMe == \/ \E j \in 1..(i - 1) : ~Eligible(t, queue[j])
                    \/ i < Len(queue)
    IN  /\ pc[t] = "sched"
        /\ i # 0
        /\ queue' = RemoveAt(queue, i)
        /\ IF tickleMe THEN tickle ELSE UNCHANGED tickleEdge
        /\ UNCHANGED <<mask, ectx, regs, pending, ready, pc, deadline, got,
                       stopFlag, fired, deleted>>
        /\ UNCHANGED tmVars

\* stopping() of IOManager: Scheduler::stopping() (m_stopping, no task,
\* no active thread), no pending event and no timer.
IOStopping == stopFlag /\ queue = <<>> /\ pending = 0 /\ timers = {}

\* Fault: without timers epoll_wait waits forever even where the timeout
\* is meant to be capped.
WaitForUncapped(to) ==
    IF to = NoTimer THEN Inf
    ELSE IF to < MaxTimeout THEN now + to ELSE now + MaxTimeout

\* epoll_wait's timeout from getNextTimer(): capped at MaxTimeout; without
\* timers MaxTimeout or no timeout at all (CapTimeout).
WaitFor(to) ==
    IF to = NoTimer THEN (IF CapTimeout THEN now + MaxTimeout ELSE Inf)
    ELSE IF to < MaxTimeout THEN now + to ELSE now + MaxTimeout

\* Fault: a scan that skipped tasks pinned elsewhere without tickling.
IdleNoSkipTickle(t) ==
    /\ pc[t] = "sched"
    /\ SelectInSeq(queue, LAMBDA e : Eligible(t, e)) = 0
    /\ UNCHANGED tickleEdge
    /\ TM!getNextTimer
    /\ IF IOStopping
         THEN pc' = [pc EXCEPT ![t] = "exit"] /\ UNCHANGED deadline
         ELSE /\ pc' = [pc EXCEPT ![t] = "wait"]
              /\ deadline' = [deadline EXCEPT ![t] = WaitFor(TM!NextTimeout)]
    /\ UNCHANGED <<mask, ectx, regs, pending, ready, queue, got,
                   stopFlag, fired, deleted>>

\* With no eligible task, run() tickles if it skipped tasks pinned to
\* other threads, then resumes the idle fiber, whose loop starts with
\* stopping(timeout): getNextTimer(), then either the idle fiber ends
\* (and the worker leaves run()) or it enters epoll_wait.
Idle(t) ==
    /\ pc[t] = "sched"
    /\ SelectInSeq(queue, LAMBDA e : Eligible(t, e)) = 0
    /\ IF queue # <<>> THEN tickle ELSE UNCHANGED tickleEdge
    /\ TM!getNextTimer
    /\ IF IOStopping
         THEN pc' = [pc EXCEPT ![t] = "exit"] /\ UNCHANGED deadline
         ELSE /\ pc' = [pc EXCEPT ![t] = "wait"]
              /\ deadline' = [deadline EXCEPT ![t] = WaitFor(TM!NextTimeout)]
    /\ UNCHANGED <<mask, ectx, regs, pending, ready, queue, got,
                   stopFlag, fired, deleted>>

\* TimedOut: the deadline passed (or the clock reached its bound).
TimedOut(t) == deadline[t] # Inf /\ (deadline[t] <= now \/ now = MaxTime)

\* epoll_wait returns with every pending report: the fd events go to this
\* thread, and the tickle pipe is drained.
Wake(t) ==
    /\ pc[t] = "wait"
    /\ tickleEdge \/ (\E fd \in Fds : ready[fd] # {}) \/ TimedOut(t)
    /\ got' = [got EXCEPT ![t] = ready]
    /\ ready' = [fd \in Fds |-> {}]
    /\ tickleEdge' = FALSE
    /\ pc' = [pc EXCEPT ![t] = "timers"]
    /\ UNCHANGED <<mask, ectx, regs, pending, queue, deadline, stopFlag, fired,
                   deleted>>
    /\ UNCHANGED tmVars

\* listExpiredCb(cbs) and schedule(cbs) of the expired callbacks.
Expire(t) ==
    /\ pc[t] = "timers"
    /\ pc' = [pc EXCEPT ![t] = "events"]
    /\ IF timers = {}
         THEN UNCHANGED <<queue, tickleEdge>> /\ UNCHANGED tmVars
         ELSE /\ TM!listExpiredCb
              /\ ScheduleAll(SetToSeq({[kind |-> "timer", t |-> x, thread |-> AnyThread]
                                        : x \in cbs'}))
    /\ UNCHANGED <<mask, ectx, regs, pending, ready, deadline, got, stopFlag,
                   fired, deleted>>

\* Fault: the events epoll reported are fired without checking that they
\* are still registered.
ProcessFdStale(t, fd) ==
    /\ pc[t] = "events"
    /\ got[t][fd] # {}
    /\ got' = [got EXCEPT ![t][fd] = {}]
    /\ Trigger(fd, got[t][fd])
    /\ UNCHANGED <<regs, pc, deadline, stopFlag, deleted>> /\ UNCHANGED tmVars

\* Fault: of the reported events only READ fires when both are reported.
ProcessFdFirstEventOnly(t, fd) ==
    /\ pc[t] = "events"
    /\ got[t][fd] # {}
    /\ got' = [got EXCEPT ![t][fd] = {}]
    /\ LET real == got[t][fd] \cap mask[fd]
           first == IF "READ" \in real THEN {"READ"} ELSE real
       IN IF real = {}
            THEN UNCHANGED <<mask, ectx, pending, ready, fired, queue, tickleEdge>>
            ELSE Trigger(fd, first)
    /\ UNCHANGED <<regs, pc, deadline, stopFlag, deleted>> /\ UNCHANGED tmVars

\* One reported fd, under its FdContext::mutex: only the reported events
\* still in FdContext::events fire; if none is, the report is skipped.
ProcessFd(t, fd) ==
    /\ pc[t] = "events"
    /\ got[t][fd] # {}
    /\ got' = [got EXCEPT ![t][fd] = {}]
    /\ LET real == got[t][fd] \cap mask[fd] IN
       IF real = {}
         THEN UNCHANGED <<mask, ectx, pending, ready, fired, queue, tickleEdge>>
         ELSE Trigger(fd, real)
    /\ UNCHANGED <<regs, pc, deadline, stopFlag, deleted>> /\ UNCHANGED tmVars

\* After the reports, the idle fiber yields back to run().
YieldIdle(t) ==
    /\ pc[t] = "events"
    /\ \A fd \in Fds : got[t][fd] = {}
    /\ pc' = [pc EXCEPT ![t] = "sched"]
    /\ UNCHANGED <<mask, ectx, regs, pending, ready, tickleEdge, queue, deadline,
                   got, stopFlag, fired, deleted>>
    /\ UNCHANGED tmVars

\* stop(): m_stopping, then one tickle() per thread; the writes coalesce
\* into one report while nobody collected it.
Stop ==
    /\ ~stopFlag
    /\ stopFlag' = TRUE
    /\ tickle
    /\ UNCHANGED <<mask, ectx, regs, pending, ready, queue, pc, deadline, got,
                   fired, deleted>>
    /\ UNCHANGED tmVars

-----------------------------------------------------------------------------

Worker(t) ==
    \/ RunTask(t) \/ Idle(t) \/ Wake(t) \/ Expire(t) \/ YieldIdle(t)
    \/ \E fd \in Fds : ProcessFd(t, fd)

\* The application's calls, in any order, except that it schedules its
\* pinned tasks before it creates its first timer.
App ==
    \/ \E fd \in Fds, e \in Events :
          addEvent(fd, e) \/ delEvent(fd, e) \/ cancelEvent(fd, e) \/ Ready(fd, e)
    \/ \E fd \in Fds : cancelAll(fd)
    \/ \E t \in Timers, ms \in Periods, rec \in BOOLEAN : AddTimer(t, ms, rec)
    \/ \E t \in Timers, ms \in Periods, fromNow \in BOOLEAN : ResetTimer(t, ms, fromNow)
    \/ \E t \in Timers : CancelTimer(t)
    \/ made = {} /\ \E aff \in Threads : ScheduleUser(aff)
    \/ Stop

\* Every worker has exited and stop() can join them.
Terminated == \A t \in Threads : pc[t] = "exit"

Next ==
    \/ \E t \in Threads : Worker(t)
    \/ App
    \/ Clock
    \/ Terminated /\ UNCHANGED vars

\* Workers are OS threads; time passes.  The application and the peers
\* are not obliged to do anything.
Spec == Init /\ [][Next]_vars /\ \A t \in Threads : WF_vars(Worker(t)) /\ WF_vars(Clock)

-----------------------------------------------------------------------------
(* Properties                                                              *)

\* spec.md 4.4 and 5: a registered handler runs at most once, and once it
\* is no longer registered it has run exactly once, unless delEvent
\* dropped it.  This covers an epoll report collected by one worker while
\* the application cancels or deletes the event, or re-registers it, and
\* two workers holding reports of the same fd.
EventsFireOnce ==
    \A h \in Handler :
        /\ fired[h] <= 1
        /\ h[3] <= regs[h[1]][h[2]] /\ ectx[h[1]][h[2]] # h[3] /\ h \notin deleted
             => fired[h] = 1

\* m_pendingEventCount is the number of registered events, whatever the
\* order of registrations, cancellations and epoll reports processed by
\* the workers; IOManager::stopping() trusts it to mean "no future event".
PendingCounted ==
    pending = Cardinality({fe \in Fds \X Events : fe[2] \in mask[fe[1]]})

\* A queued task is never stranded: some worker is outside epoll_wait (it
\* scans the queue before it waits again), or a tickle report is pending.
\* schedule() tickles only when the queue was empty, so this rests on the
\* worker that took the earlier task coming back to the queue.
NoStrandedTask ==
    queue # <<>> =>
        \/ tickleEdge
        \/ \E t \in Threads : pc[t] \in {"sched", "timers", "events"}

\* No worker oversleeps the earliest timer: when timers exist, some worker
\* is outside epoll_wait, a tickle report is pending, or a waiting worker
\* times out by the earliest deadline (by now, when that deadline already
\* passed).  m_tickled suppresses the tickle of later front insertions
\* until getNextTimer() clears it.
NoOversleep ==
    timers # {} =>
        LET due == next[TM!Begin(timers, next)]
            wakeBy == IF due < now THEN now ELSE due
        IN  \/ tickleEdge
            \/ \E t \in Threads : pc[t] \in {"sched", "timers", "events"}
            \/ \E t \in Threads : pc[t] = "wait" /\ deadline[t] # Inf
                                  /\ deadline[t] <= wakeBy

\* After stop(), once no event is registered and no timer has a callback,
\* every worker leaves run(): the pending count reaches zero with the
\* last event, and each worker blocked in epoll_wait wakes up.
StopCompletes ==
    (stopFlag /\ \A fd \in Fds : mask[fd] = {}) /\ TM!Live = {} ~> Terminated

\* spec.md 8: a handler whose event epoll reports is eventually scheduled
\* (or dropped by delEvent), with no further report: under edge-triggered
\* epoll a report the idle loop loses is never repeated.
EventsDelivered ==
    \A h \in Handler :
        h[2] \in ready[h[1]] /\ ectx[h[1]][h[2]] = h[3] ~> fired[h] = 1 \/ h \in deleted

====

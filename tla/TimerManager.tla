---------------------------- MODULE TimerManager ----------------------------
(***************************************************************************)
(* TimerManager and Timer of src/server/timer.h.  The repository holds   *)
(* only the header: the state below is the header's members, and the      *)
(* operations follow the contract of spec.md 4.3.                          *)
(*                                                                         *)
(* m_timers is a std::set ordered by Timer::Comparator: an insert of a    *)
(* timer equivalent to one already present (neither sorts before the      *)
(* other) does not insert, and find/erase act on the equivalent element.  *)
(* Every operation holds m_mutex for its whole body, so each is atomic;   *)
(* the clock (GetElapsedMS, CLOCK_MONOTONIC_RAW) is an environment        *)
(* variable that only moves forward.                                       *)
(***************************************************************************)
EXTENDS Naturals, FiniteSets

CONSTANTS
    Timers,        \* timer objects that may be created
    Addr,          \* Addr[t]: the address of t, the Comparator's tie-break
    Periods,       \* values of m_ms used by addTimer and reset
    MaxTime,       \* bound on the clock
    Hour,          \* the rollback threshold of detectClockRollover
    NoTimer        \* getNextTimer()'s ~0ull: no timer

ASSUME /\ Addr \in [Timers -> Nat]
       /\ \A t, u \in Timers : t # u => Addr[t] # Addr[u]
       /\ Periods \subseteq Nat \ {0}
       /\ MaxTime \in Nat /\ Hour \in Nat
       /\ NoTimer \notin Nat

VARIABLES
    made,        \* timers created by addTimer
    next,        \* Timer::m_next
    period,      \* Timer::m_ms
    recurring,   \* Timer::m_recurring
    hasCb,       \* Timer::m_cb is set
    timers,      \* TimerManager::m_timers
    tickled,     \* TimerManager::m_tickled
    prevTime,    \* TimerManager::m_previouseTime
    now,         \* the clock
    cbs,         \* the callbacks the last listExpiredCb handed out
    hooked       \* the last step called onTimerInsertedAtFront()

vars == <<made, next, period, recurring, hasCb, timers, tickled, prevTime,
          now, cbs, hooked>>

TypeOK ==
    /\ made \subseteq Timers /\ timers \subseteq made /\ cbs \subseteq Timers
    /\ next \in [Timers -> Nat] /\ period \in [Timers -> Nat]
    /\ recurring \in [Timers -> BOOLEAN] /\ hasCb \in [Timers -> BOOLEAN]
    /\ tickled \in BOOLEAN /\ hooked \in BOOLEAN
    /\ prevTime \in 0..MaxTime /\ now \in 0..MaxTime

\* TimerManager(): m_previouseTime = GetElapsedMS(), no timers.
Init ==
    /\ made = {} /\ timers = {} /\ cbs = {}
    /\ next = [t \in Timers |-> 0] /\ period = [t \in Timers |-> 0]
    /\ recurring = [t \in Timers |-> FALSE] /\ hasCb = [t \in Timers |-> FALSE]
    /\ tickled = FALSE /\ hooked = FALSE
    /\ now \in 0..MaxTime /\ prevTime = now

-----------------------------------------------------------------------------
(* Timer::Comparator and the std::set operations over it                  *)

\* Fault: a Comparator on m_next alone.
ComparatorNextOnly(nx, l, r) == nx[l] < nx[r]

\* Comparator: by m_next, ties broken by address.
Comparator(nx, l, r) ==
    \/ nx[l] < nx[r]
    \/ nx[l] = nx[r] /\ Addr[l] < Addr[r]

Equivalent(nx, l, r) == ~Comparator(nx, l, r) /\ ~Comparator(nx, r, l)

\* std::set::insert: no effect when an equivalent element is present.
SetInsert(s, nx, t) ==
    IF \E u \in s : Equivalent(nx, t, u) THEN s ELSE s \cup {t}

\* m_timers.erase(m_timers.find(t)).
SetErase(s, nx, t) == {u \in s : ~Equivalent(nx, t, u)}

\* *m_timers.begin(): the element no other one sorts before.
Begin(s, nx) == CHOOSE t \in s : \A u \in s : ~Comparator(nx, u, t)

-----------------------------------------------------------------------------
(* Operations                                                              *)

\* addTimer(val, lock): insert; at_front = inserted at begin() and not yet
\* m_tickled; then m_tickled = true and onTimerInsertedAtFront().
InsertTimer(base, t, nx) ==
    LET s == SetInsert(base, nx, t)
        atFront == t \in s /\ Begin(s, nx) = t /\ ~tickled
    IN /\ timers' = s
       /\ tickled' = (tickled \/ atFront)
       /\ hooked' = atFront

\* addTimer(ms, cb, recurring): a new Timer with m_next = now + ms.
addTimer(t, ms, rec) ==
    /\ t \notin made
    /\ made' = made \cup {t}
    /\ next' = [next EXCEPT ![t] = now + ms]
    /\ period' = [period EXCEPT ![t] = ms]
    /\ recurring' = [recurring EXCEPT ![t] = rec]
    /\ hasCb' = [hasCb EXCEPT ![t] = TRUE]
    /\ InsertTimer(timers, t, next')
   
    /\ UNCHANGED <<prevTime, now, cbs>>

\* Timer::cancel(): with a callback, clear it and erase the timer.
cancel(t) ==
    /\ t \in made /\ hasCb[t]
    /\ hasCb' = [hasCb EXCEPT ![t] = FALSE]
    /\ timers' = SetErase(timers, next, t)
    /\ hooked' = FALSE
    /\ UNCHANGED <<made, next, period, recurring, tickled, prevTime, now, cbs>>

\* Timer::refresh(): a timer with a callback that is in the set is erased,
\* gets m_next = now + m_ms and is inserted again.
refresh(t) ==
    /\ t \in made /\ hasCb[t]
    /\ \E u \in timers : Equivalent(next, t, u)
    /\ next' = [next EXCEPT ![t] = now + period[t]]
    /\ timers' = SetInsert(SetErase(timers, next, t), next', t)
    /\ hooked' = FALSE
    /\ UNCHANGED <<made, period, recurring, hasCb, tickled, prevTime, now, cbs>>

\* Timer::reset(ms, from_now): nothing to do for the same period from the
\* old anchor; otherwise a timer with a callback in the set is erased, its
\* period changed, its m_next anchored at now or at its old start, and it
\* is added back through addTimer(val, lock).
reset(t, ms, fromNow) ==
    /\ t \in made /\ hasCb[t]
    /\ ~(ms = period[t] /\ ~fromNow)
    /\ \E u \in timers : Equivalent(next, t, u)
    /\ LET start == IF fromNow THEN now ELSE next[t] - period[t] IN
       next' = [next EXCEPT ![t] = start + ms]
    /\ period' = [period EXCEPT ![t] = ms]
    /\ InsertTimer(SetErase(timers, next, t), t, next')
   
    /\ UNCHANGED <<made, recurring, hasCb, prevTime, now, cbs>>

\* The value getNextTimer() returns: ~0ull without timers, 0 when the
\* earliest is already due, else the milliseconds until it.
NextTimeout ==
    IF timers = {} THEN NoTimer
    ELSE LET n == next[Begin(timers, next)] IN IF now >= n THEN 0 ELSE n - now

\* Fault: getNextTimer() leaving m_tickled set.
getNextTimerKeepingTickled ==
    /\ hooked' = FALSE
    /\ UNCHANGED <<made, next, period, recurring, hasCb, timers, tickled,
                   prevTime, now, cbs>>

\* getNextTimer(): also consumes the front-insertion notification.
getNextTimer ==
    /\ tickled' = FALSE
    /\ hooked' = FALSE
    /\ UNCHANGED <<made, next, period, recurring, hasCb, timers, prevTime,
                   now, cbs>>

\* detectClockRollover(now): the clock went back by more than an hour,
\* which GetElapsedMS's monotonic clock never does.
Rollover == now < prevTime /\ now + Hour < prevTime

\* The timers listExpiredCb collects: every one due by now.
Due(t) == next[t] <= now

\* Re-inserting the recurring expired timers one by one, in their old
\* order, into the set that remains: one is dropped when an equivalent
\* element is already there or was inserted before it.
Reinsert(rest, again, nx) ==
    rest \cup {t \in again :
                /\ ~\E u \in rest : Equivalent(nx, t, u)
                /\ ~\E u \in again : Comparator(next, u, t) /\ Equivalent(nx, t, u)}

\* listExpiredCb(cbs): without timers nothing happens; otherwise the
\* rollover check updates m_previouseTime, and unless no timer is due (and
\* no rollover), every due timer (every timer on rollover) is taken out,
\* its callback handed out, and a recurring one re-added at now + m_ms
\* while a one-shot one loses its callback.
listExpiredCb ==
    /\ timers # {}
    /\ prevTime' = now
    /\ LET expired == IF Rollover THEN timers ELSE {t \in timers : Due(t)}
           again == {t \in expired : recurring[t]}
           nx == [t \in Timers |-> IF t \in again THEN now + period[t] ELSE next[t]]
       IN /\ cbs' = expired
          /\ next' = nx
          /\ hasCb' = [t \in Timers |-> hasCb[t] /\ (t \in expired => recurring[t])]
          /\ timers' = Reinsert(timers \ expired, again, nx)
    /\ hooked' = FALSE
    /\ UNCHANGED <<made, period, recurring, tickled, now>>

\* GetElapsedMS(): CLOCK_MONOTONIC_RAW in milliseconds, which only moves
\* forward; it advances by one millisecond.
Tick ==
    /\ now < MaxTime
    /\ now' = now + 1
    /\ hooked' = FALSE
    /\ UNCHANGED <<made, next, period, recurring, hasCb, timers, tickled,
                   prevTime, cbs>>

Next ==
    \/ \E t \in Timers, ms \in Periods, rec \in BOOLEAN : addTimer(t, ms, rec)
    \/ \E t \in Timers : cancel(t) \/ refresh(t)
    \/ \E t \in Timers, ms \in Periods, fromNow \in BOOLEAN : reset(t, ms, fromNow)
    \/ getNextTimer
    \/ listExpiredCb
    \/ Tick

Spec == Init /\ [][Next]_vars

-----------------------------------------------------------------------------
(* Properties                                                              *)

Live == {t \in made : hasCb[t]}

\* Every timer that still has its callback (added, not cancelled, not a
\* one-shot that already fired) is in m_timers, and no other timer is:
\* no insert into the ordered set, however the deadlines tie after
\* add, refresh, reset and the re-arming of recurring timers, loses a timer.
TimersLive == \A t \in made : t \in timers <=> hasCb[t]

====

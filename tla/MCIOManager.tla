---------------------------- MODULE MCIOManager ----------------------------
EXTENDS IOManager, TLC

CONSTANTS w1, w2, fd1, ta, tb

MCThreads == {w1, w2}
\* IOManager(1, ...): one thread runs the scheduling loop.
OneThread == {w1}
MCFds == {fd1}
MCTimers == {ta, tb}
MCAddr == (ta :> 1) @@ (tb :> 2)
NoTimers == {}
NoFds == {}
NoAddr == [x \in {} |-> 0]

\* Workers are interchangeable: sound for the invariants of a run.
ThreadSymmetry == Permutations(MCThreads)

\* The state as far as later steps and NoOversleep can tell: cbs and
\* hooked only describe the last step, m_previouseTime matters only to
\* the rollover check, which a monotonic clock never meets, and a
\* deadline only while its worker waits.
TimersView ==
    <<made, next, period, recurring, hasCb, timers, tickled, now, queue, pc,
      [t \in MCThreads |-> IF pc[t] = "wait" THEN deadline[t] ELSE Inf],
      tickleEdge, stopFlag>>
====

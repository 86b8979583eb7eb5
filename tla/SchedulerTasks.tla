--------------------------- MODULE SchedulerTasks ---------------------------
(***************************************************************************)
(* What the scheduler promises its users (spec.md 4.2 and 8): every work  *)
(* handed to schedule() runs, its segments one after the other and each   *)
(* exactly once; a work may schedule further work while it runs; stop()   *)
(* returns only once every scheduled work has finished, and after that    *)
(* nothing runs.  Threads, fibers and the queue are invisible here.       *)
(***************************************************************************)
EXTENDS Naturals

CONSTANTS Works, Segs, Child, Initial, NoWork

VARIABLES
    submitted,   \* works handed to schedule()
    progress,    \* segments of each work that have run
    stopReq,     \* stop() has been called
    stopped      \* stop() has returned

vars == <<submitted, progress, stopReq, stopped>>

Init ==
    /\ submitted = {}
    /\ progress = [w \in Works |-> 0]
    /\ stopReq = FALSE
    /\ stopped = FALSE

\* The application schedules one of its initial works before stop().
Submit(w) ==
    /\ ~stopReq
    /\ w \in Initial \ submitted
    /\ submitted' = submitted \cup {w}
    /\ UNCHANGED <<progress, stopReq, stopped>>

\* The next segment of a scheduled work runs; the last one may schedule
\* the work's child.
Run(w) ==
    /\ ~stopped
    /\ w \in submitted
    /\ progress[w] < Segs[w]
    /\ progress' = [progress EXCEPT ![w] = @ + 1]
    /\ submitted' = IF progress'[w] = Segs[w] /\ Child[w] # NoWork
                      THEN submitted \cup {Child[w]}
                      ELSE submitted
    /\ UNCHANGED <<stopReq, stopped>>

RequestStop ==
    /\ ~stopReq
    /\ Initial \subseteq submitted
    /\ stopReq' = TRUE
    /\ UNCHANGED <<submitted, progress, stopped>>

Finished(w) == progress[w] = Segs[w]

Return ==
    /\ stopReq /\ ~stopped
    /\ \A w \in submitted : Finished(w)
    /\ stopped' = TRUE
    /\ UNCHANGED <<submitted, progress, stopReq>>

Next ==
    \/ \E w \in Works : Submit(w) \/ Run(w)
    \/ RequestStop
    \/ Return

\* Every scheduled work eventually finishes and stop() eventually returns.
Spec ==
    /\ Init /\ [][Next]_vars
    /\ \A w \in Works : WF_vars(Run(w))
    /\ WF_vars(Return)

=============================================================================

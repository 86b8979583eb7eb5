---------------------------- MODULE MCScheduler ----------------------------
(* Instantiates Scheduler for TLC: three works, scheduled as a fiber task   *)
(* or as a callback task, with one of them scheduling the third.           *)
EXTENDS Scheduler

CONSTANTS wa, wb, wc

MCWorks == {wa, wb, wc}
\* wa: a fiber task that yields once and schedules wc when it finishes;
\* wb: a callback that yields once; wc: a callback that does not yield.
MCSegs == [w \in MCWorks |-> IF w = wc THEN 1 ELSE 2]
MCChild == [w \in MCWorks |-> IF w = wa THEN wc ELSE NoWork]
MCKind == [w \in MCWorks |-> IF w = wa THEN "fiber" ELSE "cb"]
MCInitial == {wa, wb}

=============================================================================

-------------------------- MODULE MCTimerManager --------------------------
(* Two timers at adjacent addresses, periods 1 and 2 so that deadlines    *)
(* tie after add, refresh and reset.                                      *)
EXTENDS TimerManager, TLC

CONSTANTS ta, tb

MCTimers == {ta, tb}
MCAddr == (ta :> 1) @@ (tb :> 2)
=============================================================================

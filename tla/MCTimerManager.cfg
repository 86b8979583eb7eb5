\* Two timers, clock 0..3.
CONSTANTS
    ta = ta
    tb = tb
    NoTimer = NoTimer
    Periods = {1, 2}
    MaxTime = 3
    Hour = 1
    Timers <- MCTimers
    Addr <- MCAddr
SPECIFICATION Spec
INVARIANT TimersLive

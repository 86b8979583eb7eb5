\* Two workers, two timers with periods 1 and 2, no fds; the clock runs to 2.
CONSTANTS
    w1 = w1  w2 = w2  fd1 = fd1  ta = ta  tb = tb
    Threads <- MCThreads
    Fds <- NoFds
    MaxRegs = 1
    MaxTimeout = 2
    CapTimeout = TRUE
    Inf = Inf
    Timers <- MCTimers
    Addr <- MCAddr
    Periods = {1, 2}
    MaxTime = 2
    Hour = 1
    NoTimer = NoTimer
    AnyThread = AnyThread
    MaxUser = 1
SPECIFICATION Spec
SYMMETRY ThreadSymmetry
VIEW TimersView
INVARIANT NoOversleep
INVARIANT NoStrandedTask

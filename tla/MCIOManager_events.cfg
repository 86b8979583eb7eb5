\* Two workers, one fd whose events are each registered up to twice, no timers; the clock stays at 0.
CONSTANTS
    w1 = w1  w2 = w2  fd1 = fd1  ta = ta  tb = tb
    Threads <- MCThreads
    Fds <- MCFds
    MaxRegs = 2
    MaxTimeout = 1
    CapTimeout = TRUE
    Inf = Inf
    Timers <- NoTimers
    Addr <- NoAddr
    Periods = {1}
    MaxTime = 0
    Hour = 1
    NoTimer = NoTimer
    AnyThread = AnyThread
    MaxUser = 0
SPECIFICATION Spec
INVARIANT EventsFireOnce
INVARIANT NoStrandedTask
INVARIANT PendingCounted
PROPERTY StopCompletes
PROPERTY EventsDelivered

\* One thread (IOManager(1, ...)); stop() when epoll_wait without timers has no timeout.
CONSTANTS
    w1 = w1  w2 = w2  fd1 = fd1  ta = ta  tb = tb
    Threads <- OneThread
    Fds <- MCFds
    MaxRegs = 1
    MaxTimeout = 1
    CapTimeout = FALSE
    Inf = Inf
    Timers <- NoTimers
    Addr <- NoAddr
    Periods = {1}
    MaxTime = 1
    Hour = 1
    NoTimer = NoTimer
    AnyThread = AnyThread
    MaxUser = 0
SPECIFICATION Spec
PROPERTY StopCompletes
CHECK_DEADLOCK FALSE

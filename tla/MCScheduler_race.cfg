\* Two worker threads, fibers reschedule themselves on any thread (the early wake-up race).
CONSTANTS
    Workers = {w1, w2}
    Caller = caller
    AnyThread = any
    Pinned = FALSE
    StartBeforeStop = TRUE
    NoWork = NoWork
    NoFiber = NoFiber
    NoTask = NoTask
    wa = wa
    wb = wb
    wc = wc
    Works <- MCWorks
    Segs <- MCSegs
    Child <- MCChild
    Kind <- MCKind
    Initial <- MCInitial
SPECIFICATION Spec
INVARIANT OneThreadPerFiber

\* Two worker threads, with and without use_caller; fibers reschedule themselves on their own thread.
CONSTANTS
    Workers = {w1, w2}
    Caller = caller
    AnyThread = any
    Pinned = TRUE
    StartBeforeStop = TRUE
    NoWork = NoWork
    NoFiber = NoFiber
    NoTask = NoTask
    wa = wa
    wb = wb
    wc = wc
    Works <- MCWorks
    Segs <- MCSegs
    Child <- MCChild
    Kind <- MCKind
    Initial <- MCInitial
SPECIFICATION Spec
INVARIANT TypeOK
INVARIANT NoFiberLeak
PROPERTY Refinement

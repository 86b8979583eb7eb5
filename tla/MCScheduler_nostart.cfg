\* The application calls stop() without start(); one worker.
CONSTANTS
    Workers = {w1}
    Caller = caller
    AnyThread = any
    Pinned = TRUE
    StartBeforeStop = FALSE
    NoWork = NoWork
    NoFiber = NoFiber
    NoTask = NoTask
    wa = wa
    wb = wb
    wc = wc
    Works <- MCWorks
    Segs <- MCSegs
    Child <- MCChild
    Kind <- MCKind
    Initial <- MCInitial
SPECIFICATION Spec
PROPERTY Refinement

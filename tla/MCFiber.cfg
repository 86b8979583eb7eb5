\* A worker thread on which a running task body resumes another scheduled fiber.
\* The bounds end every behaviour with all fibers terminated: the thread stops.
CONSTANTS
    Main = main
    Root = root
    f1 = f1
    f2 = f2
    Tasks <- MCTasks
    RootModes = {FALSE}
    NestedResume = TRUE
    MaxYields = 2
    MaxResets = 1
SPECIFICATION Spec
INVARIANT ContextsOwned
CHECK_DEADLOCK FALSE

\* The use_caller thread: does t_fiber name the running fiber after a task yields?
\* The bounds end every behaviour with all fibers terminated: the thread stops.
CONSTANTS
    Main = main
    Root = root
    f1 = f1
    f2 = f2
    Tasks <- MCTasks
    RootModes = {TRUE}
    NestedResume = FALSE
    MaxYields = 2
    MaxResets = 1
SPECIFICATION Spec
INVARIANT CurrentIsRunning
CHECK_DEADLOCK FALSE

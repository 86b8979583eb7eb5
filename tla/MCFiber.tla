------------------------------ MODULE MCFiber ------------------------------
(* Instantiates Fiber for TLC: two scheduled fibers on one thread.          *)
EXTENDS Fiber

CONSTANTS f1, f2

MCTasks == {f1, f2}

=============================================================================

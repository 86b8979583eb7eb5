------------------------------- MODULE Fiber -------------------------------
(***************************************************************************)
(* Context switching of src/server/fiber.cc on one OS thread.             *)
(*                                                                         *)
(* Each fiber object has a ucontext m_ctx; swapcontext(&a, &b) saves the  *)
(* running execution into a and continues the execution saved in b.  The  *)
(* model tracks, for every m_ctx, whose execution (which fiber's stack)   *)
(* it holds, and which fiber's stack actually runs, next to t_fiber, the  *)
(* pointer Fiber::GetThis() returns.                                       *)
(*                                                                         *)
(* The thread, chosen in Init among RootModes, is either a worker thread, *)
(* where Scheduler::run runs on the thread's original fiber Main           *)
(* (t_scheduler_fiber = Main), or the                                      *)
(* use_caller thread, where it runs on the root fiber Root, created with  *)
(* run_in_scheduler = false and resumed from Main by Scheduler::stop().    *)
(* Scheduler::run and Scheduler::stop resume fibers the way the          *)
(* repository does: a fiber that takes part in scheduling from the        *)
(* scheduling fiber, Root from Main.  With NestedResume, a task body also *)
(* resumes a READY fiber it holds, as the public Fiber::resume allows.    *)
(***************************************************************************)
EXTENDS Naturals

CONSTANTS
    Main,         \* the thread's original fiber (t_thread_fiber)
    Root,         \* Scheduler::m_rootFiber
    Tasks,        \* fibers created with run_in_scheduler = true
    RootModes,    \* the thread kinds to start in: TRUE is the use_caller thread
    NestedResume, \* a running fiber body may call resume() itself
    MaxYields,    \* bound on the yields of one run of a fiber body
    MaxResets     \* bound on Fiber::reset calls per fiber

ASSUME RootModes \subseteq BOOLEAN /\ NestedResume \in BOOLEAN /\ MaxYields \in Nat /\ MaxResets \in Nat

Fibers == {Main, Root} \cup Tasks
\* Fiber::m_runInScheduler
RunInScheduler(f) == f \in Tasks

VARIABLES
    rootMode,  \* this is the use_caller thread (Root exists)
    fstate,    \* Fiber::m_state
    saved,     \* saved[f]: whose execution f's m_ctx holds
    exec,      \* the fiber whose stack the thread executes
    cur,       \* t_fiber
    yields,    \* yields of the current run of each fiber body
    resets     \* Fiber::reset calls so far

vars == <<rootMode, fstate, saved, exec, cur, yields, resets>>

\* Scheduler::GetMainFiber(): t_scheduler_fiber of this thread.
SchedFiber == IF rootMode THEN Root ELSE Main
\* The fibers of this thread: m_rootFiber only on the use_caller thread.
Live == IF rootMode THEN Fibers ELSE Fibers \ {Root}

TypeOK ==
    /\ rootMode \in BOOLEAN
    /\ fstate \in [Fibers -> {"READY", "RUNNING", "TERM"}]
    /\ saved \in [Fibers -> Fibers]
    /\ exec \in Fibers /\ cur \in Fibers
    /\ yields \in [Fibers -> 0..MaxYields]
    /\ resets \in [Fibers -> 0..MaxResets]

\* GetThis() made Main (Fiber(): RUNNING, t_fiber = this); every other
\* fiber was made by Fiber(cb, ...): READY, m_ctx entering MainFunc.
Init ==
    /\ rootMode \in RootModes
    /\ fstate = [f \in Fibers |-> IF f = Main THEN "RUNNING" ELSE "READY"]
    /\ saved = [f \in Fibers |-> f]
    /\ exec = Main
    /\ cur = Main
    /\ yields = [f \in Fibers |-> 0]
    /\ resets = [f \in Fibers |-> 0]

\* The counterpart context resume() and yield() swap with.
Counterpart(f) == IF RunInScheduler(f) THEN SchedFiber ELSE Main

\* The fiber that resumes f in this repository: Scheduler::run resumes
\* scheduled fibers, Scheduler::stop resumes m_rootFiber from Main.
Resumer(f) == IF RunInScheduler(f) THEN SchedFiber ELSE Main

\* The fibers that may call f->resume(): the repository's call sites, and
\* with NestedResume also any other running fiber body.
MayResume(f) == IF NestedResume THEN Live \ {f} ELSE {Resumer(f)}

-----------------------------------------------------------------------------

\* Fiber::resume(): asserts READY, SetThis(this), RUNNING, then
\* swapcontext(&Counterpart->m_ctx, &m_ctx).
Resume(f) ==
    /\ f \in Live \ {Main}
    /\ exec \in MayResume(f)
    /\ fstate[f] = "READY"
    /\ fstate' = [fstate EXCEPT ![f] = "RUNNING"]
    /\ cur' = f
    /\ saved' = [saved EXCEPT ![Counterpart(f)] = exec]
    /\ exec' = saved[f]
    /\ UNCHANGED <<rootMode, yields, resets>>

\* Fiber::yield(): SetThis(t_thread_fiber), READY unless TERM, then
\* swapcontext(&m_ctx, &Counterpart->m_ctx).
SwitchOut(f, st) ==
    /\ fstate' = [fstate EXCEPT ![f] = st]
    /\ cur' = Main
    /\ saved' = [saved EXCEPT ![f] = exec]
    /\ exec' = saved[Counterpart(f)]

\* The body of the running fiber yields.
Yield ==
    /\ exec # Main
    /\ fstate[exec] = "RUNNING"
    /\ yields[exec] < MaxYields
    /\ yields' = [yields EXCEPT ![exec] = @ + 1]
    /\ SwitchOut(exec, "READY")
    /\ UNCHANGED <<rootMode, resets>>

\* Fiber::MainFunc(): the body returned; m_cb = nullptr, TERM, and the final
\* yield through the raw pointer.
Finish ==
    /\ exec # Main
    /\ fstate[exec] = "RUNNING"
    /\ SwitchOut(exec, "TERM")
    /\ UNCHANGED <<rootMode, yields, resets>>

\* Fiber::reset(cb), called by run() on its cb_fiber: asserts a stack and
\* TERM, makecontext(MainFunc) over the same stack, READY.
Reset(f) ==
    /\ f \in Tasks
    /\ exec = SchedFiber
    /\ fstate[f] = "TERM"
    /\ resets[f] < MaxResets
    /\ fstate' = [fstate EXCEPT ![f] = "READY"]
    /\ saved' = [saved EXCEPT ![f] = f]
    /\ yields' = [yields EXCEPT ![f] = 0]
    /\ resets' = [resets EXCEPT ![f] = @ + 1]
    /\ UNCHANGED <<rootMode, exec, cur>>

Next ==
    \/ \E f \in Fibers : Resume(f) \/ Reset(f)
    \/ Yield
    \/ Finish

Spec == Init /\ [][Next]_vars

-----------------------------------------------------------------------------
(* Properties                                                              *)

\* Every m_ctx holds the execution of its own fiber, so resuming a fiber
\* continues that fiber and the scheduling fiber's loop is never lost.
\* resume() saves its caller into Counterpart(f)'s m_ctx whoever the caller
\* is (fiber.cc:137-146): a task body that resumes another scheduled fiber
\* overwrites the saved Scheduler::run of its thread.
ContextsOwned == \A f \in Fibers : saved[f] = f

\* t_fiber (Fiber::GetThis, GetFiberId) names the fiber whose stack runs.
CurrentIsRunning == cur = exec

=============================================================================

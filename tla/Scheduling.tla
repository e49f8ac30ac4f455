----------------------------- MODULE Scheduling -----------------------------
(* The specification of a runtime profile in the Dispatcher's terms.            *)
EXTENDS Dispatcher

CONSTANTS
    First,      \* the task dispatched first
    Staged      \* the tasks that wait to be launched

DispatcherInit == life = Published(Staged) /\ stopped = FALSE

KernelCalls ==
    \/ Start(First)
    \/ \E t \in Tasks : BeginTeardown(t) \/ CompleteTeardown(t) \/ TeardownStops(t)

Traps == \E t, other \in Tasks : Launch(t, other) \/ Switch(t, other) \/ Exit(t)

\* The kernel makes each call it owes; tasks trap or not as they like.
DispatcherSpec ==
    /\ DispatcherInit
    /\ [][KernelCalls \/ Traps]_dispatcher
    /\ WF_dispatcher(KernelCalls)
=============================================================================

----------------------------- MODULE Dispatcher -----------------------------
(* What the kernel relies on in any task runtime, without capabilities, messages,
   requests or records: which of the two tasks has the processor, and how an
   exited one is brought to its end. Every runtime profile implements it, as
   Scheduling states, and the module Kernel is built on it.                     *)
EXTENDS Integers

VARIABLES
    life,       \* Waiting is queued or blocked
    stopped     \* a call of the runtime returned an error

dispatcher == <<life, stopped>>

Tasks == {1, 2}

Published(staged) == [t \in Tasks |-> IF t \in staged THEN "Staged" ELSE "Waiting"]

Becomes(t, next) == [life EXCEPT ![t] = next]

\* The first dispatch_next, before any task has run.
Start(t) ==
    /\ ~stopped /\ \A u \in Tasks : life[u] \in {"Waiting", "Staged"}
    /\ life[t] = "Waiting"
    /\ life' = Becomes(t, "Running")
    /\ UNCHANGED stopped

\* A trap of the running task launches a staged one.
Launch(t, staged) ==
    /\ ~stopped /\ life[t] = "Running" /\ life[staged] = "Staged"
    /\ life' = Becomes(staged, "Waiting")
    /\ UNCHANGED stopped

\* handle_trap gives the processor to the other task; a trap that resumes its
\* caller changes nothing here.
Switch(t, next) ==
    /\ ~stopped /\ life[t] = "Running" /\ life[next] = "Waiting"
    /\ life' = [life EXCEPT ![t] = "Waiting", ![next] = "Running"]
    /\ UNCHANGED stopped

Exit(t) ==
    /\ ~stopped /\ life[t] = "Running"
    /\ life' = Becomes(t, "Exited")
    /\ UNCHANGED stopped

\* begin_teardown closes the task's capabilities.
BeginTeardown(t) ==
    /\ ~stopped /\ life[t] = "Exited"
    /\ life' = Becomes(t, "Closing")
    /\ UNCHANGED stopped

\* complete_teardown dispatches the task that is left, if one is.
CompleteTeardown(t) ==
    /\ ~stopped /\ life[t] = "Closing" /\ \A u \in Tasks : life[u] # "Staged"
    /\ life' = [u \in Tasks |-> CASE u = t -> "Dead"
                                  [] u # t /\ life[u] = "Waiting" -> "Running"
                                  [] OTHER -> life[u]]
    /\ UNCHANGED stopped

\* It fails when the task that is left was never launched.
TeardownStops(t) ==
    /\ ~stopped /\ life[t] = "Closing"
    /\ \E u \in Tasks : life[u] = "Staged"
    /\ stopped' = TRUE
    /\ UNCHANGED life
=============================================================================

------------------------ MODULE SupervisedScheduling ------------------------
(* The supervised and the journaled profile as dispatchers of the kernel.  *)
EXTENDS SupervisedRuntime

Dispatching ==
    INSTANCE Scheduling WITH First <- Supervisor, Staged <- {Workload},
                             life <- Lives, stopped <- failed

(* The profile schedules as the kernel relies on: only the supervisor runs *)
(* first, an exited task is torn down in two calls, the second hands the   *)
(* processor to the task that is left, blocked or not, and no call is left *)
(* owing. The one call that can return an error is the end of a supervisor *)
(* that never launched its workload.                                       *)
ImplementsDispatcher == Dispatching!DispatcherSpec
=============================================================================

----------------------- MODULE CooperativeScheduling -----------------------
(* The cooperative profile as a dispatcher of the kernel. *)
EXTENDS CooperativeRuntime

Dispatching ==
    INSTANCE Scheduling WITH First <- Receiver, Staged <- {}, life <- Lives, stopped <- failed

(* The profile schedules as the kernel relies on: the processor goes from  *)
(* one task to the other or to its own caller, an exited task is torn down *)
(* in two calls, the second of which hands the processor to the task that  *)
(* is left, blocked or not, and no call is left owing or returns an error: *)
(* a receiver blocked on a sender that exits gets the processor back.      *)
ImplementsDispatcher == Dispatching!DispatcherSpec
=============================================================================

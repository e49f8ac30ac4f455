---------------------------- MODULE TaskRuntime ----------------------------
(***************************************************************************)
(* The part of crates/task-runtime that both runtime profiles share: the   *)
(* two task slots, the bounded FIFO run queue, dispatch, the traps every   *)
(* profile accepts, and the two kernel calls that tear an exited task      *)
(* down.                                                                   *)
(*                                                                         *)
(* One action is one call of handle_trap, begin_teardown or                *)
(* complete_teardown.  The kernel runs them with interrupts disabled on    *)
(* one processor, so each is one step.  A call that returns Err restores   *)
(* the state it started from and the kernel stops: `failed' records that.  *)
(* The validate call that closes a handler is the predicate RuntimeValid   *)
(* (completed by each profile): it is an invariant, so the Err branch of   *)
(* that call is never the one taken.                                       *)
(***************************************************************************)
EXTENDS CapabilityTable, Sequences

Sender == 1     \* SENDER_TASK_ID; the supervisor in the supervised profile
Receiver == 2   \* RECEIVER_TASK_ID; the workload in the supervised profile
Tasks == {Sender, Receiver}
TaskCount == 2  \* TASK_COUNT, also the capacity of the run queue

TaskStates ==
    {"Staged", "Ready", "Running", "BlockedReceive", "BlockedApproval", "Exited", "Dead"}

Statuses ==
    {"Ok", "InvalidOperation", "SlotFull", "PeerExited", "InvalidHandle", "WrongObject",
     "RightsDenied", "InvalidRights", "HandleTableFull", "GenerationExhausted",
     "InvalidManifest", "InvalidRequest", "BrokerFull", "ApprovalMismatch",
     "ApprovalDenied", "ApprovalExpired", "EffectUnavailable", "BrokerUnavailable",
     "AlreadyLaunched", "JournalFull", "JournalUnavailable", "InvalidRecord"}

VARIABLES
    state,    \* task -> TaskState
    queue,    \* the run queue, oldest first
    caps,     \* task -> its capability table
    reply,    \* task -> the result registers it is resumed with
    spent,    \* task -> <<slot, generation>> pairs of removed entries (history)
    failed    \* a runtime call returned Err: the kernel has stopped

runtimeVars == <<state, queue, caps, reply, spent, failed>>

(* The saved registers hold trap inputs, or nothing: no result is due. *)
NoReply == [status |-> "None", out |-> <<>>]

Reply(status, value) == [status |-> status, out |-> <<value>>]

Replies == [status : Statuses, out : Seq(Nat)] \cup {NoReply}

(* The tasks RunQueue::contains finds. *)
Queued(q) == {q[i] : i \in DOMAIN q}

(* RunQueue::push succeeds. *)
CanPush(q, t) == t \notin Queued(q) /\ Len(q) < TaskCount

(* dispatch_next finds a ready task and no running one. *)
Dispatchable(st, q) ==
    /\ \A t \in Tasks : st[t] # "Running"
    /\ q # <<>>
    /\ st[Head(q)] = "Ready"

Dispatched(st, q) == [st EXCEPT ![Head(q)] = "Running"]

Runs(t) == ~failed /\ state[t] = "Running"

(* A runtime call returned Err: its state is restored, the kernel stops. *)
Fail ==
    /\ failed' = TRUE
    /\ UNCHANGED <<state, queue, caps, reply, spent>>

(* The trap only sets the caller's result registers and resumes it. *)
Resume(t, result) ==
    /\ reply' = [reply EXCEPT ![t] = result]
    /\ UNCHANGED <<state, queue, caps, spent, failed>>

Reject(t, status) == Resume(t, Reply(status, 0))

(* The trap leaves the processor to the task dispatch_next selects. *)
Switch(t, st, q, result) ==
    /\ state' = Dispatched(st, q)
    /\ queue' = Tail(q)
    /\ reply' = [reply EXCEPT ![t] = result]
    /\ UNCHANGED <<caps, spent, failed>>

(* The kernel's first dispatch, before any task has run. *)
FirstDispatch ==
    /\ ~failed
    /\ queue # <<>>
    /\ \A t \in Tasks : state[t] \notin {"Running", "Exited"}
    /\ IF Dispatchable(state, queue)
       THEN /\ state' = Dispatched(state, queue)
            /\ queue' = Tail(queue)
            /\ UNCHANGED <<caps, reply, spent, failed>>
       ELSE Fail

(* An operation number that does not parse, or a reserved argument set. *)
InvalidTrap(t) == Runs(t) /\ Reject(t, "InvalidOperation")

YieldTrap(t) ==
    LET st == [state EXCEPT ![t] = "Ready"]
        q  == Append(queue, t)
    IN  /\ Runs(t)
        /\ IF CanPush(queue, t) /\ Dispatchable(st, q)
           THEN Switch(t, st, q, Reply("Ok", 0))
           ELSE Fail

ExitTrap(t) ==
    /\ Runs(t)
    /\ state' = [state EXCEPT ![t] = "Exited"]
    /\ reply' = [reply EXCEPT ![t] = NoReply]
    /\ UNCHANGED <<queue, caps, spent, failed>>

DuplicateTrap(t, source, requested) ==
    LET status == DuplicateStatus(caps[t], source, requested)
    IN  /\ Runs(t)
        /\ \/ status # "Ok" /\ Reject(t, status)
           \/ /\ status = "Ok"
              /\ caps' = [caps EXCEPT ![t] = DuplicateEntry(@, source, requested)]
              /\ reply' = [reply EXCEPT ![t] = Reply("Ok", AllocatedHandle(caps[t]))]
              /\ UNCHANGED <<state, queue, spent, failed>>

CloseTrap(t, raw) ==
    /\ Runs(t)
    /\ \/ ~Selects(caps[t], raw) /\ Reject(t, "InvalidHandle")
       \/ /\ Selects(caps[t], raw)
          /\ caps' = [caps EXCEPT ![t] = CloseHandle(@, raw)]
          /\ spent' = [spent EXCEPT ![t] =
                         @ \cup {<<HandleSlot(raw), HandleGeneration(raw)>>}]
          /\ reply' = [reply EXCEPT ![t] = Reply("Ok", 0)]
          /\ UNCHANGED <<state, queue, failed>>

(* What begin_teardown does to the exited task's table in every profile. *)
CloseTable(t) ==
    /\ caps' = [caps EXCEPT ![t] = CloseAll(@)]
    /\ spent' = [spent EXCEPT ![t] =
                   @ \cup {<<i, caps[t].slots[i].generation>> :
                             i \in {j \in SlotIndex : caps[t].slots[j].entry # NoEntry}}]

Tearing(t, tableState) ==
    ~failed /\ state[t] = "Exited" /\ caps[t].state = tableState

(* Waking a task another call unblocks. *)
WakeState(t) == [state EXCEPT ![t] = "Ready"]

Reaped(t) == [state EXCEPT ![t] = "Dead"]

(* The last task is gone: complete_teardown returns no next task. *)
LastReaped(t) == queue = <<>> /\ \A u \in Tasks : Reaped(t)[u] = "Dead"

(* complete_teardown succeeds: another task runs next, or none is left. *)
CanReap(t) ==
    /\ NoEntries(caps[t])
    /\ LastReaped(t) \/ Dispatchable(Reaped(t), queue)

(* Fault: the task that is left is not dispatched. *)
ReapWithoutDispatch(t) ==
    /\ state' = Reaped(t)
    /\ caps' = [caps EXCEPT ![t] = DeadTable]
    /\ reply' = [reply EXCEPT ![t] = NoReply]
    /\ UNCHANGED <<queue, spent, failed>>

Reap(t) ==
    /\ state' = IF LastReaped(t) THEN Reaped(t) ELSE Dispatched(Reaped(t), queue)
    /\ queue' = IF LastReaped(t) THEN queue ELSE Tail(queue)
    /\ caps' = [caps EXCEPT ![t] = DeadTable]
    /\ reply' = [reply EXCEPT ![t] = NoReply]
    /\ UNCHANGED <<spent, failed>>

(* What Runtime::validate checks for every profile. *)
TableStateOf ==
    [Staged          |-> {"Building"},
     Ready           |-> {"Live"},
     Running         |-> {"Live"},
     BlockedReceive  |-> {"Live"},
     BlockedApproval |-> {"Live"},
     Exited          |-> {"Live", "Closing"},
     Dead            |-> {"Dead"}]

RuntimeValid ==
    /\ Len(queue) <= TaskCount
    /\ \A i, j \in DOMAIN queue : queue[i] = queue[j] => i = j
    /\ \A t, u \in Tasks : state[t] = "Running" /\ state[u] = "Running" => t = u
    /\ \A t \in Tasks :
          /\ TableValid(caps[t])
          /\ (state[t] = "Ready") <=> (t \in Queued(queue))
          /\ caps[t].state \in TableStateOf[state[t]]

(* What the kernel sees of the task states: see Dispatcher. *)
Lives ==
    [t \in Tasks |->
       CASE state[t] \in {"Staged", "Running", "Dead"}              -> state[t]
         [] state[t] = "Exited" /\ caps[t].state = "Closing"        -> "Closing"
         [] state[t] = "Exited" /\ caps[t].state # "Closing"        -> "Exited"
         [] OTHER                                                   -> "Waiting"]

AllDead == \A t \in Tasks : state[t] = "Dead"

(* The kernel halts after the last teardown, or on a failed runtime call. *)
Halted == AllDead \/ failed

RuntimeTypeOK ==
    /\ state \in [Tasks -> TaskStates]
    /\ queue \in Seq(Tasks)
    /\ caps \in [Tasks -> Tables]
    /\ reply \in [Tasks -> Replies]
    /\ spent \in [Tasks -> SUBSET (SlotIndex \X (1 .. GenerationMax))]
    /\ failed \in BOOLEAN
=============================================================================

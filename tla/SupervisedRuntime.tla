------------------------- MODULE SupervisedRuntime -------------------------
(***************************************************************************)
(* The supervised profile of crates/task-runtime: a supervisor launches a  *)
(* staged workload, the workload submits one request at a time to the      *)
(* approval broker and blocks, the supervisor decides it and may commit    *)
(* an approved one to the synthetic effect cell.                           *)
(*                                                                         *)
(* Each trap is split into the status the handler computes before it       *)
(* changes anything, and the change it makes when that status is Ok, so    *)
(* that JournaledRuntime can put the journal's part next to the latter.    *)
(***************************************************************************)
EXTENDS TaskRuntime

CONSTANTS
    Arguments,     \* the request arguments workloads submit
    SequenceMax,   \* the last request sequence (u64::MAX)
    EpochMax       \* the last decision epoch (u64::MAX)

ASSUME SupervisedAssumption ==
    /\ SlotCount >= 4
    /\ Arguments \subseteq Nat
    /\ SequenceMax \in Nat \ {0}
    /\ EpochMax \in Nat \ {0, 1, 2}

VARIABLES
    broker,     \* the approval broker and its one request
    effect,     \* the synthetic effect cell
    manifest    \* the launch manifest is published

brokerVars == <<broker, effect, manifest>>
supervisedVars == <<state, queue, caps, reply, spent, failed, broker, effect, manifest>>

Supervisor == Sender
Workload == Receiver

BrokerStates == {"Empty", "Pending", "Approved", "Closing", "Dead"}

Brokers ==
    [state : BrokerStates, present : BOOLEAN, sequence : 0 .. SequenceMax,
     argument : Arguments \cup {0}, nextSequence : 0 .. SequenceMax, exhausted : BOOLEAN,
     epoch : 0 .. EpochMax, approval : 0 .. EpochMax, expiry : 0 .. EpochMax,
     bound : SUBSET Tasks]

DeadBroker ==
    [state |-> "Dead", present |-> FALSE, sequence |-> 0, argument |-> 0,
     nextSequence |-> 0, exhausted |-> FALSE, epoch |-> 0, approval |-> 0, expiry |-> 0,
     bound |-> {}]

EmptyBroker ==
    [DeadBroker EXCEPT !.state = "Empty", !.nextSequence = 1, !.epoch = 1, !.bound = Tasks]

Effects == [live : BOOLEAN, occupied : BOOLEAN, value : Arguments \cup {0}]

NoEffect == [live |-> FALSE, occupied |-> FALSE, value |-> 0]

(* publish_supervisor: the supervisor's three handles, the staged workload. *)
SupervisorTable ==
    Install(Install(Install(BuildingTable, "TaskControl", {"Start"}),
                    "Broker", {"Decide"}), "Effect", {"Commit"})

InitWith(table) ==
    /\ state = [t \in Tasks |-> IF t = Supervisor THEN "Ready" ELSE "Staged"]
    /\ queue = <<Supervisor>>
    /\ caps = [t \in Tasks |-> IF t = Supervisor THEN Publish(table) ELSE BuildingTable]
    /\ reply = [t \in Tasks |-> NoReply]
    /\ spent = [t \in Tasks |-> {}]
    /\ failed = FALSE
    /\ broker = EmptyBroker
    /\ effect = [NoEffect EXCEPT !.live = TRUE]
    /\ manifest = FALSE

FailSupervised == Fail /\ UNCHANGED brokerVars

RejectSupervised(t, status) == Reject(t, status) /\ UNCHANGED brokerVars

ResolveObject(t, raw, type, right, live) ==
    LET resolved == ResolveTyped(caps[t], raw, type, right)
    IN  IF resolved = "Ok" /\ ~live THEN "InvalidHandle" ELSE resolved

(* LaunchManifestV1::validate on the one registered manifest. *)
ManifestAccepted == broker.state # "Dead" /\ FreeSlots(caps[Workload]) # {}

StartStatus(t, raw, registered) ==
    LET resolved == ResolveObject(t, raw, "TaskControl", "Start", TRUE)
    IN  CASE resolved # "Ok" -> resolved
          [] resolved = "Ok" /\ ~registered -> "InvalidManifest"
          [] resolved = "Ok" /\ registered /\ state[Workload] # "Staged" -> "AlreadyLaunched"
          [] OTHER -> IF ManifestAccepted THEN "Ok" ELSE "InvalidManifest"

Launch(t) ==
    /\ caps' = [caps EXCEPT ![Workload] = Publish(Install(@, "Broker", {"Submit"}))]
    /\ manifest' = TRUE
    /\ state' = WakeState(Workload)
    /\ queue' = Append(queue, Workload)
    /\ reply' = [reply EXCEPT ![t] = Reply("Ok", 0)]
    /\ UNCHANGED <<spent, failed, broker, effect>>

StartTrap(t, raw, registered) ==
    LET status == StartStatus(t, raw, registered)
    IN  /\ Runs(t)
        /\ \/ status # "Ok" /\ RejectSupervised(t, status)
           \/ /\ status = "Ok"
              /\ IF CanPush(queue, Workload) THEN Launch(t) ELSE FailSupervised

(* Fault: a submission is accepted in the last epoch. *)
SubmitStatusIgnoresEpoch(t, raw, kindKnown) ==
    LET resolved == ResolveObject(t, raw, "Broker", "Submit", broker.state # "Dead")
    IN  CASE resolved # "Ok" -> resolved
          [] resolved = "Ok" /\ (broker.state \in {"Closing", "Dead"} \/ broker.exhausted)
             -> "BrokerUnavailable"
          [] OTHER ->
             IF broker.state \in {"Pending", "Approved"} THEN "BrokerFull"
             ELSE IF kindKnown /\ t = Workload /\ manifest THEN "Ok"
             ELSE "InvalidRequest"

SubmitStatus(t, raw, kindKnown) ==
    LET resolved == ResolveObject(t, raw, "Broker", "Submit", broker.state # "Dead")
    IN  CASE resolved # "Ok" -> resolved
          [] resolved = "Ok"
             /\ \/ broker.state \in {"Closing", "Dead"}
                \/ broker.exhausted
                \/ broker.epoch = EpochMax               -> "BrokerUnavailable"
          [] OTHER ->
             IF broker.state \in {"Pending", "Approved"} THEN "BrokerFull"
             ELSE IF kindKnown /\ t = Workload /\ manifest THEN "Ok"
             ELSE "InvalidRequest"

BlockForApproval(t) == [state EXCEPT ![t] = "BlockedApproval"]

Submit(t, argument) ==
    /\ broker' = [broker EXCEPT !.state = "Pending", !.present = TRUE,
                     !.sequence = broker.nextSequence, !.argument = argument,
                     !.epoch = @ + 1,
                     !.exhausted = broker.nextSequence = SequenceMax,
                     !.nextSequence = IF @ = SequenceMax THEN @ ELSE @ + 1]
    /\ Switch(t, BlockForApproval(t), queue, NoReply)
    /\ UNCHANGED <<effect, manifest>>

SubmitTrap(t, raw, kindKnown, argument) ==
    LET status == SubmitStatus(t, raw, kindKnown)
    IN  /\ Runs(t)
        /\ \/ status # "Ok" /\ RejectSupervised(t, status)
           \/ /\ status = "Ok"
              /\ IF Dispatchable(BlockForApproval(t), queue)
                 THEN Submit(t, argument)
                 ELSE FailSupervised

InspectStatus(t, raw) ==
    LET resolved == ResolveObject(t, raw, "Broker", "Decide", broker.state # "Dead")
    IN  CASE resolved # "Ok" -> resolved
          [] resolved = "Ok" /\ broker.state \in {"Closing", "Dead"} -> "BrokerUnavailable"
          [] OTHER -> IF broker.state = "Pending" /\ broker.present THEN "Ok" ELSE "InvalidRequest"

(* The request: its sequence, its kind (always the one kind), its argument. *)
InspectTrap(t, raw) ==
    LET status == InspectStatus(t, raw)
    IN  /\ Runs(t)
        /\ \/ status # "Ok" /\ Reject(t, status)
           \/ /\ status = "Ok"
              /\ Resume(t, [status |-> "Ok", out |-> <<broker.sequence, 1, broker.argument>>])
        /\ UNCHANGED brokerVars

Decisions == {"Deny", "Approve", "Expire", "Unknown"}

(* Fault: an approved request may be approved again. *)
DecideStatusReapproves(t, raw, sequence, decision) ==
    LET resolved == ResolveObject(t, raw, "Broker", "Decide", broker.state # "Dead")
    IN  CASE resolved # "Ok" -> resolved
          [] resolved = "Ok" /\ broker.state \in {"Closing", "Dead"} -> "BrokerUnavailable"
          [] OTHER ->
             IF ~broker.present \/ broker.sequence # sequence THEN "ApprovalMismatch"
             ELSE IF \/ decision = "Deny" /\ broker.state = "Pending"
                     \/ /\ decision \in {"Approve", "Expire"}
                        /\ broker.state \in {"Pending", "Approved"}
             THEN "Ok"
             ELSE "InvalidRequest"

(* Fault: the sequence is not compared. *)
DecideStatusAnySequence(t, raw, sequence, decision) ==
    LET resolved == ResolveObject(t, raw, "Broker", "Decide", broker.state # "Dead")
    IN  CASE resolved # "Ok" -> resolved
          [] resolved = "Ok" /\ broker.state \in {"Closing", "Dead"} -> "BrokerUnavailable"
          [] OTHER ->
             IF ~broker.present THEN "ApprovalMismatch"
             ELSE IF \/ decision \in {"Approve", "Deny"} /\ broker.state = "Pending"
                     \/ decision = "Expire" /\ broker.state \in {"Pending", "Approved"}
             THEN "Ok"
             ELSE "InvalidRequest"

DecideStatus(t, raw, sequence, decision) ==
    LET resolved == ResolveObject(t, raw, "Broker", "Decide", broker.state # "Dead")
    IN  CASE resolved # "Ok" -> resolved
          [] resolved = "Ok" /\ broker.state \in {"Closing", "Dead"} -> "BrokerUnavailable"
          [] OTHER ->
             IF ~broker.present \/ broker.sequence # sequence THEN "ApprovalMismatch"
             ELSE IF \/ decision \in {"Approve", "Deny"} /\ broker.state = "Pending"
                     \/ decision = "Expire" /\ broker.state \in {"Pending", "Approved"}
             THEN "Ok"
             ELSE "InvalidRequest"

(* Approving needs one more epoch after the decision's: the expiry. *)
EpochExhausted(decision) ==
    \/ broker.epoch = EpochMax
    \/ decision = "Approve" /\ broker.epoch + 1 = EpochMax

(* Fault: the approval of an ended request survives it. *)
ClearedKeepsApproval(b) == [b EXCEPT !.present = FALSE, !.sequence = 0, !.argument = 0]

Cleared(b) ==
    [b EXCEPT !.present = FALSE, !.sequence = 0, !.argument = 0, !.approval = 0, !.expiry = 0]

Advanced(b) == [b EXCEPT !.epoch = @ + 1]

CanWake == state[Workload] = "BlockedApproval" /\ CanPush(queue, Workload)

(* wake_workload, then the caller's own result. *)
WakeWorkload(t, result, callerResult) ==
    /\ state' = WakeState(Workload)
    /\ queue' = Append(queue, Workload)
    /\ reply' = [reply EXCEPT ![Workload] = result, ![t] = callerResult]

(* Fault: the broker closes and the workload stays blocked. *)
ExhaustEpochForgetsWorkload(t) ==
    /\ broker' = [Cleared(broker) EXCEPT !.state = "Closing"]
    /\ reply' = [reply EXCEPT ![t] = Reply("BrokerUnavailable", 0)]
    /\ UNCHANGED <<state, queue, caps, spent, failed, effect, manifest>>

(* fail_broker_epoch_exhaustion *)
ExhaustEpoch(t) ==
    /\ broker' = [Cleared(broker) EXCEPT !.state = "Closing"]
    /\ IF state[Workload] = "BlockedApproval"
       THEN WakeWorkload(t, Reply("BrokerUnavailable", 0), Reply("BrokerUnavailable", 0))
       ELSE /\ reply' = [reply EXCEPT ![t] = Reply("BrokerUnavailable", 0)]
            /\ UNCHANGED <<state, queue>>
    /\ UNCHANGED <<caps, spent, failed, effect, manifest>>

Approve(t) ==
    /\ broker' = [Advanced(broker) EXCEPT !.state = "Approved",
                     !.approval = broker.epoch + 1, !.expiry = broker.epoch + 2]
    /\ Resume(t, Reply("Ok", 0))
    /\ UNCHANGED <<effect, manifest>>

(* Deny, Expire and (with the journal) an unavailable effect end a request. *)
EndRequest(t, result, callerStatus) ==
    /\ broker' = [Cleared(Advanced(broker)) EXCEPT !.state = "Empty"]
    /\ WakeWorkload(t, result, Reply(callerStatus, 0))
    /\ UNCHANGED <<caps, spent, failed, manifest>>

(* Fault: the two refusals are mixed up. *)
RefusalSwapped == [Deny |-> "ApprovalExpired", Expire |-> "ApprovalDenied"]

Refusal == [Deny |-> "ApprovalDenied", Expire |-> "ApprovalExpired"]

Refuse(t, decision) ==
    EndRequest(t, Reply(Refusal[decision], 0), "Ok") /\ UNCHANGED effect

DecideTrap(t, raw, sequence, decision) ==
    LET status == DecideStatus(t, raw, sequence, decision)
    IN  /\ Runs(t)
        /\ \/ status # "Ok" /\ RejectSupervised(t, status)
           \/ /\ status = "Ok"
              /\ EpochExhausted(decision)
              /\ IF state[Workload] = "BlockedApproval" => CanWake
                 THEN ExhaustEpoch(t)
                 ELSE FailSupervised
           \/ status = "Ok" /\ ~EpochExhausted(decision) /\ decision = "Approve" /\ Approve(t)
           \/ /\ status = "Ok" /\ ~EpochExhausted(decision) /\ decision # "Approve"
              /\ IF CanWake THEN Refuse(t, decision) ELSE FailSupervised

CommitStatus(t, raw, sequence, argument) ==
    LET resolved == ResolveObject(t, raw, "Effect", "Commit", effect.live)
    IN  CASE resolved # "Ok" -> resolved
          [] resolved = "Ok"
             /\ ~(/\ broker.state = "Approved" /\ broker.present
                  /\ broker.sequence = sequence /\ broker.argument = argument)
             -> "ApprovalMismatch"
          [] OTHER ->
             IF effect.occupied THEN "EffectUnavailable"
             ELSE IF broker.epoch + 1 = broker.expiry THEN "Ok"
             ELSE "ApprovalExpired"

Commit(t, argument) ==
    /\ effect' = [effect EXCEPT !.occupied = TRUE, !.value = argument]
    /\ EndRequest(t, Reply("Ok", argument), "Ok")

CommitTrap(t, raw, sequence, argument) ==
    LET status == CommitStatus(t, raw, sequence, argument)
    IN  /\ Runs(t)
        /\ \/ status # "Ok" /\ RejectSupervised(t, status)
           \/ /\ status = "Ok"
              /\ IF CanWake THEN Commit(t, argument) ELSE FailSupervised

(* Send and Receive: this profile has no endpoint to resolve. *)
EndpointTrap(t, raw, right) ==
    /\ Runs(t)
    /\ Reject(t, ResolveObject(t, raw, "Endpoint", right, FALSE))

(* What a blocked workload is told when the supervisor is torn down. *)
TeardownStatus ==
    CASE broker.state = "Pending"  -> "ApprovalDenied"
      [] broker.state = "Approved" -> "ApprovalExpired"
      [] OTHER                     -> "BrokerUnavailable"

CloseSupervisor(advanced) ==
    /\ CloseTable(Supervisor)
    /\ broker' = [Cleared(advanced) EXCEPT !.state = "Closing", !.bound = @ \ {Supervisor}]
    /\ effect' = NoEffect
    /\ IF state[Workload] = "BlockedApproval"
       THEN /\ state' = WakeState(Workload)
            /\ queue' = Append(queue, Workload)
            /\ reply' = [reply EXCEPT ![Workload] = Reply(TeardownStatus, 0)]
       ELSE UNCHANGED <<state, queue, reply>>
    /\ UNCHANGED <<failed, manifest>>

BeginSupervisorTeardown ==
    /\ Tearing(Supervisor, "Live")
    /\ IF state[Workload] = "BlockedApproval" => CanWake
       THEN CloseSupervisor(broker)
       ELSE FailSupervised

CloseWorkload(advanced) ==
    /\ CloseTable(Workload)
    /\ manifest' = FALSE
    /\ broker' = [Cleared(advanced) EXCEPT
                     !.state = CASE @ \in {"Closing", "Dead"}     -> @
                                 [] @ \notin {"Closing", "Dead"}
                                    /\ state[Supervisor] = "Dead" -> "Closing"
                                 [] OTHER                         -> "Empty",
                     !.bound = @ \ {Workload}]
    /\ UNCHANGED <<state, queue, reply, failed, effect>>

BeginWorkloadTeardown == Tearing(Workload, "Live") /\ CloseWorkload(broker)

CompleteTeardown(t) ==
    LET ended == t = Supervisor \/ \A u \in Tasks : Reaped(t)[u] = "Dead"
    IN  /\ Tearing(t, "Closing")
        /\ IF CanReap(t)
           THEN /\ Reap(t)
                /\ broker' = IF ended THEN DeadBroker ELSE broker
                /\ effect' = IF ended THEN NoEffect ELSE effect
                /\ manifest' = (manifest /\ \E u \in Tasks : Reaped(t)[u] # "Dead")
           ELSE FailSupervised

(* Traps that touch neither the broker nor the effect cell. *)
PlainTrap(t) ==
    /\ \/ InvalidTrap(t)
       \/ YieldTrap(t)
       \/ ExitTrap(t)
       \/ \E raw \in Handles : DuplicateTrap(t, raw, {"Send"})
       \/ \E raw \in Handles : CloseTrap(t, raw)
       \/ \E raw \in Handles, right \in {"Send", "Receive"} : EndpointTrap(t, raw, right)
    /\ UNCHANGED brokerVars

Boot == FirstDispatch /\ UNCHANGED brokerVars

Init == InitWith(SupervisorTable)

KernelStep ==
    \/ Boot
    \/ BeginSupervisorTeardown
    \/ BeginWorkloadTeardown
    \/ \E t \in Tasks : CompleteTeardown(t)

Stop == Halted /\ UNCHANGED supervisedVars

BrokerTrap(t, raw) ==
    \/ \E registered \in BOOLEAN : StartTrap(t, raw, registered)
    \/ \E kindKnown \in BOOLEAN, argument \in Arguments :
          SubmitTrap(t, raw, kindKnown, argument)
    \/ InspectTrap(t, raw)
    \/ \E sequence \in 0 .. SequenceMax, decision \in Decisions :
          DecideTrap(t, raw, sequence, decision)
    \/ \E sequence \in 0 .. SequenceMax, argument \in Arguments :
          CommitTrap(t, raw, sequence, argument)

Next ==
    \/ KernelStep
    \/ \E t \in Tasks : PlainTrap(t)
    \/ \E t \in Tasks, raw \in Handles : BrokerTrap(t, raw)
    \/ Stop

(* The kernel completes a teardown it has begun; user tasks owe nothing. *)
Spec == Init /\ [][Next]_supervisedVars /\ WF_supervisedVars(KernelStep)
-----------------------------------------------------------------------------
(* What Runtime::validate checks for this profile. *)
NoRequest(b) == ~b.present /\ b = Cleared(b)

SupervisedValid ==
    /\ RuntimeValid
    /\ \A t \in Tasks : state[t] # "BlockedReceive"
    /\ state[Workload] = "Staged" => ~manifest /\ NoEntries(caps[Workload])
    /\ state[Workload] \notin {"Staged", "Dead"} /\ caps[Workload].state # "Closing" => manifest
    /\ state[Workload] = "Dead" => ~manifest
    /\ broker.state \in {"Empty", "Closing", "Dead"} => NoRequest(broker)
    /\ broker.state = "Pending" =>
          /\ broker.present /\ broker.approval = 0 /\ broker.expiry = 0
          /\ state[Workload] = "BlockedApproval"
    /\ broker.state = "Approved" =>
          /\ broker.present /\ broker.approval # 0 /\ broker.expiry = broker.approval + 1
          /\ state[Workload] = "BlockedApproval"
    /\ broker.state # "Dead" => broker.nextSequence # 0 /\ broker.epoch # 0
    /\ broker.state = "Dead" => broker = DeadBroker
    /\ broker.present => broker.sequence # 0
    /\ ~effect.live => effect = NoEffect
    /\ ~effect.occupied => effect.value = 0
    /\ AllDead => ~manifest /\ broker = DeadBroker /\ effect = NoEffect

SupervisedTypeOK ==
    /\ RuntimeTypeOK
    /\ broker \in Brokers
    /\ effect \in Effects
    /\ manifest \in BOOLEAN

(* Every variable keeps its type; in particular neither the epoch nor the  *)
(* request sequence ever passes its last value.                            *)
TypeOK == SupervisedTypeOK

(* The validate call at the end of every handler accepts.                  *)
ValidateAccepts == SupervisedValid

(* A workload is blocked exactly while the broker holds its request, so a  *)
(* blocked workload is never forgotten and a request never outlives the    *)
(* task it would wake.  validate checks one direction only.                *)
BlockedIffRequested ==
    state[Workload] = "BlockedApproval" <=> broker.state \in {"Pending", "Approved"}

(* The effect cell is written once, in the step that ends an approved      *)
(* request by telling the workload Ok, and takes that request's argument.  *)
(* The approval it uses was given in the current decision epoch and the    *)
(* write moves to its expiry; any other step that moves the epoch also     *)
(* ends the approval, which is so never used after the epoch it is for.    *)
EffectNeedsApproval ==
    [][/\ effect' # effect /\ effect'.live =>
             /\ ~effect.occupied
             /\ broker.state = "Approved" /\ broker.approval = broker.epoch
             /\ broker'.epoch = broker.expiry
             /\ effect'.value = broker.argument
             /\ state[Workload] = "BlockedApproval"
             /\ reply'[Workload] = Reply("Ok", broker.argument)
       /\ broker.state = "Approved" /\ broker'.epoch # broker.epoch =>
             broker'.state # "Approved"]_supervisedVars

(* Every exited task is published Dead, as the teardown sequence of        *)
(* ADR-0006 ends; a supervisor that exits before it launches its workload  *)
(* is not.                                                                 *)
ExitedTaskBecomesDead ==
    \A t \in Tasks : (state[t] = "Exited") ~> (state[t] = "Dead")
=============================================================================

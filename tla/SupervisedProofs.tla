-------------------------- MODULE SupervisedProofs --------------------------
(***************************************************************************)
(* Proofs about SupervisedRuntime for every table size, generation limit,  *)
(* set of arguments, last sequence and last epoch.  The lemmas are about   *)
(* the single calls, so that JournaledProofs can cite them too.            *)
(*                                                                         *)
(* Runtime::validate is not inductive.  SupInv adds what it leaves out:    *)
(* each role keeps to its rights, so only the supervisor decides and only  *)
(* the workload submits; the broker dies with the supervisor and closes    *)
(* with its table; a workload is blocked only while its request is held;   *)
(* an approval is the current epoch and expires in the next.               *)
(***************************************************************************)
EXTENDS SupervisedRuntime, TaskRuntimeProofs

RoleRights(t) ==
    IF t = Supervisor THEN {"Start", "Decide", "Commit", "Read"} ELSE {"Submit"}

RuntimeInv ==
    /\ failed \in BOOLEAN
    /\ caps \in [Tasks -> Tables]
    /\ reply \in [Tasks -> Replies]
    /\ spent \in [Tasks -> SUBSET Pairs]
    /\ ScheduleOK(state, queue)
    /\ \A t \in Tasks : state[t] # "BlockedReceive"
    /\ state[Supervisor] \notin {"Staged", "BlockedApproval"}
    /\ \A t \in Tasks :
          /\ TableOK(caps[t])
          /\ caps[t].state \in TableStateOf[state[t]]
          /\ ConfinedTo(caps[t], RoleRights(t))
          /\ caps[t].state # "Dead" => Buried(caps[t], spent[t])

(* The broker holds no request. *)
Blank(b) ==
    b.present = FALSE /\ b.sequence = 0 /\ b.argument = 0 /\ b.approval = 0 /\ b.expiry = 0

RequestOK(b) ==
    /\ b \in Brokers
    /\ b.state \in {"Empty", "Closing"} => Blank(b)
    /\ b.state \in {"Pending", "Approved"} => b.present = TRUE /\ b.sequence # 0
    /\ b.state = "Pending" => b.approval = 0 /\ b.expiry = 0
    /\ b.state = "Approved" => b.approval = b.epoch /\ b.expiry = b.epoch + 1
    /\ b.state # "Dead" => b.nextSequence # 0 /\ b.epoch # 0
    /\ b.state = "Dead" => b = DeadBroker

CellOK(e) == e \in Effects /\ (~e.live => e = NoEffect) /\ (~e.occupied => e.value = 0)

(* The last conjunct: the one runtime call that fails is the end of a      *)
(* supervisor that never launched its workload.                            *)
BrokerInv ==
    /\ RequestOK(broker) /\ CellOK(effect) /\ manifest \in BOOLEAN
    /\ state[Workload] = "Staged" => caps[Workload] = BuildingTable
    /\ manifest <=> caps[Workload].state = "Live"
    /\ broker.state = "Dead" <=> state[Supervisor] = "Dead"
    /\ caps[Supervisor].state = "Closing" => broker.state = "Closing"
    /\ state[Workload] = "BlockedApproval" <=> broker.state \in {"Pending", "Approved"}
    /\ effect.live => caps[Supervisor].state = "Live"
    /\ failed => state[Supervisor] = "Exited" /\ state[Workload] = "Staged"

SupInv == RuntimeInv /\ BrokerInv
-----------------------------------------------------------------------------
(* The two roles are the two tasks. *)
LEMMA RoleFacts ==
    /\ Supervisor \in Tasks /\ Workload \in Tasks /\ Supervisor # Workload
    /\ \A t \in Tasks : t = Supervisor \/ t = Workload
BY DEF Tasks, Sender, Receiver, Supervisor, Workload

(* The table state validate expects in each task state. *)
LEMMA TableStates7 ==
    /\ TableStateOf["Staged"] = {"Building"}
    /\ TableStateOf["Ready"] = {"Live"} /\ TableStateOf["Running"] = {"Live"}
    /\ TableStateOf["BlockedReceive"] = {"Live"} /\ TableStateOf["BlockedApproval"] = {"Live"}
    /\ TableStateOf["Exited"] = {"Live", "Closing"} /\ TableStateOf["Dead"] = {"Dead"}
BY DEF TableStateOf

(* A step that changes no table and only registers and the schedule, and   *)
(* moves tasks only between states that keep their table live.             *)
LEMMA ScheduleStepRuntime ==
    ASSUME RuntimeInv, ScheduleOK(state', queue'),
           UNCHANGED <<caps, spent, failed>>, reply' \in [Tasks -> Replies],
           \A u \in Tasks : \/ state'[u] = state[u]
                            \/ /\ caps[u].state \in TableStateOf[state'[u]]
                               /\ state'[u] # "BlockedReceive",
           state'[Supervisor] \notin {"Staged", "BlockedApproval"}
    PROVE  RuntimeInv'
BY RoleFacts DEF RuntimeInv

(* A step that leaves the broker, the cell and the manifest alone keeps    *)
(* BrokerInv when no table changes state and no task blocks, dies or       *)
(* starts.                                                                 *)
LEMMA QuietBroker ==
    ASSUME BrokerInv, ~failed, UNCHANGED failed, UNCHANGED brokerVars,
           \A t \in Tasks : caps'[t].state = caps[t].state,
           state'[Workload] = "Staged" =>
               state[Workload] = "Staged" /\ caps'[Workload] = caps[Workload],
           state'[Workload] = "BlockedApproval" <=> state[Workload] = "BlockedApproval",
           state'[Supervisor] = "Dead" <=> state[Supervisor] = "Dead"
    PROVE  BrokerInv'
<1>1. broker' = broker /\ effect' = effect /\ manifest' = manifest /\ failed' = failed
  BY DEF brokerVars
<1>2. RequestOK(broker') /\ CellOK(effect') /\ manifest' \in BOOLEAN
  BY <1>1 DEF BrokerInv
<1>3. caps'[Workload].state = caps[Workload].state /\ caps'[Supervisor].state = caps[Supervisor].state
  BY RoleFacts
<1> QED
  BY <1>1, <1>2, <1>3 DEF BrokerInv

(* A trap that changes only the caller's registers. *)
LEMMA ResumeSup ==
    ASSUME SupInv, NEW t \in Tasks, Runs(t), NEW result \in Replies, Resume(t, result),
           UNCHANGED brokerVars
    PROVE  SupInv'
<1>1. /\ reply' = [reply EXCEPT ![t] = result]
      /\ state' = state /\ queue' = queue /\ caps' = caps /\ spent' = spent
      /\ failed' = failed
  BY DEF Resume
<1>2. reply' \in [Tasks -> Replies]
  BY <1>1 DEF SupInv, RuntimeInv
<1>3. RuntimeInv'
  BY <1>1, <1>2, ScheduleStepRuntime DEF SupInv, RuntimeInv
<1>4. BrokerInv'
  BY <1>1, QuietBroker DEF SupInv, Runs
<1> QED
  BY <1>3, <1>4 DEF SupInv

(* A refused trap. *)
LEMMA RejectSup ==
    ASSUME SupInv, NEW t \in Tasks, Runs(t), NEW status \in Statuses, Reject(t, status),
           UNCHANGED brokerVars
    PROVE  SupInv'
<1>1. Reply(status, 0) \in Replies
  BY ReplyType
<1>2. Resume(t, Reply(status, 0))
  BY DEF Reject
<1> QED
  BY <1>1, <1>2, ResumeSup

(* The first dispatch. *)
LEMMA BootSup == SupInv /\ Boot => SupInv'
<1> SUFFICES ASSUME SupInv, Boot PROVE SupInv'
  OBVIOUS
<1>1. ScheduleOK(state, queue) /\ FirstDispatch /\ UNCHANGED brokerVars /\ ~failed
  BY DEF SupInv, RuntimeInv, Boot, FirstDispatch
<1>2. /\ ScheduleOK(state', queue')
      /\ UNCHANGED <<caps, reply, spent, failed>>
      /\ \A t \in Tasks : \/ state'[t] = state[t]
                          \/ state[t] = "Ready" /\ state'[t] = "Running"
  BY <1>1, BootSteps
<1>3. \A u \in Tasks : \/ state'[u] = state[u]
                       \/ /\ caps[u].state \in TableStateOf[state'[u]]
                          /\ state'[u] # "BlockedReceive"
  BY <1>2, TableStates7 DEF SupInv, RuntimeInv
<1>4. RuntimeInv'
  BY <1>2, <1>3, RoleFacts, ScheduleStepRuntime DEF SupInv, RuntimeInv
<1>5. BrokerInv'
  BY <1>1, <1>2, RoleFacts, QuietBroker DEF SupInv
<1> QED
  BY <1>4, <1>5 DEF SupInv

(* Yield. *)
LEMMA YieldSup ==
    ASSUME SupInv, NEW t \in Tasks, YieldTrap(t), UNCHANGED brokerVars
    PROVE  SupInv'
<1>1. ScheduleOK(state, queue) /\ ~failed
  BY DEF SupInv, RuntimeInv, YieldTrap, Runs
<1>2. /\ ScheduleOK(state', queue')
      /\ UNCHANGED <<caps, spent, failed>>
      /\ reply' = [reply EXCEPT ![t] = Reply("Ok", 0)]
      /\ \A u \in Tasks : \/ state'[u] = state[u]
                          \/ /\ state[u] \in {"Ready", "Running"}
                             /\ state'[u] \in {"Ready", "Running"}
  BY <1>1, YieldSteps
<1>3. \A u \in Tasks : \/ state'[u] = state[u]
                       \/ /\ caps[u].state \in TableStateOf[state'[u]]
                          /\ state'[u] # "BlockedReceive"
  BY <1>2, TableStates7 DEF SupInv, RuntimeInv
<1>4. reply' \in [Tasks -> Replies]
  <2>1. Reply("Ok", 0) \in Replies
    BY ReplyType DEF Statuses
  <2> QED
    BY <1>2, <2>1 DEF SupInv, RuntimeInv
<1>5. RuntimeInv'
  BY <1>2, <1>3, <1>4, RoleFacts, ScheduleStepRuntime DEF SupInv, RuntimeInv
<1>6. BrokerInv'
  BY <1>1, <1>2, RoleFacts, QuietBroker DEF SupInv
<1> QED
  BY <1>5, <1>6 DEF SupInv

(* Exit leaves the task out of the run queue. *)
LEMMA ExitSup ==
    ASSUME SupInv, NEW t \in Tasks, ExitTrap(t), UNCHANGED brokerVars
    PROVE  SupInv'
<1>1. ScheduleOK(state, queue) /\ state[t] = "Running" /\ ~failed
  BY DEF SupInv, RuntimeInv, ExitTrap, Runs
<1>2. /\ state' = [state EXCEPT ![t] = "Exited"]
      /\ queue' = queue
      /\ reply' = [reply EXCEPT ![t] = NoReply]
      /\ UNCHANGED <<caps, spent, failed>>
  BY DEF ExitTrap
<1>3. ScheduleOK(state', queue')
  BY <1>1, <1>2, ExitKeepsSchedule, Zenon
<1>4. \A u \in Tasks : state'[u] = IF u = t THEN "Exited" ELSE state[u]
  BY <1>1, <1>2 DEF ScheduleOK
<1>5. \A u \in Tasks : \/ state'[u] = state[u]
                       \/ /\ caps[u].state \in TableStateOf[state'[u]]
                          /\ state'[u] # "BlockedReceive"
  BY <1>1, <1>4, TableStates7 DEF SupInv, RuntimeInv
<1>6. reply' \in [Tasks -> Replies]
  BY <1>2, NoReplyType DEF SupInv, RuntimeInv
<1>7. RuntimeInv'
  BY <1>2, <1>3, <1>4, <1>5, <1>6, RoleFacts, ScheduleStepRuntime DEF SupInv, RuntimeInv
<1>8. BrokerInv'
  BY <1>1, <1>2, <1>4, RoleFacts, QuietBroker DEF SupInv
<1> QED
  BY <1>7, <1>8 DEF SupInv
-----------------------------------------------------------------------------
(* What the invariant says of a running task's table and history. *)
LEMMA RunningTable ==
    ASSUME RuntimeInv, NEW t \in Tasks, Runs(t)
    PROVE  /\ TableOK(caps[t]) /\ caps[t].state = "Live"
           /\ ConfinedTo(caps[t], RoleRights(t))
           /\ spent[t] \in SUBSET Pairs
           /\ Buried(caps[t], spent[t])
BY TableStates7 DEF RuntimeInv, Runs

(* A handle resolves only for a right of its holder's role. *)
LEMMA ResolvedRole ==
    ASSUME RuntimeInv, NEW t \in Tasks, Runs(t), NEW raw \in Handles, NEW type, NEW right,
           ResolveTyped(caps[t], raw, type, right) = "Ok"
    PROVE  right \in RoleRights(t)
<1>1. right \in SelectedEntry(caps[t], raw).rights
  BY ResolvedEntry
<1>2. HandleSlot(raw) \in SlotIndex /\ ConfinedTo(caps[t], RoleRights(t))
  BY HandleSlotInTable, RunningTable
<1> QED
  BY <1>1, <1>2 DEF ConfinedTo, SelectedEntry

(* The statuses of the resolve helpers of this profile. *)
LEMMA ObjectStatuses ==
    ASSUME NEW t, NEW raw, NEW type, NEW right, NEW live
    PROVE  /\ ResolveObject(t, raw, type, right, live)
                 \in {"Ok", "InvalidHandle", "WrongObject", "RightsDenied"}
           /\ ResolveObject(t, raw, type, right, live) = "Ok" =>
                 live /\ ResolveTyped(caps[t], raw, type, right) = "Ok"
BY ResolveStatuses DEF ResolveObject

(* A handle to an object resolves only for a right of its holder's role. *)
LEMMA ObjectRole ==
    ASSUME RuntimeInv, NEW t \in Tasks, Runs(t), NEW raw \in Handles, NEW type, NEW right,
           NEW live, ResolveObject(t, raw, type, right, live) = "Ok"
    PROVE  live /\ right \in RoleRights(t)
<1>1. live /\ ResolveTyped(caps[t], raw, type, right) = "Ok"
  BY ObjectStatuses
<1> QED
  BY <1>1, ResolvedRole

(* Nothing is duplicable here: Duplicate is always refused. *)
LEMMA DuplicateSup ==
    ASSUME SupInv, NEW t \in Tasks, NEW raw \in Handles, NEW rights,
           DuplicateTrap(t, raw, rights), UNCHANGED brokerVars
    PROVE  SupInv'
<1> DEFINE status == DuplicateStatus(caps[t], raw, rights)
<1>1. Runs(t)
  BY DEF DuplicateTrap
<1>2. status \in Statuses
  BY DuplicateStatuses
<1>3. ResolveTyped(caps[t], raw, "Endpoint", "Duplicate") # "Ok"
  <2>1. "Duplicate" \notin RoleRights(t)
    BY DEF RoleRights
  <2> QED
    BY <1>1, <2>1, ResolvedRole DEF SupInv
<1>4. status # "Ok"
  BY <1>3 DEF DuplicateStatus
<1>5. Reject(t, status)
  BY <1>4 DEF DuplicateTrap
<1> HIDE DEF status
<1> QED
  BY <1>1, <1>2, <1>5, RejectSup

(* A trap that changes the running task's table, its history and registers. *)
LEMMA TableStepSup ==
    ASSUME SupInv, NEW t \in Tasks, Runs(t),
           NEW new, TableOK(new), new.state = "Live", ConfinedTo(new, RoleRights(t)),
           NEW pairs \in SUBSET Pairs, Buried(new, pairs), NEW result \in Replies,
           caps' = [caps EXCEPT ![t] = new],
           spent' = [spent EXCEPT ![t] = pairs],
           reply' = [reply EXCEPT ![t] = result],
           UNCHANGED <<state, queue, failed>>, UNCHANGED brokerVars
    PROVE  SupInv'
<1>1. state' = state /\ queue' = queue /\ failed' = failed
  OBVIOUS
<1>2. caps[t].state = "Live" /\ state[t] = "Running" /\ ~failed
  BY RunningTable DEF SupInv, Runs
<1>3. /\ caps \in [Tasks -> Tables] /\ spent \in [Tasks -> SUBSET Pairs]
      /\ reply \in [Tasks -> Replies]
  BY DEF SupInv, RuntimeInv
<1>4. /\ caps'[t] = new /\ spent'[t] = pairs
      /\ \A u \in Tasks \ {t} : caps'[u] = caps[u] /\ spent'[u] = spent[u]
      /\ \A u \in Tasks : caps'[u].state = caps[u].state
      /\ caps' \in [Tasks -> Tables] /\ spent' \in [Tasks -> SUBSET Pairs]
      /\ reply' \in [Tasks -> Replies]
  BY <1>2, <1>3 DEF TableOK
<1>5. RuntimeInv'
  <2>1. \A u \in Tasks :
          /\ TableOK(caps'[u])
          /\ caps'[u].state \in TableStateOf[state'[u]]
          /\ ConfinedTo(caps'[u], RoleRights(u))
          /\ caps'[u].state # "Dead" => Buried(caps'[u], spent'[u])
    BY <1>1, <1>4 DEF SupInv, RuntimeInv
  <2> QED
    BY <1>1, <1>4, <2>1 DEF SupInv, RuntimeInv
<1>6. BrokerInv'
  <2>1. state'[Workload] = "Staged" => caps'[Workload] = caps[Workload]
    BY <1>1, <1>2, <1>4, RoleFacts
  <2> QED
    BY <1>1, <1>2, <1>4, <2>1, QuietBroker DEF SupInv
<1> QED
  BY <1>5, <1>6 DEF SupInv

(* Close. *)
LEMMA CloseSup ==
    ASSUME SupInv, NEW t \in Tasks, NEW raw \in Handles,
           CloseTrap(t, raw), UNCHANGED brokerVars
    PROVE  SupInv'
<1>1. Runs(t)
  BY DEF CloseTrap
<1>2. CASE ~Selects(caps[t], raw)
  <2>1. Reject(t, "InvalidHandle") /\ "InvalidHandle" \in Statuses
    BY <1>2 DEF CloseTrap, Statuses
  <2> QED
    BY <1>1, <2>1, RejectSup
<1>3. CASE Selects(caps[t], raw)
  <2> DEFINE new == CloseHandle(caps[t], raw)
             pair == <<HandleSlot(raw), HandleGeneration(raw)>>
             pairs == spent[t] \cup {pair}
  <2>1. /\ caps' = [caps EXCEPT ![t] = new]
        /\ spent' = [spent EXCEPT ![t] = pairs]
        /\ reply' = [reply EXCEPT ![t] = Reply("Ok", 0)]
        /\ UNCHANGED <<state, queue, failed>>
    BY <1>3 DEF CloseTrap
  <2>2. /\ TableOK(caps[t]) /\ ConfinedTo(caps[t], RoleRights(t))
        /\ spent[t] \in SUBSET Pairs /\ Buried(caps[t], spent[t])
    BY <1>1, RunningTable DEF SupInv
  <2>3. /\ TableOK(new) /\ new.state = "Live" /\ ConfinedTo(new, RoleRights(t))
        /\ pair \in Pairs /\ Buried(new, pairs)
    BY <1>3, <2>2, CloseHandleBuries DEF Pairs
  <2> HIDE DEF new, pair
  <2>4. pairs \in SUBSET Pairs
    BY <2>2, <2>3
  <2>5. Reply("Ok", 0) \in Replies
    BY ReplyType DEF Statuses
  <2> HIDE DEF pairs
  <2> QED
    BY <1>1, <2>1, <2>3, <2>4, <2>5, TableStepSup, Zenon
<1> QED
  BY <1>2, <1>3

(* The traps that touch neither the broker nor the effect cell. *)
LEMMA PlainSup ==
    ASSUME SupInv, NEW t \in Tasks, PlainTrap(t)
    PROVE  SupInv'
<1>0. UNCHANGED brokerVars
  BY DEF PlainTrap
<1>1. CASE InvalidTrap(t)
  <2>1. Runs(t) /\ Reject(t, "InvalidOperation") /\ "InvalidOperation" \in Statuses
    BY <1>1 DEF InvalidTrap, Statuses
  <2> QED
    BY <1>0, <2>1, RejectSup
<1>2. CASE YieldTrap(t)
  BY <1>0, <1>2, YieldSup
<1>3. CASE ExitTrap(t)
  BY <1>0, <1>3, ExitSup
<1>4. CASE \E raw \in Handles : DuplicateTrap(t, raw, {"Send"})
  BY <1>0, <1>4, DuplicateSup
<1>5. CASE \E raw \in Handles : CloseTrap(t, raw)
  BY <1>0, <1>5, CloseSup
<1>6. CASE \E raw \in Handles, right \in {"Send", "Receive"} : EndpointTrap(t, raw, right)
  <2>1. PICK raw \in Handles, right \in {"Send", "Receive"} : EndpointTrap(t, raw, right)
    BY <1>6
  <2> DEFINE status == ResolveObject(t, raw, "Endpoint", right, FALSE)
  <2>2. Runs(t) /\ Reject(t, status)
    BY <2>1, Zenon DEF EndpointTrap
  <2>3. status \in Statuses
    BY ObjectStatuses, Zenon DEF Statuses
  <2> HIDE DEF status
  <2> QED
    BY <1>0, <2>2, <2>3, RejectSup
<1> QED
  BY <1>1, <1>2, <1>3, <1>4, <1>5, <1>6 DEF PlainTrap
-----------------------------------------------------------------------------
(* A broker without a request. *)
Without(b, s, bound) ==
    [state |-> s, present |-> FALSE, sequence |-> 0, argument |-> 0,
     nextSequence |-> b.nextSequence, exhausted |-> b.exhausted,
     epoch |-> b.epoch, approval |-> 0, expiry |-> 0, bound |-> bound]

(* It is a sound one. *)
LEMMA BlankBroker ==
    ASSUME NEW b \in Brokers, b.nextSequence # 0, b.epoch # 0,
           NEW s \in {"Empty", "Closing"}, NEW bound \in SUBSET Tasks
    PROVE  LET new == Without(b, s, bound)
           IN  /\ RequestOK(new) /\ new.state = s /\ new.epoch = b.epoch
               /\ new.nextSequence = b.nextSequence /\ new.present = FALSE
<1> DEFINE new == Without(b, s, bound)
<1>1. new \in Brokers
  BY SupervisedAssumption DEF Brokers, BrokerStates, Without
<1>2. /\ new.state = s /\ new.epoch = b.epoch /\ new.nextSequence = b.nextSequence
      /\ new.present = FALSE /\ Blank(new)
  BY DEF Blank, Without
<1> HIDE DEF new
<1>3. RequestOK(new)
  BY <1>1, <1>2 DEF RequestOK
<1> QED
  BY <1>2, <1>3 DEF new

(* The broker after its request has ended, and with a task unbound as well. *)
Ended(b, s) == [Cleared(b) EXCEPT !.state = s]

Unbound(b, s, bound) == [Cleared(b) EXCEPT !.state = s, !.bound = bound]

(* Ending a request leaves the broker blank. *)
LEMMA EndedBroker ==
    ASSUME NEW b \in Brokers, b.nextSequence # 0, b.epoch # 0, NEW s \in {"Empty", "Closing"}
    PROVE  LET new == Ended(b, s)
           IN  /\ RequestOK(new) /\ new.state = s /\ new.epoch = b.epoch
               /\ new.nextSequence = b.nextSequence /\ new.present = FALSE
<1>1. PICK new : new = Ended(b, s)
  OBVIOUS
<1>2. new = Without(b, s, b.bound)
  BY <1>1, Zenon DEF Brokers, Cleared, Without, Ended
<1>3. b.bound \in SUBSET Tasks
  BY DEF Brokers
<1> DEFINE r == Without(b, s, b.bound)
<1>4. /\ RequestOK(r) /\ r.state = s /\ r.epoch = b.epoch
      /\ r.nextSequence = b.nextSequence /\ r.present = FALSE
  BY <1>3, BlankBroker, Zenon
<1> HIDE DEF r
<1> QED
  BY <1>1, <1>2, <1>4 DEF r

(* Unbinding a task ends its request too. *)
LEMMA UnboundBroker ==
    ASSUME NEW b \in Brokers, b.nextSequence # 0, b.epoch # 0,
           NEW s \in {"Empty", "Closing"}, NEW bound \in SUBSET Tasks
    PROVE  LET new == Unbound(b, s, bound)
           IN  /\ RequestOK(new) /\ new.state = s /\ new.epoch = b.epoch
               /\ new.nextSequence = b.nextSequence /\ new.present = FALSE
<1>1. PICK new : new = Unbound(b, s, bound)
  OBVIOUS
<1>2. new = Without(b, s, bound)
  BY <1>1, Zenon DEF Brokers, Cleared, Without, Unbound
<1> DEFINE r == Without(b, s, bound)
<1>3. /\ RequestOK(r) /\ r.state = s /\ r.epoch = b.epoch
      /\ r.nextSequence = b.nextSequence /\ r.present = FALSE
  BY BlankBroker, Zenon
<1> HIDE DEF r
<1> QED
  BY <1>1, <1>2, <1>3 DEF r

(* advance_epoch changes only the epoch. *)
LEMMA AdvancedBroker ==
    ASSUME NEW b \in Brokers, b.epoch # EpochMax
    PROVE  /\ Advanced(b) \in Brokers /\ Advanced(b).epoch = b.epoch + 1
           /\ b.epoch + 1 \in 0 .. EpochMax /\ b.epoch + 1 # 0
           /\ Advanced(b).nextSequence = b.nextSequence
           /\ Advanced(b).bound = b.bound /\ Advanced(b).state = b.state
<1>1. b.epoch + 1 \in 0 .. EpochMax /\ b.epoch + 1 # 0
  BY SupervisedAssumption DEF Brokers
<1> QED
  BY <1>1 DEF Brokers, Advanced

(* An approval is dated with the new epoch and expires in the next. *)
LEMMA ApprovedBroker ==
    ASSUME NEW b, RequestOK(b), b.state = "Pending", b.epoch # EpochMax, b.epoch + 1 # EpochMax,
           NEW new, new = [Advanced(b) EXCEPT !.state = "Approved",
                              !.approval = b.epoch + 1, !.expiry = b.epoch + 2]
    PROVE  /\ RequestOK(new) /\ new.state = "Approved" /\ new.present = TRUE
           /\ new.sequence = b.sequence /\ new.epoch = b.epoch + 1
           /\ new.nextSequence = b.nextSequence
<1>1. /\ b \in Brokers /\ b.nextSequence # 0 /\ b.epoch # 0
      /\ b.present = TRUE /\ b.sequence # 0
  BY DEF RequestOK
<1>2. b.epoch + 1 \in 0 .. EpochMax /\ b.epoch + 2 \in 0 .. EpochMax /\ b.epoch + 1 # 0
      /\ b.epoch \in Nat
  BY <1>1, SupervisedAssumption DEF Brokers
<1> DEFINE r == [state |-> "Approved", present |-> TRUE, sequence |-> b.sequence,
                 argument |-> b.argument, nextSequence |-> b.nextSequence,
                 exhausted |-> b.exhausted, epoch |-> b.epoch + 1,
                 approval |-> b.epoch + 1, expiry |-> b.epoch + 2, bound |-> b.bound]
<1>3. new = r
  BY <1>1, Zenon DEF Brokers, Advanced
<1>4. r \in Brokers
  BY <1>1, <1>2 DEF Brokers, BrokerStates
<1>5. /\ r.state = "Approved" /\ r.present = TRUE /\ r.sequence = b.sequence
      /\ r.nextSequence = b.nextSequence /\ r.epoch = b.epoch + 1
      /\ r.approval = b.epoch + 1 /\ r.expiry = b.epoch + 2
  OBVIOUS
<1> HIDE DEF r
<1>6. r.epoch + 1 = r.expiry
  BY <1>2, <1>5
<1>7. RequestOK(r)
  BY <1>1, <1>2, <1>4, <1>5, <1>6 DEF RequestOK
<1> QED
  BY <1>3, <1>5, <1>7, Zenon

(* The cell after a commit. *)
Written(e, argument) == [e EXCEPT !.occupied = TRUE, !.value = argument]

(* A commit writes a live cell. *)
LEMMA WrittenCell ==
    ASSUME NEW e, CellOK(e), e.live, NEW argument \in Arguments
    PROVE  LET new == Written(e, argument)
           IN  CellOK(new) /\ new.live = e.live /\ new.value = argument /\ new.occupied = TRUE
<1>1. PICK new : new = Written(e, argument)
  OBVIOUS
<1>2. new = [live |-> e.live, occupied |-> TRUE, value |-> argument]
  BY <1>1, Zenon DEF CellOK, Effects, Written
<1>3. new \in Effects
  BY <1>2 DEF CellOK, Effects
<1>4. CellOK(new) /\ new.live = e.live /\ new.value = argument /\ new.occupied = TRUE
  BY <1>2, <1>3 DEF CellOK
<1> QED
  BY <1>1, <1>4

(* The cell and the broker of a torn-down supervisor. *)
LEMMA ReclaimedObjects ==
    RequestOK(DeadBroker) /\ DeadBroker.state = "Dead" /\ CellOK(NoEffect) /\ ~NoEffect.live
BY SupervisedAssumption
   DEF RequestOK, Brokers, BrokerStates, DeadBroker, CellOK, Effects, NoEffect
-----------------------------------------------------------------------------
(* While the broker holds a request its workload waits, off the queue, and *)
(* waking it succeeds.                                                     *)
LEMMA HeldRequest ==
    ASSUME SupInv, broker.state \in {"Pending", "Approved"}
    PROVE  /\ state[Workload] = "BlockedApproval" /\ CanWake
           /\ ScheduleOK(WakeState(Workload), Append(queue, Workload))
           /\ \A u \in Tasks : WakeState(Workload)[u] = IF u = Workload THEN "Ready" ELSE state[u]
<1>1. state[Workload] = "BlockedApproval" /\ ScheduleOK(state, queue)
  BY DEF SupInv, BrokerInv, RuntimeInv
<1>2. /\ CanPush(queue, Workload)
      /\ ScheduleOK([state EXCEPT ![Workload] = "Ready"], Append(queue, Workload))
  BY <1>1, RoleFacts, EnqueueKeepsSchedule
<1> QED
  BY <1>1, <1>2 DEF CanWake, WakeState, ScheduleOK

(* Ending the request in the supervisor's trap wakes the workload. *)
LEMMA WakeSup ==
    ASSUME SupInv, broker.state \in {"Pending", "Approved"}, Runs(Supervisor),
           state' = WakeState(Workload), queue' = Append(queue, Workload),
           reply' \in [Tasks -> Replies], UNCHANGED <<caps, spent, failed, manifest>>,
           RequestOK(broker'), broker'.state \in {"Empty", "Closing"},
           CellOK(effect'), effect'.live => effect.live
    PROVE  SupInv'
<1>1. /\ state[Workload] = "BlockedApproval" /\ ScheduleOK(state', queue')
      /\ \A u \in Tasks : state'[u] = IF u = Workload THEN "Ready" ELSE state[u]
  BY HeldRequest
<1>2. caps' = caps /\ spent' = spent /\ failed' = failed /\ manifest' = manifest
  OBVIOUS
<1>3. caps[Workload].state = "Live" /\ caps[Supervisor].state = "Live"
      /\ state[Supervisor] = "Running" /\ ~failed
  BY <1>1, RoleFacts, TableStates7 DEF SupInv, RuntimeInv, Runs
<1>4. RuntimeInv'
  <2>1. \A u \in Tasks : \/ state'[u] = state[u]
                         \/ /\ caps[u].state \in TableStateOf[state'[u]]
                            /\ state'[u] # "BlockedReceive"
    BY <1>1, <1>3, TableStates7
  <2> QED
    BY <1>1, <1>3, <2>1, RoleFacts, ScheduleStepRuntime DEF SupInv
<1>5. BrokerInv'
  <2>1. state'[Workload] = "Ready" /\ state'[Supervisor] = "Running"
    BY <1>1, <1>3, RoleFacts
  <2> QED
    BY <1>2, <1>3, <2>1 DEF SupInv, BrokerInv
<1> QED
  BY <1>4, <1>5 DEF SupInv
-----------------------------------------------------------------------------
(* The workload's table after its launch. *)
LEMMA LaunchedTable ==
    ASSUME NEW pairs \in SUBSET Pairs, Buried(BuildingTable, pairs)
    PROVE  LET table == Publish(Install(BuildingTable, "Broker", {"Submit"}))
           IN  /\ TableOK(table) /\ table.state = "Live"
               /\ ConfinedTo(table, {"Submit"}) /\ Buried(table, pairs)
<1> DEFINE entry == [type |-> "Broker", rights |-> {"Submit"}]
           built == Install(BuildingTable, "Broker", {"Submit"})
<1>1. /\ entry \in Entries /\ entry.type = "Broker" /\ entry.rights = {"Submit"}
      /\ entry.rights \in ValidRights[entry.type]
  BY DEF Entries, ObjectTypes, Rights, ValidRights
<1>2. built = Allocate(BuildingTable, entry)
  BY DEF Install
<1> HIDE DEF entry, built
<1>3. /\ TableOK(built) /\ built.state = "Building" /\ ConfinedTo(built, {"Submit"})
      /\ Buried(built, pairs)
  BY <1>1, <1>2, BuildingTableIsOK, AllocateKeeps, Zenon DEF Pairs
<1>4. LET table == Publish(built)
      IN  /\ TableOK(table) /\ table.state = "Live"
          /\ ConfinedTo(table, {"Submit"}) /\ Buried(table, pairs)
  BY <1>3, PublishKeeps
<1> QED
  BY <1>4 DEF built

(* What an accepted Start says. *)
LEMMA StartStatuses ==
    ASSUME SupInv, NEW t \in Tasks, Runs(t), NEW raw \in Handles, NEW registered \in BOOLEAN
    PROVE  /\ StartStatus(t, raw, registered) \in Statuses
           /\ StartStatus(t, raw, registered) = "Ok" =>
                 t = Supervisor /\ state[Workload] = "Staged"
<1> DEFINE resolved == ResolveObject(t, raw, "TaskControl", "Start", TRUE)
<1>1. /\ resolved \in {"Ok", "InvalidHandle", "WrongObject", "RightsDenied"}
      /\ resolved = "Ok" => "Start" \in RoleRights(t)
  BY ObjectStatuses, ObjectRole, Zenon DEF SupInv
<1>2. resolved = "Ok" => t = Supervisor
  BY <1>1, RoleFacts DEF RoleRights
<1> HIDE DEF resolved
<1> QED
  BY <1>1, <1>2, Zenon DEF StartStatus, Statuses, resolved

(* Launching publishes the staged table with its one submit handle. *)
LEMMA LaunchSup ==
    ASSUME SupInv, NEW t \in Tasks, Runs(t), t = Supervisor, state[Workload] = "Staged",
           Launch(t)
    PROVE  SupInv'
<1> DEFINE new == Publish(Install(BuildingTable, "Broker", {"Submit"}))
<1>1. /\ caps[Workload] = BuildingTable /\ spent[Workload] \in SUBSET Pairs
      /\ Buried(BuildingTable, spent[Workload])
      /\ caps \in [Tasks -> Tables] /\ reply \in [Tasks -> Replies]
      /\ ScheduleOK(state, queue) /\ state \in [Tasks -> TaskStates]
      /\ state[Supervisor] = "Running" /\ caps[Supervisor].state = "Live" /\ ~failed
  <2>1. RuntimeInv /\ BrokerInv
    BY DEF SupInv
  <2>2. caps[Workload] = BuildingTable /\ BuildingTable.state = "Building"
    BY <2>1, BuildingTableIsOK, Zenon DEF BrokerInv
  <2>3. /\ spent[Workload] \in SUBSET Pairs
        /\ caps[Workload].state # "Dead" => Buried(caps[Workload], spent[Workload])
    BY <2>1, RoleFacts, Zenon DEF RuntimeInv
  <2>4. Buried(BuildingTable, spent[Workload])
    BY <2>2, <2>3
  <2>5. state[Supervisor] = "Running" /\ ~failed
    BY DEF Runs
  <2>6. caps[Supervisor].state = "Live"
    BY <2>1, <2>5, RoleFacts, TableStates7 DEF RuntimeInv
  <2> QED
    BY <2>1, <2>2, <2>3, <2>4, <2>5, <2>6, Zenon DEF RuntimeInv, ScheduleOK
<1>2. /\ caps' = [caps EXCEPT ![Workload] = new]
      /\ manifest' = TRUE
      /\ state' = [state EXCEPT ![Workload] = "Ready"]
      /\ queue' = Append(queue, Workload)
      /\ reply' = [reply EXCEPT ![t] = Reply("Ok", 0)]
      /\ spent' = spent /\ failed' = failed /\ broker' = broker /\ effect' = effect
  BY <1>1 DEF Launch, WakeState
<1>3. TableOK(new) /\ new.state = "Live" /\ ConfinedTo(new, {"Submit"})
      /\ Buried(new, spent[Workload])
  BY <1>1, LaunchedTable
<1> HIDE DEF new
<1>4. ScheduleOK(state', queue')
  BY <1>1, <1>2, RoleFacts, EnqueueKeepsSchedule, Zenon
<1>5. /\ state'[Workload] = "Ready" /\ state'[Supervisor] = "Running"
      /\ caps'[Workload] = new /\ caps'[Supervisor] = caps[Supervisor]
      /\ caps' \in [Tasks -> Tables]
  BY <1>1, <1>2, <1>3, RoleFacts DEF TableOK
<1>6. reply' \in [Tasks -> Replies]
  <2>1. Reply("Ok", 0) \in Replies
    BY ReplyType DEF Statuses
  <2> QED
    BY <1>1, <1>2, <2>1
<1>7. \A u \in Tasks :
          /\ TableOK(caps'[u])
          /\ caps'[u].state \in TableStateOf[state'[u]]
          /\ ConfinedTo(caps'[u], RoleRights(u))
          /\ caps'[u].state # "Dead" => Buried(caps'[u], spent'[u])
  <2>1. /\ TableOK(caps'[Workload])
        /\ caps'[Workload].state \in TableStateOf[state'[Workload]]
        /\ ConfinedTo(caps'[Workload], RoleRights(Workload))
        /\ Buried(caps'[Workload], spent'[Workload])
    BY <1>2, <1>3, <1>5, RoleFacts, TableStates7 DEF RoleRights
  <2>2. /\ TableOK(caps'[Supervisor])
        /\ caps'[Supervisor].state \in TableStateOf[state'[Supervisor]]
        /\ ConfinedTo(caps'[Supervisor], RoleRights(Supervisor))
        /\ caps'[Supervisor].state # "Dead" => Buried(caps'[Supervisor], spent'[Supervisor])
    BY <1>1, <1>2, <1>5, RoleFacts, TableStates7 DEF SupInv, RuntimeInv
  <2> QED
    BY <2>1, <2>2, RoleFacts
<1>8. RuntimeInv'
  BY <1>2, <1>4, <1>5, <1>6, <1>7, RoleFacts DEF SupInv, RuntimeInv
<1>9. BrokerInv'
  BY <1>1, <1>2, <1>3, <1>5 DEF SupInv, BrokerInv
<1> QED
  BY <1>8, <1>9 DEF SupInv

(* StartTask: the run queue has room for a staged workload. *)
LEMMA StartSup ==
    ASSUME SupInv, NEW t \in Tasks, NEW raw \in Handles, NEW registered \in BOOLEAN,
           StartTrap(t, raw, registered)
    PROVE  SupInv'
<1> DEFINE status == StartStatus(t, raw, registered)
<1>1. Runs(t)
  BY DEF StartTrap
<1>2. status \in Statuses /\ (status = "Ok" => t = Supervisor /\ state[Workload] = "Staged")
  BY <1>1, StartStatuses
<1>3. CASE status # "Ok"
  <2>1. Reject(t, status) /\ UNCHANGED brokerVars
    BY <1>3 DEF StartTrap, RejectSupervised
  <2> HIDE DEF status
  <2> QED
    BY <1>1, <1>2, <2>1, RejectSup
<1>4. CASE status = "Ok"
  <2>1. CanPush(queue, Workload)
    BY <1>2, <1>4, RoleFacts, EnqueueKeepsSchedule, Zenon DEF SupInv, RuntimeInv
  <2>2. Launch(t)
    BY <1>4, <2>1 DEF StartTrap
  <2> QED
    BY <1>1, <1>2, <1>4, <2>2, LaunchSup
<1> QED
  BY <1>3, <1>4
-----------------------------------------------------------------------------
(* What an accepted Submit says. *)
LEMMA SubmitStatuses ==
    ASSUME SupInv, NEW t \in Tasks, Runs(t), NEW raw \in Handles, NEW kindKnown \in BOOLEAN
    PROVE  /\ SubmitStatus(t, raw, kindKnown) \in Statuses
           /\ SubmitStatus(t, raw, kindKnown) = "Ok" =>
                 /\ t = Workload /\ broker.state = "Empty" /\ broker.epoch # EpochMax
                 /\ ~broker.exhausted
<1> DEFINE resolved == ResolveObject(t, raw, "Broker", "Submit", broker.state # "Dead")
<1>1. resolved \in {"Ok", "InvalidHandle", "WrongObject", "RightsDenied"}
  BY ObjectStatuses
<1>2. broker.state \in BrokerStates
  BY DEF SupInv, BrokerInv, RequestOK, Brokers
<1> HIDE DEF resolved
<1> QED
  BY <1>1, <1>2 DEF SubmitStatus, Statuses, BrokerStates, resolved

(* A workload that runs while the broker lives leaves the processor to a   *)
(* supervisor that is ready.                                               *)
LEMMA BlockingDispatches ==
    ASSUME SupInv, Runs(Workload), broker.state # "Dead"
    PROVE  LET st == BlockForApproval(Workload)
           IN  /\ Dispatchable(st, queue)
               /\ ScheduleOK(Dispatched(st, queue), Tail(queue))
               /\ Dispatched(st, queue)[Supervisor] = "Running"
               /\ Dispatched(st, queue)[Workload] = "BlockedApproval"
               /\ state[Supervisor] = "Ready"
<1> DEFINE st == BlockForApproval(Workload)
<1>1. ScheduleOK(state, queue) /\ state[Workload] = "Running"
  BY DEF SupInv, RuntimeInv, Runs
<1>2. state[Supervisor] = "Ready"
  <2>1. state[Supervisor] \in TaskStates /\ state[Supervisor] \notin {"Running", "Exited"}
    BY <1>1, RoleFacts DEF ScheduleOK
  <2>2. state[Supervisor] \notin {"Staged", "BlockedApproval", "BlockedReceive", "Dead"}
    BY RoleFacts DEF SupInv, RuntimeInv, BrokerInv
  <2> QED
    BY <2>1, <2>2 DEF TaskStates
<1>3. ScheduleOK(st, queue) /\ queue # <<>>
  BY <1>1, <1>2, RoleFacts, ParkKeepsSchedule, ReadyIsQueued DEF BlockForApproval, TaskStates
<1>4. st[Workload] = "BlockedApproval" /\ st[Supervisor] = "Ready"
  BY <1>1, <1>2, RoleFacts DEF BlockForApproval, ScheduleOK
<1>5. \A u \in Tasks : st[u] \notin {"Running", "Exited"}
  BY <1>4, RoleFacts
<1> HIDE DEF st
<1>6. /\ Dispatchable(st, queue)
      /\ Head(queue) \in Tasks /\ st[Head(queue)] = "Ready"
      /\ ScheduleOK(Dispatched(st, queue), Tail(queue))
      /\ \A u \in Tasks :
            Dispatched(st, queue)[u] = IF u = Head(queue) THEN "Running" ELSE st[u]
  BY <1>3, <1>5, DispatchKeepsSchedule
<1>7. Head(queue) = Supervisor
  BY <1>4, <1>6, RoleFacts
<1> QED
  BY <1>2, <1>4, <1>6, <1>7, RoleFacts DEF st

(* The broker after Submit. *)
LEMMA SubmitBroker ==
    ASSUME SupInv, broker.state = "Empty", broker.epoch # EpochMax, NEW t,
           NEW argument \in Arguments, Submit(t, argument)
    PROVE  /\ RequestOK(broker') /\ broker'.state = "Pending" /\ broker'.present = TRUE
           /\ broker'.sequence = broker.nextSequence /\ broker'.epoch = broker.epoch + 1
           /\ broker'.argument = argument
           /\ broker'.nextSequence = IF broker.nextSequence = SequenceMax THEN SequenceMax
                                     ELSE broker.nextSequence + 1
<1> DEFINE following == IF broker.nextSequence = SequenceMax THEN broker.nextSequence
                        ELSE broker.nextSequence + 1
<1>1. RequestOK(broker) /\ broker \in Brokers /\ broker.nextSequence # 0
  BY DEF SupInv, BrokerInv, RequestOK
<1>2. following \in 0 .. SequenceMax /\ following # 0
  BY <1>1, SupervisedAssumption DEF Brokers
<1>3. PICK last \in BOOLEAN : last = (broker.nextSequence = SequenceMax)
  BY Zenon
<1>4. broker' = [broker EXCEPT !.state = "Pending", !.present = TRUE,
                     !.sequence = broker.nextSequence, !.argument = argument,
                     !.epoch = @ + 1, !.exhausted = last, !.nextSequence = following]
  BY <1>3, Zenon DEF Submit
<1>5. following = IF broker.nextSequence = SequenceMax THEN SequenceMax
                  ELSE broker.nextSequence + 1
  OBVIOUS
<1> HIDE DEF following
<1>6. /\ broker.epoch # 0 /\ broker.approval = 0 /\ broker.expiry = 0
      /\ broker.epoch + 1 \in 0 .. EpochMax /\ broker.nextSequence \in 0 .. SequenceMax
      /\ broker.epoch + 1 # 0
  BY <1>1, SupervisedAssumption DEF Brokers, RequestOK, Blank
<1>7. broker' = [state |-> "Pending", present |-> TRUE, sequence |-> broker.nextSequence,
                 argument |-> argument, nextSequence |-> following, exhausted |-> last,
                 epoch |-> broker.epoch + 1, approval |-> 0, expiry |-> 0,
                 bound |-> broker.bound]
  BY <1>1, <1>4, <1>6, Zenon DEF Brokers
<1>8. broker' \in Brokers
  BY <1>1, <1>2, <1>6, <1>7 DEF Brokers, BrokerStates
<1>9. /\ broker'.state = "Pending" /\ broker'.present = TRUE
      /\ broker'.sequence = broker.nextSequence /\ broker'.epoch = broker.epoch + 1
      /\ broker'.nextSequence = following /\ broker'.argument = argument
      /\ broker'.approval = 0 /\ broker'.expiry = 0
  BY <1>7
<1>10. RequestOK(broker')
  BY <1>1, <1>2, <1>6, <1>8, <1>9 DEF RequestOK
<1> QED
  BY <1>5, <1>9, <1>10

(* Submitting blocks the workload and hands the processor over. *)
LEMMA SubmitKeeps ==
    ASSUME SupInv, NEW t \in Tasks, t = Workload, Runs(t),
           broker.state = "Empty", broker.epoch # EpochMax,
           NEW argument \in Arguments, Submit(t, argument)
    PROVE  SupInv'
<1> DEFINE st == BlockForApproval(Workload)
<1>1. /\ Dispatchable(st, queue)
      /\ ScheduleOK(Dispatched(st, queue), Tail(queue))
      /\ Dispatched(st, queue)[Supervisor] = "Running"
      /\ Dispatched(st, queue)[Workload] = "BlockedApproval"
      /\ state[Supervisor] = "Ready"
  BY BlockingDispatches
<1>2. /\ state' = Dispatched(st, queue) /\ queue' = Tail(queue)
      /\ reply' = [reply EXCEPT ![t] = NoReply]
      /\ caps' = caps /\ spent' = spent /\ failed' = failed
      /\ effect' = effect /\ manifest' = manifest
  BY DEF Submit, Switch
<1> HIDE DEF st
<1>3. RequestOK(broker') /\ broker'.state = "Pending"
  BY SubmitBroker, Zenon
<1>4. reply' \in [Tasks -> Replies]
  BY <1>2, NoReplyType DEF SupInv, RuntimeInv
<1>5. /\ state'[Supervisor] = "Running" /\ state'[Workload] = "BlockedApproval"
      /\ caps[Supervisor].state = "Live" /\ caps[Workload].state = "Live" /\ ~failed
  BY <1>1, <1>2, RoleFacts, TableStates7 DEF SupInv, RuntimeInv, Runs
<1>6. RuntimeInv'
  <2>1. \A u \in Tasks : /\ caps[u].state \in TableStateOf[state'[u]]
                         /\ state'[u] # "BlockedReceive"
    BY <1>5, RoleFacts, TableStates7
  <2> QED
    BY <1>1, <1>2, <1>4, <1>5, <2>1, ScheduleStepRuntime DEF SupInv
<1>7. BrokerInv'
  BY <1>2, <1>3, <1>5 DEF SupInv, BrokerInv
<1> QED
  BY <1>6, <1>7 DEF SupInv

(* SubmitRequest. *)
LEMMA SubmitSup ==
    ASSUME SupInv, NEW t \in Tasks, NEW raw \in Handles, NEW kindKnown \in BOOLEAN,
           NEW argument \in Arguments, SubmitTrap(t, raw, kindKnown, argument)
    PROVE  SupInv'
<1> DEFINE status == SubmitStatus(t, raw, kindKnown)
<1>1. Runs(t)
  BY DEF SubmitTrap
<1>2. status \in Statuses /\ (status = "Ok" => /\ t = Workload /\ broker.state = "Empty"
                                              /\ broker.epoch # EpochMax)
  BY <1>1, SubmitStatuses
<1>3. CASE status # "Ok"
  <2>1. Reject(t, status) /\ UNCHANGED brokerVars
    BY <1>3 DEF SubmitTrap, RejectSupervised
  <2> HIDE DEF status
  <2> QED
    BY <1>1, <1>2, <2>1, RejectSup
<1>4. CASE status = "Ok"
  <2>1. Dispatchable(BlockForApproval(Workload), queue)
    BY <1>1, <1>2, <1>4, BlockingDispatches
  <2>2. Submit(t, argument)
    BY <1>2, <1>4, <2>1 DEF SubmitTrap
  <2> QED
    BY <1>1, <1>2, <1>4, <2>2, SubmitKeeps
<1> QED
  BY <1>3, <1>4

(* InspectRequest. *)
LEMMA InspectSup ==
    ASSUME SupInv, NEW t \in Tasks, NEW raw \in Handles, InspectTrap(t, raw)
    PROVE  SupInv'
<1> DEFINE status == InspectStatus(t, raw)
           result == [status |-> "Ok", out |-> <<broker.sequence, 1, broker.argument>>]
<1>1. Runs(t) /\ UNCHANGED brokerVars
  BY DEF InspectTrap
<1>2. status \in Statuses
  <2> DEFINE resolved == ResolveObject(t, raw, "Broker", "Decide", broker.state # "Dead")
  <2>1. resolved \in {"Ok", "InvalidHandle", "WrongObject", "RightsDenied"}
    BY ObjectStatuses
  <2> HIDE DEF resolved
  <2> QED
    BY <2>1 DEF InspectStatus, Statuses, resolved
<1>3. CASE status # "Ok"
  <2>1. Reject(t, status)
    BY <1>3 DEF InspectTrap
  <2> HIDE DEF status
  <2> QED
    BY <1>1, <1>2, <2>1, RejectSup
<1>4. CASE status = "Ok"
  <2>1. Resume(t, result)
    BY <1>4 DEF InspectTrap
  <2>2. broker.sequence \in Nat /\ broker.argument \in Nat
    <3>1. broker \in Brokers
      BY DEF SupInv, BrokerInv, RequestOK
    <3>2. broker.sequence \in 0 .. SequenceMax /\ broker.argument \in Arguments \cup {0}
      BY <3>1, Zenon DEF Brokers
    <3>3. broker.sequence \in Nat
      BY <3>2, SupervisedAssumption
    <3>4. broker.argument \in Nat
      <4>1. Arguments \subseteq Nat /\ 0 \in Nat
        BY SupervisedAssumption
      <4> QED
        BY <3>2, <4>1, Zenon
    <3> QED
      BY <3>3, <3>4
  <2>3. <<broker.sequence, 1, broker.argument>> \in Seq(Nat)
    BY <2>2
  <2>4. result \in Replies
    BY <2>3 DEF Replies, Statuses
  <2> HIDE DEF result
  <2> QED
    BY <1>1, <2>1, <2>4, ResumeSup
<1> QED
  BY <1>3, <1>4
-----------------------------------------------------------------------------
(* What an accepted Decide says. *)
LEMMA DecideStatuses ==
    ASSUME SupInv, NEW t \in Tasks, Runs(t), NEW raw \in Handles, NEW sequence,
           NEW decision \in Decisions
    PROVE  /\ DecideStatus(t, raw, sequence, decision) \in Statuses
           /\ DecideStatus(t, raw, sequence, decision) = "Ok" =>
                 /\ t = Supervisor /\ broker.sequence = sequence
                 /\ broker.state \in {"Pending", "Approved"}
                 /\ decision \in {"Approve", "Deny", "Expire"}
                 /\ decision \in {"Approve", "Deny"} => broker.state = "Pending"
<1> DEFINE resolved == ResolveObject(t, raw, "Broker", "Decide", broker.state # "Dead")
<1>1. /\ resolved \in {"Ok", "InvalidHandle", "WrongObject", "RightsDenied"}
      /\ resolved = "Ok" => "Decide" \in RoleRights(t)
  BY ObjectStatuses, ObjectRole DEF SupInv
<1>2. resolved = "Ok" => t = Supervisor
  BY <1>1, RoleFacts DEF RoleRights
<1> HIDE DEF resolved
<1>3. CASE resolved # "Ok"
  BY <1>1, <1>3 DEF DecideStatus, Statuses, resolved
<1>4. CASE resolved = "Ok" /\ broker.state \in {"Closing", "Dead"}
  BY <1>4 DEF DecideStatus, Statuses, resolved
<1>5. CASE resolved = "Ok" /\ broker.state \notin {"Closing", "Dead"}
  <2>1. DecideStatus(t, raw, sequence, decision) =
          IF ~broker.present \/ broker.sequence # sequence THEN "ApprovalMismatch"
          ELSE IF \/ decision \in {"Approve", "Deny"} /\ broker.state = "Pending"
                  \/ decision = "Expire" /\ broker.state \in {"Pending", "Approved"}
          THEN "Ok"
          ELSE "InvalidRequest"
    BY <1>5 DEF DecideStatus, resolved
  <2> QED
    BY <1>2, <1>5, <2>1 DEF Statuses, Decisions
<1> QED
  BY <1>3, <1>4, <1>5

(* What an accepted Commit, or one that finds the cell occupied, says. *)
LEMMA CommitStatuses ==
    ASSUME SupInv, NEW t \in Tasks, Runs(t), NEW raw \in Handles, NEW sequence, NEW argument
    PROVE  /\ CommitStatus(t, raw, sequence, argument) \in Statuses
           /\ CommitStatus(t, raw, sequence, argument) \in {"Ok", "EffectUnavailable"} =>
                 /\ t = Supervisor /\ broker.state = "Approved" /\ effect.live
                 /\ broker.sequence = sequence /\ broker.argument = argument
           /\ CommitStatus(t, raw, sequence, argument) = "Ok" => ~effect.occupied
           /\ CommitStatus(t, raw, sequence, argument) = "EffectUnavailable" => effect.occupied
<1> DEFINE resolved == ResolveObject(t, raw, "Effect", "Commit", effect.live)
<1>1. /\ resolved \in {"Ok", "InvalidHandle", "WrongObject", "RightsDenied"}
      /\ resolved = "Ok" => effect.live /\ "Commit" \in RoleRights(t)
  BY ObjectStatuses, ObjectRole DEF SupInv
<1>2. resolved = "Ok" => t = Supervisor
  BY <1>1, RoleFacts DEF RoleRights
<1> HIDE DEF resolved
<1>3. CASE resolved # "Ok"
  BY <1>1, <1>3 DEF CommitStatus, Statuses, resolved
<1>4. CASE resolved = "Ok" /\ ~(/\ broker.state = "Approved" /\ broker.present
                               /\ broker.sequence = sequence /\ broker.argument = argument)
  BY <1>4 DEF CommitStatus, Statuses, resolved
<1>5. CASE resolved = "Ok" /\ (/\ broker.state = "Approved" /\ broker.present
                              /\ broker.sequence = sequence /\ broker.argument = argument)
  <2>1. CommitStatus(t, raw, sequence, argument) =
          IF effect.occupied THEN "EffectUnavailable"
          ELSE IF broker.epoch + 1 = broker.expiry THEN "Ok"
          ELSE "ApprovalExpired"
    BY <1>5 DEF CommitStatus, resolved
  <2> QED
    BY <1>1, <1>2, <1>5, <2>1 DEF Statuses
<1> QED
  BY <1>3, <1>4, <1>5

(* Approving leaves the workload blocked. *)
LEMMA ApproveKeeps ==
    ASSUME SupInv, NEW t \in Tasks, Runs(t), broker.state = "Pending",
           broker.epoch # EpochMax, broker.epoch + 1 # EpochMax, Approve(t)
    PROVE  /\ SupInv' /\ broker'.state = "Approved" /\ broker'.present = TRUE
           /\ broker'.sequence = broker.sequence /\ broker'.epoch = broker.epoch + 1
           /\ broker'.nextSequence = broker.nextSequence
<1>1. /\ broker' = [Advanced(broker) EXCEPT !.state = "Approved",
                       !.approval = broker.epoch + 1, !.expiry = broker.epoch + 2]
      /\ reply' = [reply EXCEPT ![t] = Reply("Ok", 0)]
      /\ state' = state /\ queue' = queue /\ caps' = caps /\ spent' = spent
      /\ failed' = failed /\ effect' = effect /\ manifest' = manifest
  BY DEF Approve, Resume
<1>2. RequestOK(broker)
  BY DEF SupInv, BrokerInv
<1>3. /\ RequestOK(broker') /\ broker'.state = "Approved" /\ broker'.present = TRUE
      /\ broker'.sequence = broker.sequence /\ broker'.epoch = broker.epoch + 1
      /\ broker'.nextSequence = broker.nextSequence
  BY <1>1, <1>2, ApprovedBroker, Zenon
<1>4. reply' \in [Tasks -> Replies]
  <2>1. Reply("Ok", 0) \in Replies
    BY ReplyType DEF Statuses
  <2> QED
    BY <1>1, <2>1 DEF SupInv, RuntimeInv
<1>5. RuntimeInv'
  BY <1>1, <1>4, ScheduleStepRuntime DEF SupInv, RuntimeInv
<1>6. BrokerInv'
  <2>1. broker.state # "Dead"
    OBVIOUS
  <2>2. caps[Supervisor].state # "Closing"
    BY DEF SupInv, BrokerInv
  <2> QED
    BY <1>1, <1>3, <2>2 DEF SupInv, BrokerInv
<1> QED
  BY <1>3, <1>5, <1>6 DEF SupInv

(* The end of a request advances the epoch and empties the broker. *)
LEMMA EndedRequest ==
    ASSUME SupInv, broker.state \in {"Pending", "Approved"}, broker.epoch # EpochMax,
           broker' = [Cleared(Advanced(broker)) EXCEPT !.state = "Empty"]
    PROVE  /\ RequestOK(broker') /\ broker'.state = "Empty" /\ broker'.present = FALSE
           /\ broker'.epoch = broker.epoch + 1 /\ broker'.nextSequence = broker.nextSequence
<1> DEFINE b == Advanced(broker)
<1>1. broker \in Brokers /\ broker.nextSequence # 0
  BY DEF SupInv, BrokerInv, RequestOK
<1>2. b \in Brokers /\ b.epoch = broker.epoch + 1 /\ b.epoch # 0
      /\ b.nextSequence = broker.nextSequence
  BY <1>1, AdvancedBroker
<1>3. broker' = Ended(b, "Empty")
  BY DEF Ended
<1> HIDE DEF b
<1> DEFINE new == Ended(b, "Empty")
<1>4. /\ RequestOK(new) /\ new.state = "Empty" /\ new.epoch = b.epoch
      /\ new.nextSequence = b.nextSequence /\ new.present = FALSE
  BY <1>1, <1>2, EndedBroker, Zenon
<1> HIDE DEF new
<1> QED
  BY <1>2, <1>3, <1>4, Zenon DEF new

(* Both results of a call that ends a request are well formed. *)
LEMMA WakeReplies ==
    ASSUME SupInv, NEW t \in Tasks, NEW result \in Replies, NEW own \in Replies,
           WakeWorkload(t, result, own)
    PROVE  /\ reply' \in [Tasks -> Replies]
           /\ state' = WakeState(Workload) /\ queue' = Append(queue, Workload)
           /\ t # Workload => reply'[Workload] = result
BY RoleFacts DEF SupInv, RuntimeInv, WakeWorkload

(* Denying or expiring ends the request. *)
LEMMA RefuseKeeps ==
    ASSUME SupInv, NEW t \in Tasks, t = Supervisor, Runs(t),
           broker.state \in {"Pending", "Approved"}, broker.epoch # EpochMax,
           NEW decision \in {"Deny", "Expire"}, Refuse(t, decision)
    PROVE  /\ SupInv' /\ broker'.state = "Empty" /\ broker'.present = FALSE
           /\ broker'.epoch = broker.epoch + 1 /\ broker'.nextSequence = broker.nextSequence
           /\ reply'[Workload] = Reply(Refusal[decision], 0)
           /\ effect' = effect
<1> DEFINE result == Reply(Refusal[decision], 0)
           own == Reply("Ok", 0)
<1>1. /\ broker' = [Cleared(Advanced(broker)) EXCEPT !.state = "Empty"]
      /\ WakeWorkload(t, result, own)
      /\ UNCHANGED <<caps, spent, failed, manifest>> /\ effect' = effect
  BY DEF Refuse, EndRequest
<1>2. result \in Replies /\ own \in Replies
  <2>1. Refusal[decision] \in Statuses /\ "Ok" \in Statuses
    BY DEF Refusal, Statuses
  <2> QED
    BY <2>1, ReplyType
<1> HIDE DEF result, own
<1>3. /\ reply' \in [Tasks -> Replies] /\ reply'[Workload] = result
      /\ state' = WakeState(Workload) /\ queue' = Append(queue, Workload)
  BY <1>1, <1>2, WakeReplies, RoleFacts
<1>4. /\ RequestOK(broker') /\ broker'.state = "Empty" /\ broker'.present = FALSE
      /\ broker'.epoch = broker.epoch + 1 /\ broker'.nextSequence = broker.nextSequence
  BY <1>1, EndedRequest, Zenon
<1>5. CellOK(effect')
  BY <1>1 DEF SupInv, BrokerInv
<1> QED
  BY <1>1, <1>3, <1>4, <1>5, WakeSup DEF result

(* Committing writes the cell and ends the request. *)
LEMMA CommitKeeps ==
    ASSUME SupInv, NEW t \in Tasks, t = Supervisor, Runs(t),
           broker.state = "Approved", broker.epoch # EpochMax, effect.live,
           NEW argument \in Arguments, Commit(t, argument)
    PROVE  /\ SupInv' /\ broker'.state = "Empty" /\ broker'.present = FALSE
           /\ broker'.epoch = broker.epoch + 1 /\ broker'.nextSequence = broker.nextSequence
           /\ reply'[Workload] = Reply("Ok", argument)
           /\ effect'.occupied = TRUE /\ effect'.value = argument
<1> DEFINE result == Reply("Ok", argument)
           own == Reply("Ok", 0)
<1>1. /\ effect' = [effect EXCEPT !.occupied = TRUE, !.value = argument]
      /\ broker' = [Cleared(Advanced(broker)) EXCEPT !.state = "Empty"]
      /\ WakeWorkload(t, result, own)
      /\ UNCHANGED <<caps, spent, failed, manifest>>
  BY DEF Commit, EndRequest
<1>2. result \in Replies /\ own \in Replies
  BY SupervisedAssumption, ReplyType DEF Statuses
<1> HIDE DEF result, own
<1>3. /\ reply' \in [Tasks -> Replies] /\ reply'[Workload] = result
      /\ state' = WakeState(Workload) /\ queue' = Append(queue, Workload)
  BY <1>1, <1>2, WakeReplies, RoleFacts
<1>4. /\ RequestOK(broker') /\ broker'.state = "Empty" /\ broker'.present = FALSE
      /\ broker'.epoch = broker.epoch + 1 /\ broker'.nextSequence = broker.nextSequence
  BY <1>1, EndedRequest, Zenon
<1>5. CellOK(effect') /\ effect'.value = argument /\ effect'.occupied = TRUE
  <2>1. effect' = Written(effect, argument)
    BY <1>1 DEF Written
  <2> DEFINE new == Written(effect, argument)
  <2>2. CellOK(new) /\ new.value = argument /\ new.occupied = TRUE
    BY WrittenCell, Zenon DEF SupInv, BrokerInv
  <2> HIDE DEF new
  <2> QED
    BY <2>1, <2>2 DEF new
<1> QED
  BY <1>1, <1>3, <1>4, <1>5, WakeSup DEF result

(* An exhausted epoch closes the broker and wakes the workload. *)
LEMMA ExhaustKeeps ==
    ASSUME SupInv, NEW t \in Tasks, t = Supervisor, Runs(t),
           broker.state \in {"Pending", "Approved"}, ExhaustEpoch(t)
    PROVE  SupInv'
<1> DEFINE result == Reply("BrokerUnavailable", 0)
<1>1. state[Workload] = "BlockedApproval" /\ broker \in Brokers
      /\ broker.nextSequence # 0 /\ broker.epoch # 0 /\ CellOK(effect)
  BY HeldRequest, Zenon DEF SupInv, BrokerInv, RequestOK
<1>2. /\ broker' = Ended(broker, "Closing")
      /\ WakeWorkload(t, result, result)
      /\ UNCHANGED <<caps, spent, failed, manifest>> /\ effect' = effect
  BY <1>1 DEF ExhaustEpoch, Ended
<1>3. result \in Replies
  BY ReplyType DEF Statuses
<1> HIDE DEF result
<1>4. /\ reply' \in [Tasks -> Replies]
      /\ state' = WakeState(Workload) /\ queue' = Append(queue, Workload)
  BY <1>2, <1>3, WakeReplies
<1> DEFINE new == Ended(broker, "Closing")
<1>5. RequestOK(new) /\ new.state = "Closing"
  BY <1>1, EndedBroker, Zenon
<1> HIDE DEF new
<1> QED
  BY <1>1, <1>2, <1>4, <1>5, WakeSup DEF new

(* DecideRequest. *)
LEMMA DecideSup ==
    ASSUME SupInv, NEW t \in Tasks, NEW raw \in Handles, NEW sequence,
           NEW decision \in Decisions, DecideTrap(t, raw, sequence, decision)
    PROVE  SupInv'
<1> DEFINE status == DecideStatus(t, raw, sequence, decision)
<1>1. Runs(t)
  BY DEF DecideTrap
<1>2. /\ status \in Statuses
      /\ status = "Ok" => /\ t = Supervisor /\ broker.state \in {"Pending", "Approved"}
                          /\ decision \in {"Approve", "Deny", "Expire"}
                          /\ decision = "Approve" => broker.state = "Pending"
  BY <1>1, DecideStatuses
<1>3. CASE status # "Ok"
  <2>1. Reject(t, status) /\ UNCHANGED brokerVars
    BY <1>3 DEF DecideTrap, RejectSupervised
  <2> HIDE DEF status
  <2> QED
    BY <1>1, <1>2, <2>1, RejectSup
<1>4. CASE status = "Ok"
  <2>1. CanWake
    BY <1>2, <1>4, HeldRequest
  <2>2. CASE EpochExhausted(decision)
    BY <1>1, <1>2, <1>4, <2>1, <2>2, ExhaustKeeps DEF DecideTrap
  <2>3. CASE ~EpochExhausted(decision) /\ decision = "Approve"
    BY <1>1, <1>2, <1>4, <2>3, ApproveKeeps, Zenon DEF DecideTrap, EpochExhausted
  <2>4. CASE ~EpochExhausted(decision) /\ decision # "Approve"
    <3>1. Refuse(t, decision) /\ decision \in {"Deny", "Expire"} /\ broker.epoch # EpochMax
      BY <1>2, <1>4, <2>1, <2>4 DEF DecideTrap, EpochExhausted
    <3> QED
      BY <1>1, <1>2, <1>4, <3>1, RefuseKeeps, Zenon
  <2> QED
    BY <2>2, <2>3, <2>4
<1> QED
  BY <1>3, <1>4

(* An approval leaves room for the epoch its end takes. *)
LEMMA ApprovedEpoch ==
    ASSUME SupInv, broker.state = "Approved"
    PROVE  broker.epoch # EpochMax /\ broker.epoch + 1 = broker.expiry
<1>1. broker \in Brokers /\ broker.expiry = broker.epoch + 1
  BY DEF SupInv, BrokerInv, RequestOK
<1>2. broker.expiry \in 0 .. EpochMax /\ broker.epoch \in 0 .. EpochMax
  BY <1>1, Zenon DEF Brokers
<1> QED
  BY <1>1, <1>2, SupervisedAssumption

(* CommitEffect. *)
LEMMA CommitSup ==
    ASSUME SupInv, NEW t \in Tasks, NEW raw \in Handles, NEW sequence,
           NEW argument \in Arguments, CommitTrap(t, raw, sequence, argument)
    PROVE  SupInv'
<1> DEFINE status == CommitStatus(t, raw, sequence, argument)
<1>1. Runs(t)
  BY DEF CommitTrap
<1>2. /\ status \in Statuses
      /\ status = "Ok" => /\ t = Supervisor /\ broker.state = "Approved" /\ effect.live
  BY <1>1, CommitStatuses
<1>3. CASE status # "Ok"
  <2>1. Reject(t, status) /\ UNCHANGED brokerVars
    BY <1>3 DEF CommitTrap, RejectSupervised
  <2> HIDE DEF status
  <2> QED
    BY <1>1, <1>2, <2>1, RejectSup
<1>4. CASE status = "Ok"
  <2>1. CanWake /\ broker.epoch # EpochMax
    BY <1>2, <1>4, HeldRequest, ApprovedEpoch
  <2>2. Commit(t, argument)
    BY <1>4, <2>1 DEF CommitTrap
  <2> QED
    BY <1>1, <1>2, <1>4, <2>1, <2>2, CommitKeeps, Zenon
<1> QED
  BY <1>3, <1>4
-----------------------------------------------------------------------------
(* begin_teardown of the supervisor closes the broker, reclaims the cell   *)
(* and wakes a workload that waits; its caller may have dated the broker's *)
(* last transition first.                                                  *)
LEMMA CloseSupervisorKeeps ==
    ASSUME SupInv, Tearing(Supervisor, "Live"),
           NEW advanced \in Brokers, advanced.nextSequence # 0, advanced.epoch # 0,
           advanced.bound = broker.bound, CloseSupervisor(advanced)
    PROVE  SupInv' /\ broker'.state = "Closing" /\ broker'.present = FALSE
<1> DEFINE bound == broker.bound \ {Supervisor}
           waits == state[Workload] = "BlockedApproval"
<1>1. /\ state[Supervisor] = "Exited" /\ caps[Supervisor].state = "Live" /\ ~failed
      /\ ScheduleOK(state, queue) /\ caps \in [Tasks -> Tables]
      /\ spent \in [Tasks -> SUBSET Pairs] /\ reply \in [Tasks -> Replies]
      /\ TableOK(caps[Supervisor]) /\ Buried(caps[Supervisor], spent[Supervisor])
  BY RoleFacts DEF SupInv, RuntimeInv, Tearing
<1>2. /\ CloseTable(Supervisor)
      /\ broker' = Unbound(advanced, "Closing", bound)
      /\ effect' = NoEffect /\ failed' = failed /\ manifest' = manifest
  <2>1. [Cleared(advanced) EXCEPT !.state = "Closing", !.bound = @ \ {Supervisor}] =
            Unbound(advanced, "Closing", bound)
    <3>1. Cleared(advanced).bound = broker.bound
      BY DEF Cleared, Brokers
    <3> QED
      BY <3>1, Zenon DEF Unbound, Cleared, Brokers
  <2> QED
    BY <2>1 DEF CloseSupervisor
<1>3. /\ caps' \in [Tasks -> Tables] /\ spent' \in [Tasks -> SUBSET Pairs]
      /\ TableOK(caps'[Supervisor]) /\ caps'[Supervisor].state = "Closing"
      /\ NoEntries(caps'[Supervisor]) /\ Buried(caps'[Supervisor], spent'[Supervisor])
      /\ caps'[Workload] = caps[Workload] /\ spent'[Workload] = spent[Workload]
  BY <1>1, <1>2, RoleFacts, CloseTableSteps, ZenonT(30)
<1>4. RequestOK(broker') /\ broker'.state = "Closing" /\ broker'.present = FALSE
  <2>1. bound \in SUBSET Tasks
    BY DEF Brokers
  <2> HIDE DEF bound
  <2> DEFINE new == Unbound(advanced, "Closing", bound)
  <2>2. RequestOK(new) /\ new.state = "Closing" /\ new.present = FALSE
    BY <2>1, UnboundBroker, Zenon
  <2> HIDE DEF new
  <2> QED
    BY <1>2, <2>2 DEF new
<1>5. /\ ScheduleOK(state', queue')
      /\ \A u \in Tasks : state'[u] = IF waits /\ u = Workload THEN "Ready" ELSE state[u]
  <2>1. CASE waits
    <3>1. state' = [state EXCEPT ![Workload] = "Ready"] /\ queue' = Append(queue, Workload)
      BY <2>1 DEF CloseSupervisor, WakeState
    <3>2. state[Workload] # "Ready"
      BY <2>1
    <3>3. ScheduleOK(state', queue')
      BY <1>1, <3>1, <3>2, RoleFacts, EnqueueKeepsSchedule, Zenon
    <3>4. state \in [Tasks -> TaskStates]
      BY <1>1 DEF ScheduleOK
    <3> QED
      BY <2>1, <3>1, <3>3, <3>4
  <2>2. CASE ~waits
    BY <1>1, <2>2 DEF CloseSupervisor
  <2> QED
    BY <2>1, <2>2
<1>6. reply' \in [Tasks -> Replies]
  <2>1. TeardownStatus \in Statuses
    BY DEF TeardownStatus, Statuses
  <2>2. Reply(TeardownStatus, 0) \in Replies
    BY <2>1, ReplyType
  <2> QED
    BY <1>1, <2>2 DEF CloseSupervisor
<1>7. RuntimeInv'
  <2>1. /\ state'[Supervisor] = "Exited"
        /\ ConfinedTo(caps'[Supervisor], RoleRights(Supervisor))
    BY <1>1, <1>3, <1>5, RoleFacts, NoEntryFacts DEF NoEntries, ConfinedTo
  <2>2. caps'[Workload].state \in TableStateOf[state'[Workload]]
    BY <1>3, <1>5, RoleFacts, TableStates7, Zenon DEF SupInv, RuntimeInv
  <2>3. \A u \in Tasks :
          /\ TableOK(caps'[u])
          /\ caps'[u].state \in TableStateOf[state'[u]]
          /\ ConfinedTo(caps'[u], RoleRights(u))
          /\ caps'[u].state # "Dead" => Buried(caps'[u], spent'[u])
    <3>1. /\ TableOK(caps[Workload]) /\ ConfinedTo(caps[Workload], RoleRights(Workload))
          /\ caps[Workload].state # "Dead" => Buried(caps[Workload], spent[Workload])
      BY RoleFacts, Zenon DEF SupInv, RuntimeInv
    <3>2. /\ TableOK(caps'[Workload]) /\ ConfinedTo(caps'[Workload], RoleRights(Workload))
          /\ caps'[Workload].state # "Dead" => Buried(caps'[Workload], spent'[Workload])
      BY <1>3, <3>1, Zenon
    <3>3. caps'[Supervisor].state \in TableStateOf[state'[Supervisor]]
      BY <1>3, <2>1, TableStates7
    <3> QED
      BY <1>3, <2>1, <2>2, <3>2, <3>3, RoleFacts, Zenon
  <2>4. \A u \in Tasks : state'[u] # "BlockedReceive"
    BY <1>5, ZenonT(30) DEF SupInv, RuntimeInv
  <2>5. failed' \in BOOLEAN /\ state'[Supervisor] \notin {"Staged", "BlockedApproval"}
    BY <1>2, <2>1, ZenonT(30) DEF SupInv, RuntimeInv
  <2> QED
    BY <1>3, <1>5, <1>6, <2>3, <2>4, <2>5 DEF RuntimeInv
<1>8. BrokerInv'
  <2>1. state'[Supervisor] = "Exited" /\ state'[Workload] # "BlockedApproval"
        /\ (state'[Workload] = "Staged" => state[Workload] = "Staged")
    BY <1>1, <1>5, RoleFacts
  <2> QED
    BY <1>1, <1>2, <1>3, <1>4, <2>1, ReclaimedObjects, ZenonT(30) DEF SupInv, BrokerInv
<1> QED
  BY <1>4, <1>7, <1>8 DEF SupInv

(* The kernel's call of begin_teardown for the supervisor. *)
LEMMA BeginSupervisorSup == SupInv /\ BeginSupervisorTeardown => SupInv'
<1> SUFFICES ASSUME SupInv, BeginSupervisorTeardown PROVE SupInv'
  OBVIOUS
<1>1. Tearing(Supervisor, "Live")
  BY DEF BeginSupervisorTeardown
<1>2. state[Workload] = "BlockedApproval" => CanWake
  BY HeldRequest, Zenon DEF SupInv, BrokerInv
<1>3. CloseSupervisor(broker)
  BY <1>2 DEF BeginSupervisorTeardown
<1>4. state[Supervisor] = "Exited" /\ broker \in Brokers
      /\ broker.nextSequence # 0 /\ broker.epoch # 0
  BY <1>1 DEF Tearing, SupInv, BrokerInv, RequestOK
<1> QED
  BY <1>1, <1>3, <1>4, CloseSupervisorKeeps, Zenon

(* begin_teardown of the workload takes the manifest back and leaves the   *)
(* broker in the state it was in: an exited workload has no request.       *)
LEMMA WorkloadBroker ==
    ASSUME SupInv, state[Workload] = "Exited",
           NEW advanced \in Brokers, advanced.state = broker.state,
           advanced.bound = broker.bound,
           broker.state = "Dead" => advanced = broker,
           broker.state # "Dead" => advanced.nextSequence # 0 /\ advanced.epoch # 0,
           CloseWorkload(advanced)
    PROVE  RequestOK(broker') /\ broker'.state = broker.state /\ broker'.present = FALSE
<1> DEFINE bound == broker.bound \ {Workload}
<1>1. broker.state \in {"Empty", "Closing", "Dead"}
      /\ (broker.state = "Dead" <=> state[Supervisor] = "Dead")
      /\ (broker.state = "Dead" => broker = DeadBroker)
  BY DEF SupInv, BrokerInv, RequestOK, Brokers, BrokerStates
<1>2. Cleared(advanced).bound = broker.bound /\ Cleared(advanced).state = broker.state
  BY DEF Cleared, Brokers
<1>3. broker' = Unbound(advanced, broker.state, bound)
  <2>1. broker' = [Cleared(advanced) EXCEPT
                     !.state = CASE @ \in {"Closing", "Dead"}     -> @
                                 [] @ \notin {"Closing", "Dead"}
                                    /\ state[Supervisor] = "Dead" -> "Closing"
                                 [] OTHER                         -> "Empty",
                     !.bound = @ \ {Workload}]
    BY DEF CloseWorkload
  <2> QED
    BY <1>1, <1>2, <2>1, Zenon DEF Unbound, Cleared, Brokers
<1>4. CASE broker.state = "Dead"
  <2>1. advanced = DeadBroker /\ bound = {}
    BY <1>1, <1>4 DEF DeadBroker
  <2>2. broker' = Unbound(DeadBroker, "Dead", {})
    BY <1>3, <1>4, <2>1
  <2>3. broker' = DeadBroker
    BY <2>2, Zenon DEF Unbound, Cleared, DeadBroker
  <2> QED
    BY <1>4, <2>3, ReclaimedObjects DEF DeadBroker
<1>5. CASE broker.state # "Dead"
  <2>1. bound \in SUBSET Tasks
    BY DEF Brokers
  <2> HIDE DEF bound
  <2>0. PICK s \in {"Empty", "Closing"} : s = broker.state
    BY <1>1, <1>5
  <2> DEFINE new == Unbound(advanced, s, bound)
  <2>2. RequestOK(new) /\ new.state = s /\ new.present = FALSE
    BY <1>5, <2>1, UnboundBroker, Zenon
  <2> HIDE DEF new
  <2> QED
    BY <1>3, <2>0, <2>2 DEF new
<1> QED
  BY <1>4, <1>5, Zenon

(* begin_teardown of the workload. *)
LEMMA CloseWorkloadKeeps ==
    ASSUME SupInv, Tearing(Workload, "Live"),
           NEW advanced \in Brokers, advanced.state = broker.state,
           advanced.bound = broker.bound,
           broker.state = "Dead" => advanced = broker,
           broker.state # "Dead" => advanced.nextSequence # 0 /\ advanced.epoch # 0,
           CloseWorkload(advanced)
    PROVE  SupInv' /\ broker'.state = broker.state /\ broker'.present = FALSE
<1>1. /\ state[Workload] = "Exited" /\ caps[Workload].state = "Live" /\ ~failed
      /\ caps \in [Tasks -> Tables] /\ spent \in [Tasks -> SUBSET Pairs]
      /\ TableOK(caps[Workload]) /\ Buried(caps[Workload], spent[Workload])
  BY RoleFacts, Zenon DEF SupInv, RuntimeInv, Tearing
<1>2. /\ CloseTable(Workload) /\ effect' = effect /\ failed' = failed /\ manifest' = FALSE
      /\ state' = state /\ queue' = queue /\ reply' = reply
  BY DEF CloseWorkload
<1>3. /\ caps' \in [Tasks -> Tables] /\ spent' \in [Tasks -> SUBSET Pairs]
      /\ TableOK(caps'[Workload]) /\ caps'[Workload].state = "Closing"
      /\ NoEntries(caps'[Workload]) /\ Buried(caps'[Workload], spent'[Workload])
      /\ caps'[Supervisor] = caps[Supervisor] /\ spent'[Supervisor] = spent[Supervisor]
  BY <1>1, <1>2, RoleFacts, CloseTableSteps
<1>4. RequestOK(broker') /\ broker'.state = broker.state /\ broker'.present = FALSE
  BY <1>1, WorkloadBroker, Zenon
<1>5. RuntimeInv'
  <2>1. ConfinedTo(caps'[Workload], RoleRights(Workload))
    BY <1>3, NoEntryFacts DEF NoEntries, ConfinedTo
  <2>2. \A u \in Tasks :
          /\ TableOK(caps'[u])
          /\ caps'[u].state \in TableStateOf[state'[u]]
          /\ ConfinedTo(caps'[u], RoleRights(u))
          /\ caps'[u].state # "Dead" => Buried(caps'[u], spent'[u])
    <3>1. /\ TableOK(caps'[Workload])
          /\ caps'[Workload].state \in TableStateOf[state'[Workload]]
          /\ ConfinedTo(caps'[Workload], RoleRights(Workload))
          /\ Buried(caps'[Workload], spent'[Workload])
      <4>1. caps'[Workload].state \in TableStateOf[state'[Workload]]
        BY <1>1, <1>2, <1>3, TableStates7
      <4> QED
        BY <1>3, <2>1, <4>1, Zenon
    <3>2. /\ TableOK(caps'[Supervisor])
          /\ caps'[Supervisor].state \in TableStateOf[state'[Supervisor]]
          /\ ConfinedTo(caps'[Supervisor], RoleRights(Supervisor))
          /\ caps'[Supervisor].state # "Dead" => Buried(caps'[Supervisor], spent'[Supervisor])
      <4>1. /\ TableOK(caps[Supervisor])
            /\ caps[Supervisor].state \in TableStateOf[state[Supervisor]]
            /\ ConfinedTo(caps[Supervisor], RoleRights(Supervisor))
            /\ caps[Supervisor].state # "Dead" => Buried(caps[Supervisor], spent[Supervisor])
        BY RoleFacts, Zenon DEF SupInv, RuntimeInv
      <4> QED
        BY <1>2, <1>3, <4>1, Zenon
    <3> QED
      BY <3>1, <3>2, RoleFacts, Zenon
  <2> QED
    BY <1>2, <1>3, <2>2 DEF SupInv, RuntimeInv
<1>6. BrokerInv'
  BY <1>1, <1>2, <1>3, <1>4, Zenon DEF SupInv, BrokerInv
<1> QED
  BY <1>4, <1>5, <1>6 DEF SupInv

(* The kernel's call of begin_teardown for the workload. *)
LEMMA BeginWorkloadSup == SupInv /\ BeginWorkloadTeardown => SupInv'
<1> SUFFICES ASSUME SupInv, BeginWorkloadTeardown PROVE SupInv'
  OBVIOUS
<1>1. Tearing(Workload, "Live") /\ CloseWorkload(broker)
  BY DEF BeginWorkloadTeardown
<1>2. broker \in Brokers
      /\ (broker.state # "Dead" => broker.nextSequence # 0 /\ broker.epoch # 0)
  BY DEF SupInv, BrokerInv, RequestOK
<1> QED
  BY <1>1, <1>2, CloseWorkloadKeeps, Zenon
-----------------------------------------------------------------------------
(* When the supervisor is reaped its workload is ready, dead or was never  *)
(* launched; when the workload is reaped its supervisor is ready or dead.  *)
LEMMA OtherAtReap ==
    ASSUME SupInv, NEW t \in Tasks, Tearing(t, "Closing")
    PROVE  /\ NoEntries(caps[t])
           /\ \A u \in Tasks \ {t} : state[u] \in {"Ready", "Dead", "Staged"}
           /\ (\E u \in Tasks \ {t} : state[u] = "Staged") <=>
                 t = Supervisor /\ state[Workload] = "Staged"
<1>1. state[t] = "Exited" /\ caps[t].state = "Closing" /\ ScheduleOK(state, queue)
      /\ TableOK(caps[t])
  BY DEF Tearing, SupInv, RuntimeInv
<1>2. NoEntries(caps[t])
  BY <1>1 DEF TableOK, TableValid
<1>3. \A u \in Tasks \ {t} : state[u] \notin {"Running", "Exited", "BlockedReceive"}
  BY <1>1, RoleFacts, ZenonT(30) DEF ScheduleOK, SupInv, RuntimeInv
<1>4. state[Supervisor] \notin {"Staged", "BlockedApproval"}
  BY DEF SupInv, RuntimeInv
<1>5. t = Supervisor => state[Workload] # "BlockedApproval"
  BY <1>1 DEF SupInv, BrokerInv
<1> QED
  BY <1>1, <1>2, <1>3, <1>4, <1>5, RoleFacts DEF ScheduleOK, TaskStates

(* Which objects end with the task that is reaped. *)
LEMMA EndedObjects ==
    ASSUME SupInv, NEW t \in Tasks, Tearing(t, "Closing"), CanReap(t), CompleteTeardown(t)
    PROVE  /\ Reap(t)
           /\ t = Supervisor => broker' = DeadBroker /\ effect' = NoEffect
           /\ t = Workload => broker' = broker /\ effect' = effect
           /\ manifest' => manifest
           /\ manifest /\ (\E u \in Tasks \ {t} : state[u] # "Dead") => manifest'
           /\ manifest' \in BOOLEAN
<1> DEFINE ended == t = Supervisor \/ \A u \in Tasks : Reaped(t)[u] = "Dead"
<1>1. /\ Reap(t)
      /\ broker' = IF ended THEN DeadBroker ELSE broker
      /\ effect' = IF ended THEN NoEffect ELSE effect
      /\ manifest' = (manifest /\ \E u \in Tasks : Reaped(t)[u] # "Dead")
  BY DEF CompleteTeardown
<1>2. /\ state \in [Tasks -> TaskStates]
      /\ \A u \in Tasks : Reaped(t)[u] = IF u = t THEN "Dead" ELSE state[u]
  BY ZenonT(30) DEF SupInv, RuntimeInv, ScheduleOK, Reaped
<1>3. t = Workload /\ ended => broker = DeadBroker /\ effect = NoEffect
  <2>1. SUFFICES ASSUME t = Workload, ended PROVE broker = DeadBroker /\ effect = NoEffect
    OBVIOUS
  <2>2. state[Supervisor] = "Dead"
    BY <1>2, <2>1, RoleFacts
  <2>3. caps[Supervisor].state = "Dead" /\ broker.state = "Dead"
    BY <2>2, RoleFacts, TableStates7, ZenonT(30) DEF SupInv, RuntimeInv, BrokerInv
  <2> QED
    BY <2>3 DEF SupInv, BrokerInv, RequestOK, CellOK
<1>4. manifest' = (manifest /\ \E u \in Tasks \ {t} : state[u] # "Dead")
  BY <1>1, <1>2
<1>5. /\ manifest' => manifest
      /\ manifest /\ (\E u \in Tasks \ {t} : state[u] # "Dead") => manifest'
      /\ manifest' \in BOOLEAN
  BY <1>4, Zenon
<1> QED
  BY <1>1, <1>3, <1>5, RoleFacts

(* complete_teardown. It fails for a supervisor whose workload was never   *)
(* launched, for then no task can run next and not all are dead.           *)
LEMMA CompleteSup ==
    ASSUME SupInv, NEW t \in Tasks, CompleteTeardown(t)
    PROVE  SupInv'
<1>1. Tearing(t, "Closing") /\ state[t] = "Exited" /\ caps[t].state = "Closing" /\ ~failed
  BY ZenonT(30) DEF CompleteTeardown, Tearing
<1>2. /\ NoEntries(caps[t]) /\ ScheduleOK(state, queue)
      /\ \A u \in Tasks \ {t} : state[u] \in {"Ready", "Dead", "Staged"}
      /\ (\E u \in Tasks \ {t} : state[u] = "Staged") <=>
            t = Supervisor /\ state[Workload] = "Staged"
  BY <1>1, OtherAtReap, Zenon DEF SupInv, RuntimeInv
<1>3. CASE t = Supervisor /\ state[Workload] = "Staged"
  <2>1. ~CanReap(t)
    <3>1. Reaped(t)[Workload] = "Staged" /\ state[Supervisor] = "Exited"
      BY <1>1, <1>2, <1>3, RoleFacts DEF Reaped, ScheduleOK
    <3>2. queue = <<>>
      <4>1. QueueOK(queue) /\ \A u \in Tasks : u \notin Queued(queue)
        BY <1>2, <1>3, <3>1, RoleFacts DEF ScheduleOK
      <4>2. Queued(queue) \subseteq Tasks
        BY <4>1 DEF QueueOK, Queued
      <4> QED
        BY <4>1, <4>2, QueueEmptiness
    <3> QED
      BY <3>1, <3>2, RoleFacts DEF CanReap, LastReaped, Dispatchable
  <2>2. Fail /\ UNCHANGED brokerVars
    BY <2>1 DEF CompleteTeardown, FailSupervised
  <2>3. /\ failed' = TRUE /\ state' = state /\ queue' = queue /\ caps' = caps
        /\ reply' = reply /\ spent' = spent
        /\ broker' = broker /\ effect' = effect /\ manifest' = manifest
    BY <2>2 DEF Fail, brokerVars
  <2>4. RuntimeInv'
    BY <2>3, Zenon DEF SupInv, RuntimeInv
  <2>5. BrokerInv'
    BY <1>1, <1>3, <2>3, Zenon DEF SupInv, BrokerInv
  <2> QED
    BY <2>4, <2>5 DEF SupInv
<1>4. CASE ~(t = Supervisor /\ state[Workload] = "Staged")
  <2>1. \A u \in Tasks \ {t} : state[u] \in {"Ready", "Dead"}
    BY <1>2, <1>4
  <2>2. CanReap(t) /\ (Reap(t) => /\ ScheduleOK(state', queue') /\ state'[t] = "Dead"
                                  /\ \A u \in Tasks \ {t} :
                                       state'[u] = IF state[u] = "Ready" THEN "Running" ELSE "Dead")
    BY <1>1, <1>2, <2>1, ReapSteps
  <2>3. /\ Reap(t)
        /\ t = Supervisor => broker' = DeadBroker /\ effect' = NoEffect
        /\ t = Workload => broker' = broker /\ effect' = effect
        /\ manifest' => manifest
        /\ manifest /\ (\E u \in Tasks \ {t} : state[u] # "Dead") => manifest'
        /\ manifest' \in BOOLEAN
    BY <1>1, <2>2, EndedObjects
  <2>4. /\ ScheduleOK(state', queue') /\ state'[t] = "Dead"
        /\ \A u \in Tasks \ {t} : state'[u] = IF state[u] = "Ready" THEN "Running" ELSE "Dead"
    BY <2>2, <2>3
  <2>5. /\ caps' = [caps EXCEPT ![t] = DeadTable]
        /\ reply' = [reply EXCEPT ![t] = NoReply]
        /\ spent' = spent /\ failed' = failed
    BY <2>3 DEF Reap
  <2>6. /\ DeadTable \in Tables /\ TableOK(DeadTable) /\ DeadTable.state = "Dead"
        /\ NoEntries(DeadTable)
    BY DeadTableIsOK DEF TableOK
  <2>7. /\ caps' \in [Tasks -> Tables] /\ caps'[t] = DeadTable
        /\ \A u \in Tasks \ {t} : caps'[u] = caps[u]
        /\ reply' \in [Tasks -> Replies]
    BY <2>5, <2>6, NoReplyType DEF SupInv, RuntimeInv
  <2>8. RuntimeInv'
    <3>1. ConfinedTo(caps'[t], RoleRights(t))
      BY <2>6, <2>7, NoEntryFacts DEF NoEntries, ConfinedTo
    <3>2. \A u \in Tasks :
            /\ TableOK(caps'[u])
            /\ caps'[u].state \in TableStateOf[state'[u]]
            /\ ConfinedTo(caps'[u], RoleRights(u))
            /\ caps'[u].state # "Dead" => Buried(caps'[u], spent'[u])
      <4> TAKE u \in Tasks
      <4>1. CASE u = t
        BY <2>4, <2>6, <2>7, <3>1, <4>1, TableStates7
      <4>2. CASE u # t
        <5>1. /\ caps'[u] = caps[u] /\ spent'[u] = spent[u]
              /\ \/ state[u] = "Ready" /\ state'[u] = "Running"
                 \/ state[u] = "Dead" /\ state'[u] = "Dead"
          BY <2>1, <2>4, <2>5, <2>7, <4>2
        <5> QED
          BY <5>1, TableStates7, ZenonT(30) DEF SupInv, RuntimeInv
      <4> QED
        BY <4>1, <4>2, Zenon
    <3>3. \A u \in Tasks : state'[u] \in {"Running", "Dead"}
      BY <2>1, <2>4
    <3>4. failed' \in BOOLEAN /\ spent' \in [Tasks -> SUBSET Pairs]
      BY <2>5 DEF SupInv, RuntimeInv
    <3> QED
      BY <2>4, <2>7, <3>2, <3>3, <3>4, RoleFacts DEF RuntimeInv
  <2>9. BrokerInv'
    <3>1. CASE t = Supervisor
      <4>1. /\ state'[Supervisor] = "Dead" /\ caps'[Supervisor].state = "Dead"
            /\ state'[Workload] \in {"Running", "Dead"}
            /\ state'[Workload] = "Running" <=> state[Workload] = "Ready"
            /\ caps'[Workload] = caps[Workload] /\ ~failed'
            /\ state[Workload] = "Dead" => caps[Workload].state = "Dead"
        BY <1>1, <2>1, <2>4, <2>5, <2>6, <2>7, <3>1, RoleFacts, TableStates7, ZenonT(30)
           DEF SupInv, RuntimeInv
      <4>2. manifest' <=> caps'[Workload].state = "Live"
        BY <2>1, <2>3, <3>1, <4>1, RoleFacts, ZenonT(30) DEF SupInv, BrokerInv
      <4> QED
        BY <2>3, <3>1, <4>1, <4>2, ReclaimedObjects, ZenonT(30) DEF BrokerInv
    <3>2. CASE t = Workload
      <4>1. /\ state'[Workload] = "Dead" /\ caps'[Workload].state = "Dead"
            /\ state'[Supervisor] \in {"Running", "Dead"}
            /\ state'[Supervisor] = "Dead" <=> state[Supervisor] = "Dead"
            /\ caps'[Supervisor] = caps[Supervisor] /\ ~failed'
        BY <1>1, <2>1, <2>4, <2>5, <2>6, <2>7, <3>2, RoleFacts, ZenonT(30)
      <4>2. ~manifest /\ broker.state \notin {"Pending", "Approved"}
        BY <1>1, <3>2 DEF SupInv, BrokerInv
      <4>3. broker' = broker /\ effect' = effect /\ ~manifest'
        BY <2>3, <3>2, <4>2
      <4>4. RequestOK(broker') /\ CellOK(effect')
        BY <4>3 DEF SupInv, BrokerInv
      <4> QED
        BY <2>3, <4>1, <4>2, <4>3, <4>4 DEF SupInv, BrokerInv
    <3> QED
      BY <3>1, <3>2, RoleFacts
  <2> QED
    BY <2>8, <2>9 DEF SupInv
<1> QED
  BY <1>3, <1>4
-----------------------------------------------------------------------------
(* A table that is being built and has entries in its first n slots only,  *)
(* with these rights.                                                      *)
BuiltTo(table, n, rights) ==
    /\ TableOK(table) /\ table.state = "Building"
    /\ ConfinedTo(table, rights) /\ Buried(table, {})
    /\ \A i \in SlotIndex : i < n => table.slots[i].entry # NoEntry
    /\ \A i \in SlotIndex : n <= i => table.slots[i] = EmptySlot

(* new is the table with one more entry, in its slot n. *)
InstalledAt(n, new, table, type, own, rights) ==
    /\ BuiltTo(new, n + 1, rights)
    /\ new.slots[n].entry = [type |-> type, rights |-> own]
    /\ \A i \in SlotIndex \ {n} : new.slots[i] = table.slots[i]

(* install takes the next slot of a table that is being built. *)
LEMMA InstallNext ==
    ASSUME NEW table, NEW n \in SlotIndex, NEW rights, BuiltTo(table, n, rights),
           NEW type \in ObjectTypes, NEW own \in ValidRights[type],
           own \in SUBSET Rights, own \subseteq rights
    PROVE  InstalledAt(n, Install(table, type, own), table, type, own, rights)
<1> DEFINE entry == [type |-> type, rights |-> own]
           new   == Install(table, type, own)
<1>1. entry \in Entries /\ entry.rights = own /\ entry.type = type /\ entry # NoEntry
  BY NoEntryFacts DEF Entries
<1> HIDE DEF entry
<1>2. n \in FreeSlots(table) /\ \A i \in FreeSlots(table) : n <= i
  <2>1. n \in Nat /\ SlotIndex \subseteq Nat
    BY CapabilityAssumption DEF SlotIndex
  <2>2. /\ table.slots[n] = EmptySlot
        /\ \A i \in SlotIndex : i < n => table.slots[i].entry # NoEntry
    BY <2>1 DEF BuiltTo
  <2>3. EmptySlot.entry = NoEntry /\ ~EmptySlot.retired
    BY DEF EmptySlot
  <2>4. n \in FreeSlots(table)
    BY <2>2, <2>3, Zenon DEF FreeSlots
  <2>5. \A i \in FreeSlots(table) : i \in SlotIndex /\ ~(i < n)
    BY <2>2, Zenon DEF FreeSlots
  <2> QED
    BY <2>1, <2>4, <2>5
<1>3. LowestFree(table) = n
  BY <1>2, LowestFreeIsLeast, Zenon
<1>4. PICK slot : slot = [table.slots[n] EXCEPT !.entry = entry]
  BY Zenon
<1>5. slot = [generation |-> 1, retired |-> FALSE, entry |-> entry]
  <2>1. n <= n
    BY CapabilityAssumption DEF SlotIndex
  <2>2. PICK old \in Slots : old = table.slots[n] /\ old = EmptySlot
    BY <2>1 DEF BuiltTo, TableOK, Tables
  <2>3. old.generation = 1 /\ old.retired = FALSE
    BY <2>2 DEF EmptySlot
  <2> QED
    BY <1>4, <2>2, <2>3, Zenon DEF Slots
<1>6. slot \in Slots
  BY <1>1, <1>5, CapabilityAssumption DEF Slots
<1>7. new = Allocate(table, entry)
  BY DEF Install, entry
<1>8. new = WithSlot(table, n, slot)
  BY <1>3, <1>4, <1>7 DEF Allocate
<1>9. /\ TableOK(Allocate(table, entry)) /\ Allocate(table, entry).state = "Building"
      /\ ConfinedTo(Allocate(table, entry), rights) /\ Buried(Allocate(table, entry), {})
  BY <1>1, <1>2, <1>3, AllocateKeeps DEF BuiltTo
<1>10. slot.entry = entry
  BY <1>5
<1> HIDE DEF new
<1>11. new.slots[n] = slot /\ \A i \in SlotIndex \ {n} : new.slots[i] = table.slots[i]
  BY <1>6, <1>8, WithSlotChangesOneSlot DEF BuiltTo, TableOK
<1>12. /\ \A i \in SlotIndex : i < n + 1 => new.slots[i].entry # NoEntry
       /\ \A i \in SlotIndex : n + 1 <= i => new.slots[i] = EmptySlot
  BY <1>1, <1>10, <1>11, CapabilityAssumption, SMTT(30) DEF BuiltTo, SlotIndex
<1>13. BuiltTo(new, n + 1, rights)
  BY <1>9, <1>12, <1>7 DEF BuiltTo
<1> QED
  BY <1>10, <1>11, <1>13 DEF new, entry, InstalledAt

(* The supervisor's table as publish_supervisor builds it. *)
LEMMA SupervisorTableBuilt ==
    /\ BuiltTo(SupervisorTable, 3, RoleRights(Supervisor))
    /\ \A i \in SlotIndex : SupervisorTable.slots[i].entry.type # "Journal"
<1> DEFINE rights == RoleRights(Supervisor)
           starts == {"Start"}
           decides == {"Decide"}
           commits == {"Commit"}
           one == Install(BuildingTable, "TaskControl", starts)
           two == Install(one, "Broker", decides)
           three == Install(two, "Effect", commits)
<1>1. 0 \in SlotIndex /\ 1 \in SlotIndex /\ 2 \in SlotIndex
      /\ \A i \in SlotIndex : i >= 0 /\ i \in Int
  BY SupervisedAssumption, CapabilityAssumption DEF SlotIndex
<1>2. /\ starts \subseteq rights /\ decides \subseteq rights /\ commits \subseteq rights
      /\ starts \subseteq Rights /\ decides \subseteq Rights /\ commits \subseteq Rights
  BY DEF RoleRights, Rights
<1>3. /\ starts \in ValidRights["TaskControl"] /\ decides \in ValidRights["Broker"]
      /\ commits \in ValidRights["Effect"]
      /\ "TaskControl" \in ObjectTypes /\ "Broker" \in ObjectTypes /\ "Effect" \in ObjectTypes
  BY DEF ValidRights, ObjectTypes
<1> HIDE DEF rights, starts, decides, commits
<1>4. BuiltTo(BuildingTable, 0, rights)
  <2>1. \A i \in SlotIndex : BuildingTable.slots[i] = EmptySlot
    BY DEF BuildingTable
  <2>2. \A i \in SlotIndex : ~(i < 0)
    BY <1>1
  <2>3. /\ TableOK(BuildingTable) /\ BuildingTable.state = "Building"
        /\ ConfinedTo(BuildingTable, rights) /\ Buried(BuildingTable, {})
    BY BuildingTableIsOK, Zenon
  <2> QED
    BY <2>1, <2>2, <2>3, Zenon DEF BuiltTo
<1>5. /\ BuiltTo(one, 1, rights)
      /\ one.slots[0].entry = [type |-> "TaskControl", rights |-> starts]
      /\ \A i \in SlotIndex \ {0} : one.slots[i] = BuildingTable.slots[i]
  <2>1. InstalledAt(0, one, BuildingTable, "TaskControl", starts, rights)
    <3>1. /\ 0 \in SlotIndex /\ BuiltTo(BuildingTable, 0, rights) /\ "TaskControl" \in ObjectTypes
          /\ starts \in ValidRights["TaskControl"] /\ starts \in SUBSET Rights /\ starts \subseteq rights
      BY <1>1, <1>2, <1>3, <1>4, Zenon
    <3> QED
      BY <3>1, InstallNext
  <2>2. 0 + 1 = 1
    OBVIOUS
  <2> QED
    BY <2>1, <2>2, Zenon DEF InstalledAt
<1> HIDE DEF one
<1>6. /\ BuiltTo(two, 2, rights)
      /\ two.slots[1].entry = [type |-> "Broker", rights |-> decides]
      /\ \A i \in SlotIndex \ {1} : two.slots[i] = one.slots[i]
  <2>1. InstalledAt(1, two, one, "Broker", decides, rights)
    <3>1. /\ 1 \in SlotIndex /\ BuiltTo(one, 1, rights) /\ "Broker" \in ObjectTypes
          /\ decides \in ValidRights["Broker"] /\ decides \in SUBSET Rights /\ decides \subseteq rights
      BY <1>1, <1>2, <1>3, <1>5, Zenon
    <3> QED
      BY <3>1, InstallNext
  <2>2. 1 + 1 = 2
    OBVIOUS
  <2> QED
    BY <2>1, <2>2, Zenon DEF InstalledAt
<1> HIDE DEF two
<1>7. /\ BuiltTo(three, 3, rights)
      /\ three.slots[2].entry = [type |-> "Effect", rights |-> commits]
      /\ \A i \in SlotIndex \ {2} : three.slots[i] = two.slots[i]
  <2>1. InstalledAt(2, three, two, "Effect", commits, rights)
    <3>1. /\ 2 \in SlotIndex /\ BuiltTo(two, 2, rights) /\ "Effect" \in ObjectTypes
          /\ commits \in ValidRights["Effect"] /\ commits \in SUBSET Rights /\ commits \subseteq rights
      BY <1>1, <1>2, <1>3, <1>6, Zenon
    <3> QED
      BY <3>1, InstallNext
  <2>2. 2 + 1 = 3
    OBVIOUS
  <2> QED
    BY <2>1, <2>2, Zenon DEF InstalledAt
<1>8. BuildingTable.slots = [i \in SlotIndex |-> EmptySlot] /\ EmptySlot.entry.type = "None"
  BY DEF BuildingTable, EmptySlot, NoEntry
<1>9. three = SupervisorTable
  BY DEF SupervisorTable, one, two, starts, decides, commits
<1> HIDE DEF three
<1>10. \A i \in SlotIndex : three.slots[i].entry.type # "Journal"
  <2> TAKE i \in SlotIndex
  <2>1. CASE i = 2
    BY <1>7, <2>1
  <2>2. CASE i = 1
    <3>1. three.slots[i] = two.slots[1]
      BY <1>7, <2>2
    <3>2. three.slots[i].entry = [type |-> "Broker", rights |-> decides]
      BY <1>6, <3>1, Zenon
    <3> QED
      BY <3>2
  <2>3. CASE i = 0
    <3>1. i # 1 /\ i # 2
      BY <2>3
    <3>2. three.slots[i] = one.slots[0]
      BY <1>6, <1>7, <2>3, <3>1, Zenon
    <3>3. three.slots[i].entry = [type |-> "TaskControl", rights |-> starts]
      BY <1>5, <3>2, Zenon
    <3> QED
      BY <3>3
  <2>4. CASE i \notin {0, 1, 2}
    <3>1. three.slots[i] = BuildingTable.slots[i]
      BY <1>5, <1>6, <1>7, <2>4, Zenon
    <3>2. three.slots[i] = EmptySlot
      BY <1>8, <3>1
    <3> QED
      BY <1>8, <3>2
  <2> QED
    BY <2>1, <2>2, <2>3, <2>4
<1> QED
  BY <1>7, <1>9, <1>10 DEF rights

(* The runtime is in order when the supervisor is published. *)
LEMMA InitWithSup ==
    ASSUME NEW table, NEW n, BuiltTo(table, n, RoleRights(Supervisor)), InitWith(table)
    PROVE  SupInv
<1> DEFINE live == Publish(table)
<1>1. /\ TableOK(live) /\ live.state = "Live"
      /\ ConfinedTo(live, RoleRights(Supervisor)) /\ Buried(live, {})
  BY PublishKeeps DEF BuiltTo
<1>2. live \in Tables /\ BuildingTable \in Tables
  BY <1>1, BuildingTableIsOK DEF TableOK
<1> HIDE DEF live
<1>3. /\ state = [t \in Tasks |-> IF t = Supervisor THEN "Ready" ELSE "Staged"]
      /\ queue = <<Supervisor>>
      /\ caps = [t \in Tasks |-> IF t = Supervisor THEN live ELSE BuildingTable]
      /\ reply = [t \in Tasks |-> NoReply]
      /\ spent = [t \in Tasks |-> {}]
      /\ failed = FALSE /\ broker = EmptyBroker
      /\ effect = [NoEffect EXCEPT !.live = TRUE] /\ manifest = FALSE
  BY DEF InitWith, live
<1>4. /\ state[Supervisor] = "Ready" /\ state[Workload] = "Staged"
      /\ caps[Supervisor] = live /\ caps[Workload] = BuildingTable
      /\ spent[Supervisor] = {} /\ spent[Workload] = {}
  BY <1>3, RoleFacts
<1>5. ScheduleOK(state, queue)
  <2>1. QueueOK(queue) /\ Queued(queue) = {Supervisor}
    BY <1>3, RoleFacts DEF QueueOK, Queued, TaskCount
  <2>2. state \in [Tasks -> TaskStates]
    BY <1>3 DEF TaskStates
  <2> QED
    BY <1>4, <2>1, <2>2, RoleFacts DEF ScheduleOK
<1>6. RuntimeInv
  <2>1. /\ caps \in [Tasks -> Tables] /\ reply \in [Tasks -> Replies]
        /\ spent \in [Tasks -> SUBSET Pairs]
    BY <1>2, <1>3, NoReplyType
  <2>2. ConfinedTo(BuildingTable, RoleRights(Workload)) /\ TableOK(BuildingTable)
        /\ Buried(BuildingTable, {}) /\ BuildingTable.state = "Building"
    BY BuildingTableIsOK
  <2>3. \A t \in Tasks :
          /\ TableOK(caps[t])
          /\ caps[t].state \in TableStateOf[state[t]]
          /\ ConfinedTo(caps[t], RoleRights(t))
          /\ caps[t].state # "Dead" => Buried(caps[t], spent[t])
    <3>1. /\ TableOK(caps[Workload]) /\ ConfinedTo(caps[Workload], RoleRights(Workload))
          /\ Buried(caps[Workload], spent[Workload])
      BY <1>4, <2>2, Zenon
    <3>2. /\ TableOK(caps[Supervisor]) /\ ConfinedTo(caps[Supervisor], RoleRights(Supervisor))
          /\ Buried(caps[Supervisor], spent[Supervisor]) /\ caps[Supervisor].state = "Live"
      BY <1>1, <1>4, Zenon
    <3>3. /\ caps[Workload].state \in TableStateOf[state[Workload]]
          /\ caps[Supervisor].state \in TableStateOf[state[Supervisor]]
      BY <1>4, <2>2, <3>2, TableStates7
    <3> QED
      BY <3>1, <3>2, <3>3, RoleFacts, Zenon
  <2> QED
    BY <1>3, <1>4, <1>5, <2>1, <2>3, RoleFacts, Zenon DEF RuntimeInv
<1>7. RequestOK(broker) /\ broker.state = "Empty"
  <2>1. broker = [state |-> "Empty", present |-> FALSE, sequence |-> 0, argument |-> 0,
                  nextSequence |-> 1, exhausted |-> FALSE, epoch |-> 1, approval |-> 0,
                  expiry |-> 0, bound |-> Tasks]
    BY <1>3, Zenon DEF EmptyBroker, DeadBroker
  <2>2. broker \in Brokers
    BY <2>1, SupervisedAssumption DEF Brokers, BrokerStates
  <2> QED
    <3>1. /\ broker.state = "Empty" /\ ~broker.present /\ broker.sequence = 0
          /\ broker.argument = 0 /\ broker.nextSequence = 1 /\ ~broker.exhausted
          /\ broker.epoch = 1 /\ broker.approval = 0 /\ broker.expiry = 0
          /\ broker.bound = Tasks
      BY <2>1
    <3> QED
      BY <2>2, <3>1 DEF RequestOK, Blank
<1>8. CellOK(effect)
  <2>1. effect = [live |-> TRUE, occupied |-> FALSE, value |-> 0]
    BY <1>3, Zenon DEF NoEffect
  <2> QED
    BY <2>1 DEF CellOK, Effects
<1>9. BrokerInv
  BY <1>1, <1>3, <1>4, <1>7, <1>8, BuildingTableIsOK, Zenon DEF BrokerInv
<1> QED
  BY <1>6, <1>9 DEF SupInv

(* The published supervised runtime satisfies SupInv. *)
LEMMA InitSup == Init => SupInv
BY SupervisorTableBuilt, InitWithSup DEF Init

(* Every step of the supervised runtime keeps SupInv. *)
LEMMA NextKeepsSup == SupInv /\ [Next]_supervisedVars => SupInv'
<1> SUFFICES ASSUME SupInv, [Next]_supervisedVars PROVE SupInv'
  OBVIOUS
<1>1. CASE KernelStep
  BY <1>1, BootSup, BeginSupervisorSup, BeginWorkloadSup, CompleteSup DEF KernelStep
<1>2. CASE \E t \in Tasks : PlainTrap(t)
  BY <1>2, PlainSup
<1>3. CASE \E t \in Tasks, raw \in Handles : BrokerTrap(t, raw)
  <2>1. PICK t \in Tasks, raw \in Handles : BrokerTrap(t, raw)
    BY <1>3
  <2> QED
    BY <2>1, StartSup, SubmitSup, InspectSup, DecideSup, CommitSup DEF BrokerTrap
<1>4. CASE Stop \/ UNCHANGED supervisedVars
  <2>1. UNCHANGED supervisedVars
    BY <1>4 DEF Stop
  <2> QED
    BY <2>1, Zenon DEF supervisedVars, SupInv, RuntimeInv, BrokerInv
<1> QED
  BY <1>1, <1>2, <1>3, <1>4 DEF Next

(* SupInv is an invariant of the supervised runtime. *)
THEOREM SupervisedInvariant == Spec => []SupInv
BY InitSup, NextKeepsSup, PTL DEF Spec

(* SupInv gives the types. *)
LEMMA SupTypes == SupInv => SupervisedTypeOK
<1> SUFFICES ASSUME SupInv PROVE SupervisedTypeOK
  OBVIOUS
<1>1. state \in [Tasks -> TaskStates] /\ queue \in Seq(Tasks)
  BY DEF SupInv, RuntimeInv, ScheduleOK, QueueOK
<1>2. RuntimeTypeOK
  BY <1>1, Zenon DEF SupInv, RuntimeInv, RuntimeTypeOK, Pairs
<1> QED
  BY <1>2, Zenon DEF SupervisedTypeOK, SupInv, BrokerInv, RequestOK, CellOK

(* Every variable keeps its type: no epoch and no request sequence passes  *)
(* its last value, however many requests are submitted and decided.        *)
THEOREM SupervisedTypeCorrect == Spec => []TypeOK
BY SupervisedInvariant, SupTypes, PTL DEF TypeOK

(* SupInv implies all that Runtime::validate checks. *)
LEMMA SupValid == SupInv => SupervisedValid
<1> SUFFICES ASSUME SupInv PROVE SupervisedValid
  OBVIOUS
<1>1. RuntimeValid
  BY ZenonT(30) DEF SupInv, RuntimeInv, ScheduleOK, QueueOK, TableOK, RuntimeValid
<1>2. /\ \A t \in Tasks : state[t] # "BlockedReceive"
      /\ state[Workload] \in TaskStates
      /\ caps[Workload].state \in TableStateOf[state[Workload]]
      /\ caps[Supervisor].state \in TableStateOf[state[Supervisor]]
      /\ (manifest <=> caps[Workload].state = "Live")
      /\ RequestOK(broker) /\ CellOK(effect)
      /\ state[Workload] = "Staged" => caps[Workload] = BuildingTable
      /\ (broker.state = "Dead" <=> state[Supervisor] = "Dead")
      /\ (state[Workload] = "BlockedApproval" <=> broker.state \in {"Pending", "Approved"})
      /\ effect.live => caps[Supervisor].state = "Live"
  BY RoleFacts, ZenonT(30) DEF SupInv, RuntimeInv, BrokerInv, ScheduleOK
<1>3. /\ state[Workload] = "Staged" => ~manifest /\ NoEntries(caps[Workload])
      /\ state[Workload] \notin {"Staged", "Dead"} /\ caps[Workload].state # "Closing" => manifest
      /\ state[Workload] = "Dead" => ~manifest
  BY <1>2, TableStates7, BuildingTableIsOK, Zenon DEF TaskStates
<1>4. broker.state \in {"Empty", "Closing", "Dead"} => NoRequest(broker)
  <2> SUFFICES ASSUME broker.state \in {"Empty", "Closing", "Dead"} PROVE NoRequest(broker)
    OBVIOUS
  <2>1. broker \in Brokers /\ Blank(broker)
    <3>1. CASE broker.state \in {"Empty", "Closing"}
      BY <1>2, <3>1, Zenon DEF RequestOK
    <3>2. CASE broker.state = "Dead"
      <4>1. broker \in Brokers /\ broker = DeadBroker
        BY <1>2, <3>2, Zenon DEF RequestOK
      <4>2. Blank(DeadBroker)
        BY DEF Blank, DeadBroker
      <4> QED
        BY <4>1, <4>2, Zenon
    <3> QED
      BY <3>1, <3>2, Zenon
  <2>2. PICK new : new = Cleared(broker)
    OBVIOUS
  <2>3. new = broker
    BY <2>1, <2>2, Zenon DEF Cleared, Brokers, Blank
  <2> QED
    BY <2>1, <2>2, <2>3 DEF NoRequest, Blank
<1>5. /\ broker.state = "Pending" =>
            /\ broker.present /\ broker.approval = 0 /\ broker.expiry = 0
            /\ state[Workload] = "BlockedApproval"
      /\ broker.state = "Approved" =>
            /\ broker.present /\ broker.approval # 0 /\ broker.expiry = broker.approval + 1
            /\ state[Workload] = "BlockedApproval"
      /\ broker.state # "Dead" => broker.nextSequence # 0 /\ broker.epoch # 0
      /\ broker.state = "Dead" => broker = DeadBroker
  BY <1>2 DEF RequestOK
<1>6. broker.present => broker.sequence # 0
  <2>1. broker.state \in {"Empty", "Closing", "Pending", "Approved", "Dead"}
    BY <1>2 DEF RequestOK, Brokers, BrokerStates
  <2>2. broker.state \in {"Empty", "Closing"} => ~broker.present
    BY <1>2, Zenon DEF RequestOK, Blank
  <2>3. broker.state = "Dead" => ~broker.present
    <3>1. ~DeadBroker.present
      BY DEF DeadBroker
    <3> QED
      BY <1>5, <3>1, Zenon
  <2>4. broker.state \in {"Pending", "Approved"} => broker.sequence # 0
    BY <1>2, Zenon DEF RequestOK
  <2> QED
    BY <2>1, <2>2, <2>3, <2>4
<1>7. (~effect.live => effect = NoEffect) /\ (~effect.occupied => effect.value = 0)
  BY <1>2 DEF CellOK
<1>8. AllDead => ~manifest /\ broker = DeadBroker /\ effect = NoEffect
  <2> SUFFICES ASSUME AllDead PROVE ~manifest /\ broker = DeadBroker /\ effect = NoEffect
    OBVIOUS
  <2>1. state[Supervisor] = "Dead" /\ state[Workload] = "Dead"
    BY RoleFacts DEF AllDead
  <2> QED
    BY <1>2, <1>5, <1>7, <2>1, TableStates7
<1> QED
  BY <1>1, <1>2, <1>3, <1>4, <1>5, <1>6, <1>7, <1>8 DEF SupervisedValid

(* Runtime::validate, which every handler ends with, accepts every         *)
(* reachable state; and the one runtime call that ever returns Err is the  *)
(* complete_teardown of a supervisor that never launched its workload.     *)
THEOREM SupervisedAccepts ==
    Spec => [](ValidateAccepts
               /\ (failed => state[Supervisor] = "Exited" /\ state[Workload] = "Staged"))
<1>1. SupInv => ValidateAccepts
                /\ (failed => state[Supervisor] = "Exited" /\ state[Workload] = "Staged")
  BY SupValid DEF ValidateAccepts, SupInv, BrokerInv
<1> QED
  BY <1>1, SupervisedInvariant, PTL

(* The workload is blocked exactly while the broker holds its request: no  *)
(* decision, commit, exhaustion or teardown leaves a blocked task behind.  *)
THEOREM BlockedTasksAreHeld == Spec => []BlockedIffRequested
<1>1. SupInv => BlockedIffRequested
  BY DEF SupInv, BrokerInv, BlockedIffRequested
<1> QED
  BY <1>1, SupervisedInvariant, PTL

(* What a step may do to the effect cell. *)
EffectStep ==
    effect' # effect /\ effect'.live =>
        /\ ~effect.occupied
        /\ broker.state = "Approved" /\ broker.approval = broker.epoch
        /\ broker'.epoch = broker.expiry
        /\ effect'.value = broker.argument
        /\ state[Workload] = "BlockedApproval"
        /\ reply'[Workload] = Reply("Ok", broker.argument)

(* A commit that succeeds writes the approved argument and reports it. *)
LEMMA CommitEffectStep ==
    ASSUME SupInv, NEW t \in Tasks, NEW raw \in Handles, NEW sequence,
           NEW argument \in Arguments, CommitTrap(t, raw, sequence, argument)
    PROVE  EffectStep
<1> DEFINE status == CommitStatus(t, raw, sequence, argument)
<1>1. Runs(t)
  BY DEF CommitTrap
<1>2. status = "Ok" => /\ t = Supervisor /\ broker.state = "Approved" /\ effect.live
                       /\ broker.argument = argument /\ ~effect.occupied
  BY <1>1, CommitStatuses
<1>3. CASE status # "Ok"
  BY <1>3 DEF CommitTrap, RejectSupervised, brokerVars, EffectStep
<1>4. CASE status = "Ok"
  <2>1. /\ CanWake /\ broker.epoch # EpochMax /\ state[Workload] = "BlockedApproval"
        /\ broker.epoch + 1 = broker.expiry
    BY <1>2, <1>4, HeldRequest, ApprovedEpoch
  <2>2. Commit(t, argument)
    BY <1>4, <2>1 DEF CommitTrap
  <2>3. /\ reply'[Workload] = Reply("Ok", argument) /\ effect'.value = argument
        /\ broker'.epoch = broker.epoch + 1
    BY <1>1, <1>2, <1>4, <2>1, <2>2, CommitKeeps, Zenon
  <2>4. broker.approval = broker.epoch
    BY <1>2, <1>4 DEF SupInv, BrokerInv, RequestOK
  <2> QED
    BY <1>2, <1>4, <2>1, <2>3, <2>4 DEF EffectStep
<1> QED
  BY <1>3, <1>4

(* No other call writes it. *)
LEMMA NextEffectStep == SupInv /\ [Next]_supervisedVars => EffectStep
<1> SUFFICES ASSUME SupInv, [Next]_supervisedVars PROVE EffectStep
  OBVIOUS
<1>1. effect' = effect => EffectStep
  BY DEF EffectStep
<1>2. effect' = NoEffect => EffectStep
  BY ReclaimedObjects DEF EffectStep
<1>3. CASE KernelStep
  <2>1. effect' = effect \/ effect' = NoEffect
    BY <1>3 DEF KernelStep, Boot, BeginSupervisorTeardown, CloseSupervisor,
                BeginWorkloadTeardown, CloseWorkload, CompleteTeardown, FailSupervised, brokerVars
  <2> QED
    BY <1>1, <1>2, <2>1
<1>4. CASE \E t \in Tasks : PlainTrap(t)
  BY <1>1, <1>4 DEF PlainTrap, brokerVars
<1>5. CASE \E t \in Tasks, raw \in Handles : BrokerTrap(t, raw)
  <2>1. PICK t \in Tasks, raw \in Handles : BrokerTrap(t, raw)
    BY <1>5
  <2>2. ASSUME NEW registered \in BOOLEAN, StartTrap(t, raw, registered) PROVE effect' = effect
    BY <2>2 DEF StartTrap, Launch, RejectSupervised, FailSupervised, brokerVars
  <2>3. ASSUME NEW kindKnown \in BOOLEAN, NEW argument \in Arguments,
               SubmitTrap(t, raw, kindKnown, argument)
        PROVE  effect' = effect
    BY <2>3 DEF SubmitTrap, Submit, RejectSupervised, FailSupervised, brokerVars
  <2>4. ASSUME InspectTrap(t, raw) PROVE effect' = effect
    BY <2>4 DEF InspectTrap, brokerVars
  <2>5. ASSUME NEW sequence, NEW decision, DecideTrap(t, raw, sequence, decision)
        PROVE  effect' = effect
    BY <2>5 DEF DecideTrap, ExhaustEpoch, Approve, Refuse, RejectSupervised, FailSupervised,
                brokerVars
  <2> QED
    BY <1>1, <2>1, <2>2, <2>3, <2>4, <2>5, CommitEffectStep DEF BrokerTrap
<1>6. CASE Stop \/ UNCHANGED supervisedVars
  BY <1>1, <1>6 DEF Stop, supervisedVars
<1> QED
  BY <1>3, <1>4, <1>5, <1>6 DEF Next

(* What a step may do to an approval. *)
ApprovalStep ==
    broker.state = "Approved" /\ broker'.epoch # broker.epoch => broker'.state # "Approved"

(* A step that ends the request, or the broker, ends its approval. *)
LEMMA EndedApproval ==
    ASSUME SupInv, NEW s \in {"Empty", "Closing"},
           \/ broker' = [Cleared(broker) EXCEPT !.state = s]
           \/ broker' = [Cleared(Advanced(broker)) EXCEPT !.state = s]
           \/ broker' = DeadBroker
    PROVE  ApprovalStep
<1>1. broker \in Brokers
  BY DEF SupInv, BrokerInv, RequestOK
<1>2. [Cleared(broker) EXCEPT !.state = s].state = s
  BY <1>1 DEF Cleared, Brokers
<1>3. [Cleared(Advanced(broker)) EXCEPT !.state = s].state = s
  BY <1>1 DEF Cleared, Advanced, Brokers
<1>4. DeadBroker.state = "Dead"
  BY DEF DeadBroker
<1> QED
  BY <1>2, <1>3, <1>4 DEF ApprovalStep

(* Unbinding a task leaves the epoch alone. *)
LEMMA UnboundEpoch ==
    ASSUME SupInv, NEW s, NEW t
    PROVE  [Cleared(broker) EXCEPT !.state = s, !.bound = @ \ {t}].epoch = broker.epoch
<1>1. broker \in Brokers
  BY DEF SupInv, BrokerInv, RequestOK
<1> QED
  BY <1>1 DEF Cleared, Brokers

(* Every step that moves the decision epoch ends the approval given in it. *)
LEMMA NextApprovalStep == SupInv /\ [Next]_supervisedVars => ApprovalStep
<1> SUFFICES ASSUME SupInv, [Next]_supervisedVars, broker.state = "Approved" PROVE ApprovalStep
  BY DEF ApprovalStep
<1>1. broker' = broker => ApprovalStep
  BY DEF ApprovalStep
<1>2. CASE KernelStep
  <2>1. CASE Boot
    BY <1>1, <2>1 DEF Boot, brokerVars
  <2>2. CASE BeginSupervisorTeardown
    BY <1>1, <2>2, UnboundEpoch DEF BeginSupervisorTeardown, CloseSupervisor, FailSupervised,
       brokerVars, ApprovalStep
  <2>3. CASE BeginWorkloadTeardown
    BY <2>3, UnboundEpoch DEF BeginWorkloadTeardown, CloseWorkload, ApprovalStep
  <2>4. ASSUME NEW t \in Tasks, CompleteTeardown(t) PROVE ApprovalStep
    BY <1>1, <2>4, EndedApproval DEF CompleteTeardown, FailSupervised, brokerVars
  <2> QED
    BY <1>2, <2>1, <2>2, <2>3, <2>4 DEF KernelStep
<1>3. CASE \E t \in Tasks : PlainTrap(t)
  BY <1>1, <1>3 DEF PlainTrap, brokerVars
<1>4. CASE \E t \in Tasks, raw \in Handles : BrokerTrap(t, raw)
  <2>1. PICK t \in Tasks, raw \in Handles : BrokerTrap(t, raw)
    BY <1>4
  <2>2. ASSUME NEW registered \in BOOLEAN, StartTrap(t, raw, registered) PROVE ApprovalStep
    BY <1>1, <2>2 DEF StartTrap, Launch, RejectSupervised, FailSupervised, brokerVars
  <2>3. ASSUME NEW kindKnown \in BOOLEAN, NEW argument \in Arguments,
               SubmitTrap(t, raw, kindKnown, argument)
        PROVE  ApprovalStep
    <3>1. SubmitStatus(t, raw, kindKnown) # "Ok"
      BY <2>3, SubmitStatuses DEF SubmitTrap
    <3> QED
      BY <1>1, <2>3, <3>1 DEF SubmitTrap, RejectSupervised, brokerVars
  <2>4. ASSUME InspectTrap(t, raw) PROVE ApprovalStep
    BY <1>1, <2>4 DEF InspectTrap, brokerVars
  <2>5. ASSUME NEW sequence \in 0 .. SequenceMax, NEW decision \in Decisions,
               DecideTrap(t, raw, sequence, decision)
        PROVE  ApprovalStep
    <3>1. DecideStatus(t, raw, sequence, decision) = "Ok" => decision # "Approve"
      BY <2>5, DecideStatuses DEF DecideTrap
    <3> QED
      BY <1>1, <2>5, <3>1, EndedApproval DEF DecideTrap, ExhaustEpoch, Refuse, EndRequest,
         RejectSupervised, FailSupervised, brokerVars
  <2>6. ASSUME NEW sequence \in 0 .. SequenceMax, NEW argument \in Arguments,
               CommitTrap(t, raw, sequence, argument)
        PROVE  ApprovalStep
    BY <1>1, <2>6, EndedApproval DEF CommitTrap, Commit, EndRequest, RejectSupervised,
       FailSupervised, brokerVars
  <2> QED
    BY <2>1, <2>2, <2>3, <2>4, <2>5, <2>6 DEF BrokerTrap
<1>5. CASE Stop \/ UNCHANGED supervisedVars
  BY <1>1, <1>5 DEF Stop, supervisedVars
<1> QED
  BY <1>2, <1>3, <1>4, <1>5 DEF Next

(* The effect cell is written only by committing an approved request, once *)
(* and with the approved argument, in the step that reports it to the      *)
(* blocked workload and in the decision epoch of the approval; a step that *)
(* moves the epoch ends the approval.                                      *)
THEOREM EffectsAreApproved == Spec => EffectNeedsApproval
<1>1. SupInv /\ [Next]_supervisedVars => [EffectStep /\ ApprovalStep]_supervisedVars
  BY NextEffectStep, NextApprovalStep
<1>2. EffectNeedsApproval <=> [][EffectStep /\ ApprovalStep]_supervisedVars
  BY PTL DEF EffectNeedsApproval, EffectStep, ApprovalStep
<1> QED
  BY <1>1, <1>2, SupervisedInvariant, PTL DEF Spec
=============================================================================

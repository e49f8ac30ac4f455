------------------------- MODULE CooperativeProofs -------------------------
(***************************************************************************)
(* Proofs about CooperativeRuntime for every table size, generation limit, *)
(* set of payloads and of rights requests.                                 *)
(*                                                                         *)
(* The inductive invariant IInv says of the schedule that no task runs     *)
(* while another is torn down, of the sender that it never blocks, and of  *)
(* the tables that spent generations stay buried and that rights stay      *)
(* within the role; none of these is checked by Runtime::validate, and     *)
(* without them neither dispatch nor teardown can be shown to succeed.     *)
(***************************************************************************)
EXTENDS CooperativeRuntime, TaskRuntimeProofs, WellFoundedInduction

RightsOf(t) == IF t = Sender THEN {"Send", "Duplicate"} ELSE {"Receive"}

TypeInv ==
    /\ failed = FALSE
    /\ caps \in [Tasks -> Tables]
    /\ reply \in [Tasks -> Replies]
    /\ spent \in [Tasks -> SUBSET Pairs]

SchedInv ==
    /\ ScheduleOK(state, queue)
    /\ \A t \in Tasks : state[t] \notin {"Staged", "BlockedApproval"}
    /\ state[Sender] # "BlockedReceive"

TableInv ==
    \A t \in Tasks :
        /\ TableOK(caps[t])
        /\ caps[t].state \in TableStateOf[state[t]]
        /\ ConfinedTo(caps[t], RightsOf(t))
        /\ caps[t].state # "Dead" => Buried(caps[t], spent[t])

EndpointInv ==
    /\ endpoint \in Endpoints
    /\ caps[Sender].state = "Live" => endpoint.senderBound
    /\ caps[Sender].state \in {"Closing", "Dead"} => ~endpoint.senderBound
    /\ caps[Receiver].state = "Live" => endpoint.receiverBound
    /\ caps[Receiver].state \in {"Closing", "Dead"} => ~endpoint.receiverBound
    /\ state[Receiver] = "BlockedReceive" => ~endpoint.occupied /\ endpoint.senderBound
    /\ ~endpoint.receiverBound => ~endpoint.occupied
    /\ ~endpoint.occupied => endpoint.payload = 0
    /\ endpoint.occupied => endpoint.payload \in Messages
    /\ (\E t \in Tasks : state[t] # "Dead") => endpoint.live
    /\ AllDead => endpoint = NoEndpoint

MessageInv ==
    /\ sent \in Seq(Messages)
    /\ received \in Seq(Messages)
    /\ endpoint.receiverBound =>
          /\ endpoint.occupied => sent = Append(received, endpoint.payload)
          /\ ~endpoint.occupied => sent = received
    /\ ~endpoint.receiverBound =>
          sent = received \/ \E m \in Messages : sent = Append(received, m)
    /\ reply[Receiver].status = "PeerExited" => received = sent /\ ~endpoint.senderBound

IInv == TypeInv /\ SchedInv /\ TableInv /\ EndpointInv /\ MessageInv
-----------------------------------------------------------------------------
(* The minimum CapabilityTable::allocate takes exists: the slot it fills   *)
(* is free, and no lower slot is.                                          *)
LEMMA LowestFreeIsFree ==
    ASSUME NEW table, FreeSlots(table) # {}
    PROVE  /\ LowestFree(table) \in FreeSlots(table)
           /\ \A j \in FreeSlots(table) : LowestFree(table) <= j
<1>1. FreeSlots(table) \subseteq Nat
  BY CapabilityAssumption DEF FreeSlots, SlotIndex
<1>2. PICK i \in FreeSlots(table) :
         \A j \in FreeSlots(table) : <<j, i>> \notin OpToRel(<, Nat)
  BY <1>1, WFMin, NatLessThanWellFounded, Zenon
<1>3. \A j \in FreeSlots(table) : ~(j < i)
  BY <1>1, <1>2, Zenon DEF OpToRel
<1>4. \A j \in FreeSlots(table) : i <= j
  BY <1>1, <1>3
<1> QED
  BY <1>4, Zenon DEF LowestFree

(* duplicate never amplifies: a duplicate that succeeds keeps the table    *)
(* within the rights it was already confined to.                           *)
LEMMA DuplicateKeeps ==
    ASSUME NEW table, TableOK(table), NEW source \in Handles, NEW requested \in SUBSET Rights,
           DuplicateStatus(table, source, requested) = "Ok",
           NEW rights, ConfinedTo(table, rights),
           NEW pairs \in SUBSET (SlotIndex \X (1 .. GenerationMax)), Buried(table, pairs)
    PROVE  LET new == DuplicateEntry(table, source, requested)
           IN  /\ TableOK(new)
               /\ new.state = "Live"
               /\ ConfinedTo(new, rights)
               /\ Buried(new, pairs)
<1> DEFINE resolved == ResolveTyped(table, source, "Endpoint", "Duplicate")
           selected == SelectedEntry(table, source)
           entry == [selected EXCEPT !.rights = requested]
<1>1. resolved = "Ok"
  BY DEF DuplicateStatus
<1>2. Selects(table, source) /\ selected.type = "Endpoint"
  BY <1>1, ResolvedEntry, Zenon
<1>3. requested \in ValidRights["Endpoint"] /\ requested \subseteq selected.rights
  BY <1>1 DEF DuplicateStatus
<1>4. FreeSlots(table) # {}
  <2>1. AllocateStatus(table) = "Ok"
    BY <1>1, <1>3 DEF DuplicateStatus
  <2> QED
    BY <2>1 DEF AllocateStatus
<1>5. HandleSlot(source) \in SlotIndex
  BY HandleSlotInTable
<1>6. table.state = "Live" /\ selected # NoEntry
  BY <1>2 DEF Selects, SelectedEntry
<1>7. selected \in Entries
  BY <1>5, <1>6 DEF SelectedEntry, TableOK, Tables, Slots
<1>8. entry \in Entries /\ entry.type = "Endpoint" /\ entry.rights = requested
  BY <1>2, <1>7 DEF Entries
<1>9. entry.rights \subseteq rights
  BY <1>3, <1>5, <1>8 DEF ConfinedTo, SelectedEntry
<1> HIDE DEF entry
<1>10. entry.rights \in ValidRights[entry.type]
  BY <1>3, <1>8
<1>11. /\ TableOK(Allocate(table, entry))
       /\ Allocate(table, entry).state = "Live"
       /\ ConfinedTo(Allocate(table, entry), rights)
       /\ Buried(Allocate(table, entry), pairs)
  BY <1>4, <1>6, <1>8, <1>9, <1>10, LowestFreeIsFree, AllocateKeeps
<1> QED
  BY <1>11 DEF DuplicateEntry, entry

(* The tables publish_initial builds. *)
LEMMA InitialTable ==
    ASSUME NEW rights \in ValidRights["Endpoint"]
    PROVE  LET table == Publish(Install(BuildingTable, "Endpoint", rights))
           IN  TableOK(table) /\ table.state = "Live" /\ ConfinedTo(table, rights)
                  /\ Buried(table, {})
<1> DEFINE entry == [type |-> "Endpoint", rights |-> rights]
           built == Install(BuildingTable, "Endpoint", rights)
<1>1. rights \in SUBSET {"Send", "Receive", "Duplicate"}
  BY DEF ValidRights
<1>2. entry \in Entries /\ entry.type = "Endpoint" /\ entry.rights = rights
  BY <1>1 DEF Entries, ObjectTypes, Rights
<1>3. built = Allocate(BuildingTable, entry)
  BY DEF Install
<1>4. {} \in SUBSET (SlotIndex \X (1 .. GenerationMax))
  OBVIOUS
<1> HIDE DEF entry, built
<1>5. TableOK(built) /\ built.state = "Building" /\ ConfinedTo(built, rights) /\ Buried(built, {})
  BY <1>2, <1>3, <1>4, BuildingTableIsOK, AllocateKeeps
<1>6. LET table == Publish(built)
      IN  TableOK(table) /\ table.state = "Live" /\ ConfinedTo(table, rights) /\ Buried(table, {})
  BY <1>5, PublishKeeps
<1> QED
  BY <1>6 DEF built

(* publish_initial establishes the inductive invariant. *)
LEMMA InitIInv == Init => IInv
<1> SUFFICES ASSUME Init PROVE IInv
  OBVIOUS
<1> USE TaskFacts
<1>1. \A t \in Tasks : RightsOf(t) \in ValidRights["Endpoint"]
  BY DEF RightsOf, ValidRights
<1>2. \A t \in Tasks : caps[t] = Publish(Install(BuildingTable, "Endpoint", RightsOf(t)))
  BY DEF Init, RightsOf
<1>3. \A t \in Tasks : /\ TableOK(caps[t]) /\ caps[t].state = "Live"
                       /\ ConfinedTo(caps[t], RightsOf(t)) /\ Buried(caps[t], {})
  BY <1>1, <1>2, InitialTable
<1>4. TypeInv
  <2>1. caps \in [Tasks -> Tables]
    BY <1>3 DEF Init, TableOK
  <2>2. reply \in [Tasks -> Replies] /\ spent \in [Tasks -> SUBSET Pairs] /\ failed = FALSE
    BY DEF Init, Replies
  <2> QED
    BY <2>1, <2>2 DEF TypeInv
<1>5. SchedInv
  <2>1. /\ queue \in Seq(Tasks) /\ Len(queue) = 2
        /\ queue[1] = Receiver /\ queue[2] = Sender /\ DOMAIN queue = 1 .. 2
    BY DEF Init
  <2>2. QueueOK(queue)
    BY <2>1 DEF QueueOK, TaskCount
  <2>3. \A t \in Tasks : t \in Queued(queue)
    BY <2>1 DEF Queued, Tasks
  <2>4. state \in [Tasks -> TaskStates] /\ \A t \in Tasks : state[t] = "Ready"
    BY DEF Init, TaskStates
  <2> QED
    BY <2>2, <2>3, <2>4 DEF SchedInv, ScheduleOK
<1>6. TableInv
  BY <1>3 DEF TableInv, Init, TableStateOf
<1>7. EndpointInv /\ endpoint.receiverBound /\ ~endpoint.occupied
  <2>1. endpoint = [live |-> TRUE, senderBound |-> TRUE, receiverBound |-> TRUE,
                    occupied |-> FALSE, payload |-> 0]
    BY Zenon DEF Init, NoEndpoint
  <2>2. endpoint \in Endpoints
    BY <2>1 DEF Endpoints
  <2>3. ~AllDead /\ state[Receiver] = "Ready"
    BY DEF AllDead, Init
  <2> QED
    BY <1>3, <2>1, <2>2, <2>3 DEF EndpointInv
<1>8. MessageInv
  BY <1>7 DEF MessageInv, Init, NoReply
<1> QED
  BY <1>4, <1>5, <1>6, <1>7, <1>8 DEF IInv
-----------------------------------------------------------------------------
(* A trap that changes only the caller's registers. *)
LEMMA ResumeKeeps ==
    ASSUME IInv, NEW t \in Tasks, NEW result \in Replies, Resume(t, result),
           UNCHANGED channelVars,
           t = Receiver /\ result.status = "PeerExited" =>
               received = sent /\ ~endpoint.senderBound
    PROVE  IInv'
<1> USE TaskFacts
<1>1. /\ reply' = [reply EXCEPT ![t] = result]
      /\ state' = state /\ queue' = queue /\ caps' = caps /\ spent' = spent
      /\ failed' = failed /\ endpoint' = endpoint /\ sent' = sent /\ received' = received
  BY DEF Resume, channelVars
<1>2. TypeInv'
  BY <1>1 DEF IInv, TypeInv
<1>3. SchedInv' /\ TableInv' /\ EndpointInv'
  BY <1>1 DEF IInv, SchedInv, TableInv, EndpointInv, AllDead
<1>4. MessageInv'
  BY <1>1 DEF IInv, TypeInv, MessageInv
<1> QED
  BY <1>2, <1>3, <1>4 DEF IInv

(* A refused trap keeps the invariant. *)
LEMMA RejectKeeps ==
    ASSUME IInv, NEW t \in Tasks, NEW status \in Statuses, Reject(t, status),
           UNCHANGED channelVars,
           t = Receiver /\ status = "PeerExited" => received = sent /\ ~endpoint.senderBound
    PROVE  IInv'
<1>1. Reply(status, 0) \in Replies /\ Reply(status, 0).status = status
  BY ReplyType
<1>2. Resume(t, Reply(status, 0))
  BY DEF Reject
<1> QED
  BY <1>1, <1>2, ResumeKeeps

(* A step that moves only the schedule and one task's registers. *)
LEMMA ScheduleStepKeeps ==
    ASSUME IInv, ScheduleOK(state', queue'),
           UNCHANGED <<caps, spent, failed>>, UNCHANGED channelVars,
           NEW t \in Tasks, NEW result \in Replies, result.status # "PeerExited",
           reply' \in {reply, [reply EXCEPT ![t] = result]},
           state[t] # "Dead", state'[t] # "Dead",
           \A u \in Tasks : /\ state'[u] \notin {"Staged", "BlockedApproval"}
                            /\ caps[u].state \in TableStateOf[state'[u]],
           state'[Sender] # "BlockedReceive",
           state'[Receiver] = "BlockedReceive" => ~endpoint.occupied /\ endpoint.senderBound
    PROVE  IInv'
<1> USE TaskFacts
<1>1. /\ caps' = caps /\ spent' = spent /\ failed' = failed
      /\ endpoint' = endpoint /\ sent' = sent /\ received' = received
  BY DEF channelVars
<1>2. TypeInv'
  BY <1>1 DEF IInv, TypeInv
<1>3. SchedInv'
  BY DEF SchedInv
<1>4. TableInv'
  BY <1>1 DEF IInv, TableInv
<1>5. EndpointInv'
  <2>1. ~AllDead'
    BY DEF AllDead
  <2>2. endpoint.live
    BY DEF IInv, EndpointInv
  <2> QED
    BY <1>1, <2>1, <2>2 DEF IInv, EndpointInv
<1>6. MessageInv'
  BY <1>1 DEF IInv, TypeInv, MessageInv
<1> QED
  BY <1>2, <1>3, <1>4, <1>5, <1>6 DEF IInv

(* The first dispatch finds a ready task. *)
LEMMA BootKeeps == IInv /\ Boot => IInv'
<1> SUFFICES ASSUME IInv, Boot PROVE IInv'
  OBVIOUS
<1> USE TaskFacts
<1>1. ScheduleOK(state, queue) /\ queue # <<>>
      /\ \A t \in Tasks : state[t] \notin {"Running", "Exited"}
  BY DEF IInv, SchedInv, Boot, FirstDispatch
<1>2. /\ Dispatchable(state, queue)
      /\ Head(queue) \in Tasks
      /\ state[Head(queue)] = "Ready"
      /\ ScheduleOK(Dispatched(state, queue), Tail(queue))
      /\ \A t \in Tasks :
            Dispatched(state, queue)[t] = IF t = Head(queue) THEN "Running" ELSE state[t]
  BY <1>1, DispatchKeepsSchedule
<1>3. /\ state' = Dispatched(state, queue) /\ queue' = Tail(queue) /\ reply' = reply
      /\ UNCHANGED <<caps, spent, failed>> /\ UNCHANGED channelVars
  BY <1>2 DEF Boot, FirstDispatch
<1>4. \A t \in Tasks : caps[t].state \in TableStateOf[state'[t]]
  BY <1>2, <1>3 DEF IInv, TableInv, TableStateOf
<1>5. /\ \A t \in Tasks : state'[t] \notin {"Staged", "BlockedApproval"}
      /\ state'[Head(queue)] # "Dead"
      /\ state'[Sender] # "BlockedReceive"
      /\ state'[Receiver] = "BlockedReceive" => ~endpoint.occupied /\ endpoint.senderBound
  BY <1>2, <1>3 DEF IInv, SchedInv, EndpointInv
<1> QED
  BY <1>2, <1>3, <1>4, <1>5, NoReplyType, ScheduleStepKeeps

(* Yield finds room in the run queue and a ready task at its head. *)
LEMMA YieldKeeps ==
    ASSUME IInv, NEW t \in Tasks, YieldTrap(t), UNCHANGED channelVars
    PROVE  IInv'
<1> USE TaskFacts
<1> DEFINE st == [state EXCEPT ![t] = "Ready"]
           q  == Append(queue, t)
<1>1. ScheduleOK(state, queue) /\ state[t] = "Running"
  BY DEF IInv, SchedInv, YieldTrap, Runs
<1>2. CanPush(queue, t) /\ ScheduleOK(st, q) /\ q # <<>>
  BY <1>1, EnqueueKeepsSchedule
<1>3. \A u \in Tasks : st[u] = IF u = t THEN "Ready" ELSE state[u]
  BY <1>1 DEF ScheduleOK
<1>4. \A u \in Tasks : st[u] \notin {"Running", "Exited"}
  BY <1>1, <1>3 DEF ScheduleOK
<1> HIDE DEF st, q
<1>5. /\ Dispatchable(st, q)
      /\ ScheduleOK(Dispatched(st, q), Tail(q))
      /\ \A u \in Tasks : Dispatched(st, q)[u] = IF u = Head(q) THEN "Running" ELSE st[u]
      /\ Head(q) \in Tasks /\ st[Head(q)] = "Ready"
  BY <1>2, <1>4, DispatchKeepsSchedule
<1>6. Switch(t, st, q, Reply("Ok", 0))
  BY <1>2, <1>5 DEF YieldTrap, st, q
<1>7. /\ state' = Dispatched(st, q) /\ queue' = Tail(q)
      /\ reply' = [reply EXCEPT ![t] = Reply("Ok", 0)]
      /\ UNCHANGED <<caps, spent, failed>>
  BY <1>6 DEF Switch
<1>8. \A u \in Tasks : caps[u].state \in TableStateOf[state'[u]]
  BY <1>1, <1>3, <1>5, <1>7 DEF IInv, TableInv, TableStateOf
<1>9. /\ \A u \in Tasks : state'[u] \notin {"Staged", "BlockedApproval"}
      /\ state[t] # "Dead" /\ state'[t] # "Dead"
      /\ state'[Sender] # "BlockedReceive"
      /\ state'[Receiver] = "BlockedReceive" => ~endpoint.occupied /\ endpoint.senderBound
  BY <1>1, <1>3, <1>5, <1>7 DEF IInv, SchedInv, EndpointInv
<1>10. Reply("Ok", 0) \in Replies /\ Reply("Ok", 0).status # "PeerExited"
  BY ReplyType DEF Statuses
<1> QED
  BY <1>5, <1>7, <1>8, <1>9, <1>10, ScheduleStepKeeps, Zenon

(* Exit leaves the task out of the run queue. *)
LEMMA ExitKeeps ==
    ASSUME IInv, NEW t \in Tasks, ExitTrap(t), UNCHANGED channelVars
    PROVE  IInv'
<1> USE TaskFacts
<1>1. ScheduleOK(state, queue) /\ state[t] = "Running"
  BY DEF IInv, SchedInv, ExitTrap, Runs
<1>2. /\ state' = [state EXCEPT ![t] = "Exited"]
      /\ queue' = queue
      /\ reply' = [reply EXCEPT ![t] = NoReply]
      /\ UNCHANGED <<caps, spent, failed>>
  BY DEF ExitTrap
<1>3. ScheduleOK(state', queue')
  BY <1>1, <1>2, ExitKeepsSchedule, Zenon
<1>4. \A u \in Tasks : state'[u] = IF u = t THEN "Exited" ELSE state[u]
  BY <1>1, <1>2 DEF ScheduleOK
<1>5. \A u \in Tasks : caps[u].state \in TableStateOf[state'[u]]
  BY <1>1, <1>4 DEF IInv, TableInv, TableStateOf
<1>6. /\ \A u \in Tasks : state'[u] \notin {"Staged", "BlockedApproval"}
      /\ state[t] # "Dead" /\ state'[t] # "Dead"
      /\ state'[Sender] # "BlockedReceive"
      /\ state'[Receiver] = "BlockedReceive" => ~endpoint.occupied /\ endpoint.senderBound
  BY <1>1, <1>4 DEF IInv, SchedInv, EndpointInv
<1> QED
  BY <1>2, <1>3, <1>5, <1>6, NoReplyType, ScheduleStepKeeps, Zenon

(* A trap that changes the running task's table, its history and registers. *)
LEMMA TableStepKeeps ==
    ASSUME IInv, NEW t \in Tasks, state[t] = "Running",
           NEW new, TableOK(new), new.state = "Live", ConfinedTo(new, RightsOf(t)),
           NEW pairs \in SUBSET Pairs, Buried(new, pairs),
           NEW result \in Replies, result.status # "PeerExited",
           caps' = [caps EXCEPT ![t] = new],
           spent' = [spent EXCEPT ![t] = pairs],
           reply' = [reply EXCEPT ![t] = result],
           UNCHANGED <<state, queue, failed>>, UNCHANGED channelVars
    PROVE  IInv'
<1> USE TaskFacts
<1>1. /\ state' = state /\ queue' = queue /\ failed' = failed
      /\ endpoint' = endpoint /\ sent' = sent /\ received' = received
  BY DEF channelVars
<1>2. TypeInv'
  BY <1>1 DEF IInv, TypeInv, TableOK
<1>3. caps[t].state = "Live"
  BY DEF IInv, TableInv, TableStateOf
<1>4. /\ caps'[t] = new /\ spent'[t] = pairs
      /\ \A u \in Tasks \ {t} : caps'[u] = caps[u] /\ spent'[u] = spent[u]
      /\ \A u \in Tasks : caps'[u].state = caps[u].state
  BY <1>3 DEF IInv, TypeInv
<1>5. SchedInv'
  BY <1>1 DEF IInv, SchedInv
<1>6. TableInv'
  BY <1>1, <1>4 DEF IInv, TableInv
<1>7. EndpointInv'
  BY <1>1, <1>4 DEF IInv, EndpointInv, AllDead
<1>8. MessageInv'
  BY <1>1 DEF IInv, TypeInv, MessageInv
<1> QED
  BY <1>2, <1>5, <1>6, <1>7, <1>8 DEF IInv

(* What the invariant says of a running task's table and history. *)
LEMMA RunningTable ==
    ASSUME IInv, NEW t \in Tasks, state[t] = "Running"
    PROVE  /\ TableOK(caps[t]) /\ caps[t].state = "Live"
           /\ ConfinedTo(caps[t], RightsOf(t))
           /\ spent[t] \in SUBSET Pairs
           /\ Buried(caps[t], spent[t])
BY DEF IInv, TypeInv, TableInv, TableStateOf

(* The Duplicate trap keeps the invariant. *)
LEMMA DuplicateKeepsIInv ==
    ASSUME IInv, NEW t \in Tasks, NEW raw \in Handles, NEW rights \in RightsRequests,
           DuplicateTrap(t, raw, rights), UNCHANGED channelVars
    PROVE  IInv'
<1> DEFINE status == DuplicateStatus(caps[t], raw, rights)
<1>1. state[t] = "Running"
  BY DEF DuplicateTrap, Runs
<1>2. status \in Statuses \ {"PeerExited"}
  BY DuplicateStatuses
<1>3. CASE status # "Ok"
  <2>1. Reject(t, status)
    BY <1>3 DEF DuplicateTrap
  <2> HIDE DEF status
  <2> QED
    BY <1>2, <2>1, RejectKeeps
<1>4. CASE status = "Ok"
  <2> DEFINE new == DuplicateEntry(caps[t], raw, rights)
             value == AllocatedHandle(caps[t])
  <2>1. /\ caps' = [caps EXCEPT ![t] = new]
        /\ reply' = [reply EXCEPT ![t] = Reply("Ok", value)]
        /\ UNCHANGED <<state, queue, spent, failed>>
    BY <1>4 DEF DuplicateTrap
  <2>2. rights \in SUBSET Rights
    BY MessageAssumption
  <2>3. /\ TableOK(caps[t]) /\ ConfinedTo(caps[t], RightsOf(t))
        /\ spent[t] \in SUBSET Pairs /\ Buried(caps[t], spent[t])
    BY <1>1, RunningTable
  <2>4. TableOK(new) /\ new.state = "Live" /\ ConfinedTo(new, RightsOf(t)) /\ Buried(new, spent[t])
    BY <1>4, <2>2, <2>3, DuplicateKeeps DEF Pairs
  <2>5. value \in Nat
    <3>1. FreeSlots(caps[t]) # {}
      BY <1>4 DEF DuplicateStatus, AllocateStatus
    <3>2. LowestFree(caps[t]) \in SlotIndex
      BY <3>1, LowestFreeIsFree DEF FreeSlots
    <3>3. caps[t].slots[LowestFree(caps[t])].generation \in Nat
      BY <2>3, <3>2, CapabilityAssumption DEF TableOK, Tables, Slots
    <3> QED
      BY <3>2, <3>3, CapabilityAssumption DEF AllocatedHandle, Handle, SlotIndex
  <2> HIDE DEF new, value
  <2>6. Reply("Ok", value) \in Replies /\ Reply("Ok", value).status # "PeerExited"
    BY <2>5, ReplyType DEF Statuses
  <2>7. spent' = [spent EXCEPT ![t] = spent[t]]
    BY <2>1 DEF IInv, TypeInv
  <2> QED
    BY <1>1, <2>1, <2>3, <2>4, <2>6, <2>7, TableStepKeeps, Zenon
<1> QED
  BY <1>3, <1>4

(* The Close trap keeps the invariant. *)
LEMMA CloseKeepsIInv ==
    ASSUME IInv, NEW t \in Tasks, NEW raw \in Handles,
           CloseTrap(t, raw), UNCHANGED channelVars
    PROVE  IInv'
<1>1. state[t] = "Running"
  BY DEF CloseTrap, Runs
<1>2. CASE ~Selects(caps[t], raw)
  <2>1. Reject(t, "InvalidHandle")
    BY <1>2 DEF CloseTrap
  <2>2. "InvalidHandle" \in Statuses
    BY DEF Statuses
  <2> QED
    BY <2>1, <2>2, RejectKeeps
<1>3. CASE Selects(caps[t], raw)
  <2> DEFINE new == CloseHandle(caps[t], raw)
             pair == <<HandleSlot(raw), HandleGeneration(raw)>>
             pairs == spent[t] \cup {pair}
  <2>1. /\ caps' = [caps EXCEPT ![t] = new]
        /\ spent' = [spent EXCEPT ![t] = pairs]
        /\ reply' = [reply EXCEPT ![t] = Reply("Ok", 0)]
        /\ UNCHANGED <<state, queue, failed>>
    BY <1>3 DEF CloseTrap
  <2>2. /\ TableOK(caps[t]) /\ ConfinedTo(caps[t], RightsOf(t))
        /\ spent[t] \in SUBSET Pairs /\ Buried(caps[t], spent[t])
    BY <1>1, RunningTable
  <2>3. /\ TableOK(new) /\ new.state = "Live" /\ ConfinedTo(new, RightsOf(t))
        /\ pair \in Pairs /\ Buried(new, pairs)
    BY <1>3, <2>2, CloseHandleBuries DEF Pairs
  <2> HIDE DEF new, pair
  <2>4. pairs \in SUBSET Pairs
    BY <2>2, <2>3
  <2>5. Reply("Ok", 0) \in Replies /\ Reply("Ok", 0).status # "PeerExited"
    BY ReplyType DEF Statuses
  <2> HIDE DEF pairs
  <2> QED
    BY <1>1, <2>1, <2>3, <2>4, <2>5, TableStepKeeps, Zenon
<1> QED
  BY <1>2, <1>3
-----------------------------------------------------------------------------
(* Only a role that owns a right resolves an endpoint for it. *)
LEMMA ResolvedRole ==
    ASSUME IInv, NEW t \in Tasks, state[t] = "Running", NEW raw \in Handles, NEW right,
           ResolveEndpoint(t, raw, right) = "Ok"
    PROVE  right \in RightsOf(t)
<1>1. ResolveTyped(caps[t], raw, "Endpoint", right) = "Ok"
  BY DEF ResolveEndpoint
<1>2. right \in SelectedEntry(caps[t], raw).rights
  BY <1>1, ResolvedEntry
<1>3. HandleSlot(raw) \in SlotIndex /\ ConfinedTo(caps[t], RightsOf(t))
  BY HandleSlotInTable, RunningTable
<1> QED
  BY <1>2, <1>3 DEF ConfinedTo, SelectedEntry

(* The statuses of resolve_endpoint. *)
LEMMA EndpointStatuses ==
    ASSUME NEW t, NEW raw, NEW right
    PROVE  ResolveEndpoint(t, raw, right)
              \in {"Ok", "InvalidHandle", "WrongObject", "RightsDenied"}
BY ResolveStatuses DEF ResolveEndpoint

(* What each status of send says of the endpoint. *)
LEMMA SendStatuses ==
    ASSUME NEW t, NEW raw
    PROVE  /\ SendStatus(t, raw) \in Statuses
           /\ SendStatus(t, raw) \in {"Ok", "PeerExited"} => ResolveEndpoint(t, raw, "Send") = "Ok"
           /\ SendStatus(t, raw) = "Ok" => endpoint.receiverBound /\ ~endpoint.occupied
<1>1. ResolveEndpoint(t, raw, "Send") \in {"Ok", "InvalidHandle", "WrongObject", "RightsDenied"}
  BY EndpointStatuses
<1>2. CASE ResolveEndpoint(t, raw, "Send") # "Ok"
  BY <1>1, <1>2 DEF SendStatus, Statuses
<1>3. CASE ResolveEndpoint(t, raw, "Send") = "Ok"
  BY <1>3 DEF SendStatus, Statuses
<1> QED
  BY <1>2, <1>3

(* What each status of receive says of the endpoint. *)
LEMMA ReceiveStatuses ==
    ASSUME NEW t, NEW raw
    PROVE  /\ ReceiveStatus(t, raw) \in Statuses
           /\ ReceiveStatus(t, raw) \in {"Ok", "PeerExited"} =>
                 ResolveEndpoint(t, raw, "Receive") = "Ok"
           /\ ReceiveStatus(t, raw) = "PeerExited" => ~endpoint.occupied /\ ~endpoint.senderBound
           /\ ReceiveStatus(t, raw) = "Ok" /\ ~endpoint.occupied => endpoint.senderBound
<1>1. ResolveEndpoint(t, raw, "Receive") \in {"Ok", "InvalidHandle", "WrongObject", "RightsDenied"}
  BY EndpointStatuses, SMTT(30)
<1> QED
  BY <1>1 DEF ReceiveStatus, Statuses

(* The running task's side of the endpoint is bound. *)
LEMMA RunningBound ==
    ASSUME IInv, NEW t \in Tasks, state[t] = "Running"
    PROVE  /\ t = Sender => endpoint.senderBound
           /\ t = Receiver => endpoint.receiverBound
           /\ endpoint.live /\ ~AllDead
BY RunningTable DEF IInv, EndpointInv, AllDead

(* Filling or emptying the slot changes no other field of the endpoint. *)
LEMMA FilledFields ==
    ASSUME NEW e \in Endpoints, NEW m \in Messages
    PROVE  /\ Filled(e, m) \in Endpoints
           /\ Filled(e, m).occupied = TRUE /\ Filled(e, m).payload = m
           /\ Filled(e, m).live = e.live
           /\ Filled(e, m).senderBound = e.senderBound
           /\ Filled(e, m).receiverBound = e.receiverBound
BY Zenon DEF Filled, Endpoints

(* Emptying the slot leaves the bindings alone. *)
LEMMA EmptiedFields ==
    ASSUME NEW e \in Endpoints
    PROVE  /\ Emptied(e) \in Endpoints
           /\ Emptied(e).occupied = FALSE /\ Emptied(e).payload = 0
           /\ Emptied(e).live = e.live
           /\ Emptied(e).senderBound = e.senderBound
           /\ Emptied(e).receiverBound = e.receiverBound
BY Zenon DEF Emptied, Endpoints

(* A send to a receiver that is not blocked fills the slot. *)
LEMMA DepositKeeps ==
    ASSUME IInv, NEW t \in Tasks, t = Sender, state[t] = "Running", NEW m \in Messages,
           endpoint.receiverBound, ~endpoint.occupied,
           state[Receiver] # "BlockedReceive", Deposit(t, m)
    PROVE  IInv'
<1> USE TaskFacts
<1>1. /\ reply' = [reply EXCEPT ![t] = Reply("Ok", 0)]
      /\ state' = state /\ queue' = queue /\ caps' = caps /\ spent' = spent /\ failed' = failed
      /\ endpoint' = Filled(endpoint, m)
      /\ sent' = Append(sent, m) /\ received' = received
  BY DEF Deposit, Resume
<1>2. Reply("Ok", 0) \in Replies
  BY ReplyType DEF Statuses
<1>3. endpoint \in Endpoints /\ endpoint.senderBound /\ endpoint.live /\ ~AllDead
  BY RunningBound DEF IInv, EndpointInv
<1>4. /\ endpoint' \in Endpoints
      /\ endpoint'.occupied = TRUE /\ endpoint'.payload = m /\ endpoint'.live = endpoint.live
      /\ endpoint'.senderBound = endpoint.senderBound
      /\ endpoint'.receiverBound = endpoint.receiverBound
  BY <1>1, <1>3, FilledFields, Zenon
<1>5. TypeInv'
  BY <1>1, <1>2, SMTT(30) DEF IInv, TypeInv
<1>6. SchedInv' /\ TableInv'
  BY <1>1 DEF IInv, SchedInv, TableInv
<1>7. EndpointInv'
  <2>1. ~AllDead'
    BY <1>1, <1>3 DEF AllDead
  <2> QED
    BY <1>1, <1>3, <1>4, <2>1 DEF IInv, EndpointInv
<1>8. MessageInv'
  <2>1. sent = received /\ sent \in Seq(Messages)
    BY DEF IInv, MessageInv
  <2>2. sent' \in Seq(Messages) /\ received' \in Seq(Messages)
    BY <1>1, <2>1
  <2>3. reply'[Receiver].status # "PeerExited"
    BY <1>1, <1>3 DEF IInv, TypeInv, MessageInv
  <2> QED
    BY <1>1, <1>4, <2>1, <2>2, <2>3 DEF MessageInv
<1> QED
  BY <1>5, <1>6, <1>7, <1>8 DEF IInv

(* A send to a blocked receiver hands the payload over and wakes it. *)
LEMMA HandOverKeeps ==
    ASSUME IInv, NEW t \in Tasks, t = Sender, state[t] = "Running", NEW m \in Messages,
           endpoint.receiverBound, ~endpoint.occupied,
           state[Receiver] = "BlockedReceive", HandOver(t, m)
    PROVE  IInv'
<1> USE TaskFacts
<1>1. /\ CanPush(queue, Receiver)
      /\ ScheduleOK(WakeState(Receiver), Append(queue, Receiver))
  BY EnqueueKeepsSchedule DEF IInv, SchedInv, WakeState
<1>2. m \in Nat
  BY MessageAssumption
<1>3. /\ Reply("Ok", 0) \in Replies /\ Reply("Ok", m) \in Replies
      /\ Reply("Ok", m).status = "Ok" /\ Reply("Ok", m).out[1] = m
  BY <1>2, ReplyType DEF Statuses
<1>4. /\ state' = WakeState(Receiver) /\ queue' = Append(queue, Receiver)
      /\ reply' = [reply EXCEPT ![Receiver] = Reply("Ok", m), ![t] = Reply("Ok", 0)]
      /\ sent' = Append(sent, m) /\ received' = Append(received, reply'[Receiver].out[1])
      /\ endpoint' = Emptied(endpoint)
      /\ caps' = caps /\ spent' = spent /\ failed' = failed
  BY <1>1 DEF HandOver
<1>5. reply' \in [Tasks -> Replies] /\ reply'[Receiver] = Reply("Ok", m)
  <2>1. reply \in [Tasks -> Replies]
    BY DEF IInv, TypeInv
  <2> QED
    BY <1>3, <1>4, <2>1, Zenon
<1>6. received' = Append(received, m)
  BY <1>3, <1>4, <1>5
<1>7. \A u \in Tasks : state'[u] = IF u = Receiver THEN "Ready" ELSE state[u]
  BY <1>4 DEF WakeState, IInv, SchedInv, ScheduleOK
<1>8. endpoint \in Endpoints /\ endpoint.senderBound /\ endpoint.live
  BY RunningBound DEF IInv, EndpointInv
<1>9. /\ endpoint' \in Endpoints
      /\ endpoint'.occupied = FALSE /\ endpoint'.payload = 0 /\ endpoint'.live = endpoint.live
      /\ endpoint'.senderBound = endpoint.senderBound
      /\ endpoint'.receiverBound = endpoint.receiverBound
  BY <1>4, <1>8, EmptiedFields, Zenon
<1>10. TypeInv'
  BY <1>4, <1>5, Zenon DEF IInv, TypeInv
<1>11. SchedInv'
  BY <1>1, <1>4, <1>7, Zenon DEF IInv, SchedInv
<1>12. TableInv'
  <2>1. \A u \in Tasks : caps[u].state \in TableStateOf[state'[u]]
    BY <1>7, TableStateFacts, SMTT(30) DEF IInv, TableInv
  <2> QED
    BY <1>4, <2>1 DEF IInv, TableInv
<1>13. EndpointInv'
  <2>1. ~AllDead'
    BY <1>7 DEF AllDead
  <2> QED
    BY <1>4, <1>7, <1>8, <1>9, <2>1 DEF IInv, EndpointInv
<1>14. MessageInv'
  <2>1. sent = received /\ sent \in Seq(Messages)
    BY DEF IInv, MessageInv
  <2>2. sent' = received' /\ sent' \in Seq(Messages) /\ received' \in Seq(Messages)
    BY <1>4, <1>6, <2>1
  <2>3. reply'[Receiver].status # "PeerExited"
    BY <1>3, <1>5
  <2> QED
    BY <1>9, <2>2, <2>3 DEF MessageInv
<1> QED
  BY <1>10, <1>11, <1>12, <1>13, <1>14 DEF IInv

(* A receive from a full slot empties it. *)
LEMMA TakeKeeps ==
    ASSUME IInv, NEW t \in Tasks, t = Receiver, state[t] = "Running",
           endpoint.occupied, Take(t)
    PROVE  IInv'
<1> USE TaskFacts
<1> DEFINE m == endpoint.payload
<1>1. endpoint \in Endpoints /\ m \in Messages /\ endpoint.live /\ endpoint.receiverBound
  BY RunningBound DEF IInv, EndpointInv
<1>2. m \in Nat
  BY <1>1, MessageAssumption, Zenon
<1>3. Reply("Ok", m) \in Replies /\ Reply("Ok", m).status = "Ok" /\ Reply("Ok", m).out[1] = m
  BY <1>2, ReplyType DEF Statuses
<1>4. /\ reply' = [reply EXCEPT ![t] = Reply("Ok", m)]
      /\ state' = state /\ queue' = queue /\ caps' = caps /\ spent' = spent /\ failed' = failed
      /\ received' = Append(received, reply'[t].out[1])
      /\ endpoint' = Emptied(endpoint)
      /\ sent' = sent
  BY DEF Take, Resume
<1> HIDE DEF m
<1>5. reply' \in [Tasks -> Replies] /\ reply'[t] = Reply("Ok", m)
  BY <1>3, <1>4 DEF IInv, TypeInv
<1>6. received' = Append(received, m)
  BY <1>3, <1>4, <1>5
<1>7. /\ endpoint' \in Endpoints
      /\ endpoint'.occupied = FALSE /\ endpoint'.payload = 0 /\ endpoint'.live = endpoint.live
      /\ endpoint'.senderBound = endpoint.senderBound
      /\ endpoint'.receiverBound = endpoint.receiverBound
  BY <1>1, <1>4, EmptiedFields, Zenon
<1>8. TypeInv'
  BY <1>4, <1>5, SMTT(30) DEF IInv, TypeInv
<1>9. SchedInv' /\ TableInv'
  BY <1>4 DEF IInv, SchedInv, TableInv
<1>10. EndpointInv'
  <2>1. ~AllDead'
    BY <1>4 DEF AllDead
  <2> QED
    BY <1>1, <1>4, <1>7, <2>1 DEF IInv, EndpointInv
<1>11. MessageInv'
  <2>1. /\ sent = Append(received, m) /\ sent \in Seq(Messages) /\ received \in Seq(Messages)
    BY <1>1 DEF IInv, MessageInv, m
  <2>2. sent' = received' /\ sent' \in Seq(Messages) /\ received' \in Seq(Messages)
    BY <1>4, <1>6, <2>1
  <2>3. reply'[Receiver].status # "PeerExited"
    BY <1>3, <1>5
  <2> QED
    BY <1>1, <1>7, <2>2, <2>3 DEF MessageInv
<1> QED
  BY <1>8, <1>9, <1>10, <1>11 DEF IInv

(* The receiver blocks only while the sender is ready: dispatch succeeds. *)
LEMMA BlockKeeps ==
    ASSUME IInv, NEW t \in Tasks, t = Receiver, state[t] = "Running",
           ~endpoint.occupied, endpoint.senderBound, Block(t)
    PROVE  IInv'
<1> USE TaskFacts
<1> DEFINE st == [state EXCEPT ![t] = "BlockedReceive"]
<1>1. ScheduleOK(state, queue)
  BY DEF IInv, SchedInv
<1>2. ScheduleOK(st, queue)
  BY <1>1, ParkKeepsSchedule DEF TaskStates
<1>3. \A u \in Tasks : st[u] = IF u = t THEN "BlockedReceive" ELSE state[u]
  BY <1>1 DEF ScheduleOK
<1>4. state[Sender] = "Ready"
  <2>1. caps[Sender].state \notin {"Closing", "Dead"}
    BY DEF IInv, EndpointInv
  <2>2. caps[Sender].state \in TableStateOf[state[Sender]]
    BY DEF IInv, TableInv
  <2>3. state[Sender] # "Running" /\ state[Sender] # "Exited"
    BY <1>1 DEF ScheduleOK
  <2>4. state[Sender] \in TaskStates /\ state[Sender] \notin {"Staged", "BlockedApproval", "BlockedReceive"}
    BY <1>1 DEF IInv, SchedInv, ScheduleOK
  <2> QED
    BY <2>1, <2>2, <2>3, <2>4 DEF TableStateOf, TaskStates
<1>5. \A u \in Tasks : st[u] \notin {"Running", "Exited"}
  BY <1>3, <1>4 DEF Tasks
<1>6. queue # <<>>
  BY <1>1, <1>4, ReadyIsQueued
<1> HIDE DEF st
<1>7. /\ Dispatchable(st, queue)
      /\ ScheduleOK(Dispatched(st, queue), Tail(queue))
      /\ \A u \in Tasks :
            Dispatched(st, queue)[u] = IF u = Head(queue) THEN "Running" ELSE st[u]
      /\ Head(queue) \in Tasks /\ st[Head(queue)] = "Ready"
  BY <1>2, <1>5, <1>6, DispatchKeepsSchedule
<1>8. Switch(t, st, queue, NoReply) /\ UNCHANGED channelVars
  BY <1>7 DEF Block, st
<1>9. /\ state' = Dispatched(st, queue) /\ queue' = Tail(queue)
      /\ reply' = [reply EXCEPT ![t] = NoReply]
      /\ UNCHANGED <<caps, spent, failed>>
  BY <1>8 DEF Switch
<1>10. \A u \in Tasks : caps[u].state \in TableStateOf[state'[u]]
  BY <1>3, <1>7, <1>9, SMTT(30) DEF IInv, TableInv, TableStateOf
<1>11. /\ \A u \in Tasks : state'[u] \notin {"Staged", "BlockedApproval"}
       /\ state[t] # "Dead" /\ state'[t] # "Dead"
       /\ state'[Sender] # "BlockedReceive"
  BY <1>3, <1>7, <1>9 DEF IInv, SchedInv
<1> QED
  BY <1>7, <1>8, <1>9, <1>10, <1>11, NoReplyType, ScheduleStepKeeps, Zenon

(* The Send trap keeps the invariant. *)
LEMMA SendKeeps ==
    ASSUME IInv, NEW t \in Tasks, NEW raw \in Handles, NEW m \in Messages, SendTrap(t, raw, m)
    PROVE  IInv'
<1> DEFINE status == SendStatus(t, raw)
<1>1. state[t] = "Running"
  BY DEF SendTrap, Runs
<1>2. /\ status \in Statuses
      /\ status \in {"Ok", "PeerExited"} => t = Sender
      /\ status = "Ok" => endpoint.receiverBound /\ ~endpoint.occupied
  BY <1>1, SendStatuses, ResolvedRole DEF RightsOf
<1>3. CASE status # "Ok"
  <2>1. Reject(t, status) /\ UNCHANGED channelVars
    BY <1>3 DEF SendTrap
  <2> HIDE DEF status
  <2> QED
    BY <1>2, <2>1, RejectKeeps, TaskFacts
<1>4. CASE status = "Ok"
  BY <1>1, <1>2, <1>4, HandOverKeeps, DepositKeeps DEF SendTrap
<1> QED
  BY <1>3, <1>4

(* The Receive trap keeps the invariant. *)
LEMMA ReceiveKeeps ==
    ASSUME IInv, NEW t \in Tasks, NEW raw \in Handles, ReceiveTrap(t, raw)
    PROVE  IInv'
<1> DEFINE status == ReceiveStatus(t, raw)
<1>1. state[t] = "Running"
  BY DEF ReceiveTrap, Runs
<1>2. /\ status \in Statuses
      /\ status \in {"Ok", "PeerExited"} => t = Receiver
      /\ status = "PeerExited" => ~endpoint.occupied /\ ~endpoint.senderBound
      /\ status = "Ok" /\ ~endpoint.occupied => endpoint.senderBound
  BY <1>1, ReceiveStatuses, ResolvedRole DEF RightsOf, Tasks
<1>3. CASE status # "Ok"
  <2>1. Reject(t, status) /\ UNCHANGED channelVars
    BY <1>3 DEF ReceiveTrap
  <2>2. status = "PeerExited" => received = sent /\ ~endpoint.senderBound
    BY <1>1, <1>2, RunningBound DEF IInv, MessageInv
  <2> HIDE DEF status
  <2> QED
    BY <1>2, <2>1, <2>2, RejectKeeps
<1>4. CASE status = "Ok"
  BY <1>1, <1>2, <1>4, TakeKeeps, BlockKeeps DEF ReceiveTrap
<1> QED
  BY <1>3, <1>4
-----------------------------------------------------------------------------
(* begin_teardown closes the exited task's table and buries what it held. *)
LEMMA CloseTableFacts ==
    ASSUME IInv, NEW t \in Tasks, Tearing(t, "Live"), CloseTable(t)
    PROVE  /\ caps' \in [Tasks -> Tables] /\ spent' \in [Tasks -> SUBSET Pairs]
           /\ TableOK(caps'[t]) /\ caps'[t].state = "Closing"
           /\ ConfinedTo(caps'[t], RightsOf(t)) /\ Buried(caps'[t], spent'[t])
           /\ \A u \in Tasks \ {t} : caps'[u] = caps[u] /\ spent'[u] = spent[u]
<1> DEFINE new == CloseAll(caps[t])
           pairs == spent[t] \cup HeldPairs(caps[t])
<1>1. /\ caps \in [Tasks -> Tables] /\ spent \in [Tasks -> SUBSET Pairs]
      /\ TableOK(caps[t]) /\ Buried(caps[t], spent[t])
  BY DEF IInv, TypeInv, TableInv, Tearing
<1>2. /\ TableOK(new) /\ new.state = "Closing" /\ NoEntries(new)
      /\ HeldPairs(caps[t]) \subseteq Pairs /\ Buried(new, pairs)
  BY <1>1, CloseAllBuries DEF Pairs
<1>3. caps' = [caps EXCEPT ![t] = new] /\ spent' = [spent EXCEPT ![t] = pairs]
  BY DEF CloseTable, HeldPairs
<1> HIDE DEF new
<1>4. pairs \in SUBSET Pairs
  BY <1>1, <1>2
<1>5. ConfinedTo(new, RightsOf(t))
  BY <1>2, NoEntryFacts DEF NoEntries, ConfinedTo
<1> HIDE DEF pairs
<1> QED
  BY <1>1, <1>2, <1>3, <1>4, <1>5 DEF TableOK

(* Unbinding one side of the endpoint leaves the other alone. *)
LEMMA UnboundFields ==
    ASSUME NEW e \in Endpoints
    PROVE  /\ LET new == [e EXCEPT !.senderBound = FALSE]
              IN  /\ new \in Endpoints /\ new.senderBound = FALSE
                  /\ new.receiverBound = e.receiverBound /\ new.live = e.live
                  /\ new.occupied = e.occupied /\ new.payload = e.payload
           /\ LET new == [e EXCEPT !.receiverBound = FALSE]
              IN  /\ new \in Endpoints /\ new.receiverBound = FALSE
                  /\ new.senderBound = e.senderBound /\ new.live = e.live
                  /\ new.occupied = e.occupied /\ new.payload = e.payload
BY Zenon DEF Endpoints

(* begin_teardown of the sender keeps the invariant. *)
LEMMA BeginSenderKeeps == IInv /\ BeginSenderTeardown => IInv'
<1> SUFFICES ASSUME IInv, BeginSenderTeardown PROVE IInv'
  OBVIOUS
<1> USE TaskFacts
<1>1. Tearing(Sender, "Live") /\ state[Sender] = "Exited" /\ caps[Sender].state = "Live"
  BY DEF BeginSenderTeardown, Tearing
<1> DEFINE wakes == ~endpoint.occupied /\ state[Receiver] = "BlockedReceive"
<1>2. wakes => /\ CanPush(queue, Receiver)
               /\ ScheduleOK(WakeState(Receiver), Append(queue, Receiver))
  BY EnqueueKeepsSchedule DEF IInv, SchedInv, WakeState
<1>3. /\ CloseTable(Sender)
      /\ endpoint' = [endpoint EXCEPT !.senderBound = FALSE]
      /\ failed' = failed /\ sent' = sent /\ received' = received
  BY <1>2 DEF BeginSenderTeardown
<1>4. endpoint \in Endpoints /\ endpoint.live
  BY <1>1 DEF IInv, EndpointInv
<1>5. /\ endpoint' \in Endpoints /\ endpoint'.senderBound = FALSE
      /\ endpoint'.receiverBound = endpoint.receiverBound /\ endpoint'.live = endpoint.live
      /\ endpoint'.occupied = endpoint.occupied /\ endpoint'.payload = endpoint.payload
  BY <1>3, <1>4, UnboundFields, Zenon
<1>6. /\ caps' \in [Tasks -> Tables] /\ spent' \in [Tasks -> SUBSET Pairs]
      /\ TableOK(caps'[Sender]) /\ caps'[Sender].state = "Closing"
      /\ ConfinedTo(caps'[Sender], RightsOf(Sender)) /\ Buried(caps'[Sender], spent'[Sender])
      /\ caps'[Receiver] = caps[Receiver] /\ spent'[Receiver] = spent[Receiver]
  BY <1>1, <1>3, CloseTableFacts
<1>7. /\ ScheduleOK(state', queue')
      /\ \A u \in Tasks : state'[u] = IF wakes /\ u = Receiver THEN "Ready" ELSE state[u]
  <2>1. CASE wakes
    BY <1>2, <2>1, Zenon DEF BeginSenderTeardown, WakeState, IInv, SchedInv, ScheduleOK
  <2>2. CASE ~wakes
    BY <2>2 DEF BeginSenderTeardown, IInv, SchedInv
  <2> QED
    BY <2>1, <2>2
<1>8. /\ reply' \in [Tasks -> Replies]
      /\ ~wakes => reply' = reply
  <2>1. Reply("PeerExited", 0) \in Replies
    BY ReplyType DEF Statuses
  <2> QED
    BY <1>2, <2>1 DEF BeginSenderTeardown, IInv, TypeInv
<1>9. TypeInv'
  BY <1>3, <1>6, <1>8 DEF IInv, TypeInv
<1>10. SchedInv'
  BY <1>7, SMTT(30) DEF IInv, SchedInv
<1>11. TableInv'
  <2>1. /\ TableOK(caps[Receiver]) /\ caps[Receiver].state \in TableStateOf[state[Receiver]]
        /\ ConfinedTo(caps[Receiver], RightsOf(Receiver))
        /\ caps[Receiver].state # "Dead" => Buried(caps[Receiver], spent[Receiver])
    BY Zenon DEF IInv, TableInv
  <2>2. Sender # Receiver /\ \A u \in Tasks : u = Sender \/ u = Receiver
    BY DEF Tasks
  <2>3. caps'[Sender].state \in TableStateOf[state'[Sender]]
    <3>1. state'[Sender] = "Exited"
      BY <1>1, <1>7, <2>2, Zenon
    <3> QED
      BY <1>6, <3>1, TableStateFacts
  <2>4. caps'[Receiver].state \in TableStateOf[state'[Receiver]]
    <3>1. state'[Receiver] = IF wakes THEN "Ready" ELSE state[Receiver]
      BY <1>7, Zenon
    <3>2. wakes => state[Receiver] = "BlockedReceive"
      BY Zenon
    <3> HIDE DEF wakes
    <3> QED
      BY <1>6, <2>1, <3>1, <3>2, TableStateFacts
  <2> QED
    BY <1>6, <2>1, <2>2, <2>3, <2>4, Zenon DEF TableInv
<1>12. EndpointInv'
  <2>1. state'[Sender] = "Exited" /\ ~AllDead'
    BY <1>1, <1>7 DEF AllDead
  <2>2. state'[Receiver] # "BlockedReceive"
    BY <1>7 DEF IInv, EndpointInv
  <2> QED
    BY <1>4, <1>5, <1>6, <2>1, <2>2 DEF IInv, EndpointInv
<1>13. MessageInv'
  <2>1. wakes => endpoint.receiverBound
    BY SMTT(30) DEF IInv, TableInv, TableStateOf, EndpointInv
  <2>2. wakes => received = sent
    BY <2>1 DEF IInv, MessageInv
  <2>3. reply'[Receiver].status = "PeerExited" => received = sent
    BY <1>8, <2>2 DEF IInv, MessageInv
  <2> QED
    BY <1>3, <1>5, <2>3 DEF IInv, MessageInv
<1> QED
  BY <1>9, <1>10, <1>11, <1>12, <1>13 DEF IInv

(* begin_teardown of the receiver keeps the invariant. *)
LEMMA BeginReceiverKeeps == IInv /\ BeginReceiverTeardown => IInv'
<1> SUFFICES ASSUME IInv, BeginReceiverTeardown PROVE IInv'
  OBVIOUS
<1> USE TaskFacts
<1>1. /\ Tearing(Receiver, "Live") /\ state[Receiver] = "Exited"
      /\ caps[Receiver].state = "Live"
  BY DEF BeginReceiverTeardown, Tearing
<1>2. /\ CloseTable(Receiver)
      /\ endpoint' = [Emptied(endpoint) EXCEPT !.receiverBound = FALSE]
      /\ state' = state /\ queue' = queue /\ reply' = reply /\ failed' = failed
      /\ sent' = sent /\ received' = received
  BY DEF BeginReceiverTeardown
<1>3. endpoint \in Endpoints /\ endpoint.live /\ endpoint.receiverBound
  BY <1>1 DEF IInv, EndpointInv
<1>4. /\ endpoint' \in Endpoints /\ endpoint'.receiverBound = FALSE
      /\ endpoint'.senderBound = endpoint.senderBound /\ endpoint'.live = endpoint.live
      /\ endpoint'.occupied = FALSE /\ endpoint'.payload = 0
  <2> DEFINE e == Emptied(endpoint)
  <2>1. /\ e \in Endpoints /\ e.occupied = FALSE /\ e.payload = 0 /\ e.live = endpoint.live
        /\ e.senderBound = endpoint.senderBound
    BY <1>3, EmptiedFields, Zenon
  <2>2. endpoint' = [e EXCEPT !.receiverBound = FALSE]
    BY <1>2
  <2> HIDE DEF e
  <2>3. /\ endpoint' \in Endpoints /\ endpoint'.receiverBound = FALSE
        /\ endpoint'.senderBound = e.senderBound /\ endpoint'.live = e.live
        /\ endpoint'.occupied = e.occupied /\ endpoint'.payload = e.payload
    BY <2>1, <2>2, UnboundFields, Zenon
  <2> QED
    BY <2>1, <2>3
<1>5. /\ caps' \in [Tasks -> Tables] /\ spent' \in [Tasks -> SUBSET Pairs]
      /\ TableOK(caps'[Receiver]) /\ caps'[Receiver].state = "Closing"
      /\ ConfinedTo(caps'[Receiver], RightsOf(Receiver))
      /\ Buried(caps'[Receiver], spent'[Receiver])
      /\ caps'[Sender] = caps[Sender] /\ spent'[Sender] = spent[Sender]
  BY <1>1, <1>2, CloseTableFacts
<1>6. TypeInv'
  BY <1>2, <1>5 DEF IInv, TypeInv
<1>7. SchedInv'
  BY <1>2 DEF IInv, SchedInv
<1>8. TableInv'
  BY <1>1, <1>2, <1>5 DEF IInv, TableInv, TableStateOf, Tasks
<1>9. EndpointInv'
  <2>1. ~AllDead'
    BY <1>1, <1>2 DEF AllDead
  <2> QED
    BY <1>1, <1>2, <1>3, <1>4, <1>5, <2>1, Zenon DEF IInv, EndpointInv
<1>10. MessageInv'
  <2>1. sent = received \/ \E m \in Messages : sent = Append(received, m)
    BY <1>3 DEF IInv, MessageInv, EndpointInv
  <2> QED
    BY <1>2, <1>4, <2>1 DEF IInv, MessageInv
<1> QED
  BY <1>6, <1>7, <1>8, <1>9, <1>10 DEF IInv

(* Teardown finds a ready successor, or every task dead: it never fails. *)
LEMMA CompleteKeeps ==
    ASSUME IInv, NEW t \in Tasks, CompleteTeardown(t)
    PROVE  IInv'
<1> USE TaskFacts
<1>1. /\ state[t] = "Exited" /\ caps[t].state = "Closing" /\ ScheduleOK(state, queue)
      /\ state \in [Tasks -> TaskStates]
  BY SMTT(30) DEF CompleteTeardown, Tearing, IInv, SchedInv, ScheduleOK
<1>2. NoEntries(caps[t])
  BY <1>1 DEF IInv, TableInv, TableOK, TableValid
<1>3. \A u \in Tasks \ {t} : state[u] \in {"Ready", "Dead"}
  <2> SUFFICES ASSUME NEW u \in Tasks \ {t} PROVE state[u] \in {"Ready", "Dead"}
    OBVIOUS
  <2>1. state[u] \notin {"Running", "Exited"}
    BY <1>1 DEF ScheduleOK
  <2>2. state[u] # "BlockedReceive"
    <3>1. CASE u = Sender
      BY <3>1 DEF IInv, SchedInv
    <3>2. CASE u = Receiver
      <4>1. t = Sender
        BY <3>2 DEF Tasks
      <4> QED
        BY <1>1, <3>2, <4>1 DEF IInv, EndpointInv
    <3> QED
      BY <3>1, <3>2 DEF Tasks
  <2>3. state[u] \in TaskStates /\ state[u] \notin {"Staged", "BlockedApproval"}
    BY <1>1 DEF IInv, SchedInv
  <2> QED
    BY <2>1, <2>2, <2>3 DEF TaskStates
<1>4. /\ ScheduleOK(Reaped(t), queue)
      /\ \A u \in Tasks : Reaped(t)[u] = IF u = t THEN "Dead" ELSE state[u]
  BY <1>1, ParkKeepsSchedule, Zenon DEF Reaped, TaskStates
<1> DEFINE last == \A u \in Tasks : Reaped(t)[u] = "Dead"
<1>5. CASE last
  <2>1. LastReaped(t)
    <3>1. queue = <<>>
      <4>1. Queued(queue) \subseteq Tasks
        BY <1>1 DEF ScheduleOK, QueueOK, Queued
      <4>2. Queued(queue) = {}
        BY <1>4, <1>5, <4>1 DEF ScheduleOK
      <4> QED
        BY <1>1, <4>2, QueueEmptiness DEF ScheduleOK
    <3> QED
      BY <1>5, <3>1 DEF LastReaped
  <2>2. /\ state' = Reaped(t) /\ queue' = queue /\ caps' = [caps EXCEPT ![t] = DeadTable]
        /\ reply' = [reply EXCEPT ![t] = NoReply] /\ spent' = spent /\ failed' = failed
        /\ endpoint' = NoEndpoint /\ sent' = sent /\ received' = received
    BY <1>2, <1>5, <2>1 DEF CompleteTeardown, CanReap, Reap
  <2>3. \A u \in Tasks : state'[u] = "Dead" /\ TableOK(caps'[u]) /\ caps'[u].state = "Dead"
    <3>1. \A u \in Tasks \ {t} : TableOK(caps[u]) /\ caps[u].state = "Dead"
      <4>1. \A u \in Tasks \ {t} : state[u] = "Dead"
        BY <1>4, <1>5
      <4>2. \A u \in Tasks : TableOK(caps[u]) /\ caps[u].state \in TableStateOf[state[u]]
        BY Zenon DEF IInv, TableInv
      <4> QED
        BY <4>1, <4>2, TableStateFacts
    <3> QED
      BY <1>5, <2>2, <3>1, DeadTableIsOK DEF IInv, TypeInv
  <2>4. \A u \in Tasks : ConfinedTo(caps'[u], RightsOf(u))
    <3>1. ConfinedTo(DeadTable, RightsOf(t))
      BY DeadTableIsOK, NoEntryFacts DEF NoEntries, ConfinedTo
    <3> QED
      BY <2>2, <3>1 DEF IInv, TypeInv, TableInv
  <2>5. TypeInv'
    BY <2>2, DeadTableIsOK, NoReplyType, SMTT(30) DEF IInv, TypeInv, TableOK
  <2>6. SchedInv' /\ TableInv'
    <3>1. SchedInv'
      BY <1>4, <2>2, <2>3 DEF SchedInv
    <3>2. \A u \in Tasks : caps'[u].state \in TableStateOf[state'[u]]
      BY <2>3, TableStateFacts
    <3> QED
      BY <2>3, <2>4, <3>1, <3>2 DEF TableInv
  <2>7. EndpointInv'
    BY <2>2, <2>3 DEF EndpointInv, Endpoints, NoEndpoint, AllDead
  <2>8. MessageInv'
    <3>1. sent = received \/ \E m \in Messages : sent = Append(received, m)
      BY DEF IInv, MessageInv, EndpointInv
    <3>2. reply'[Receiver].status = "PeerExited" => received = sent
      BY <2>2, NoReplyType DEF IInv, TypeInv, MessageInv
    <3> QED
      BY <2>2, <3>1, <3>2 DEF IInv, MessageInv, NoEndpoint
  <2> QED
    BY <2>5, <2>6, <2>7, <2>8 DEF IInv
<1>6. CASE ~last
  <2>1. PICK v \in Tasks \ {t} : state[v] = "Ready"
    BY <1>3, <1>4, <1>6
  <2>2. queue # <<>>
    BY <1>1, <2>1, ReadyIsQueued
  <2>3. \A u \in Tasks : Reaped(t)[u] \notin {"Running", "Exited"}
    BY <1>3, <1>4
  <2>4. /\ Dispatchable(Reaped(t), queue)
        /\ ScheduleOK(Dispatched(Reaped(t), queue), Tail(queue))
        /\ \A u \in Tasks : Dispatched(Reaped(t), queue)[u] =
                               IF u = Head(queue) THEN "Running" ELSE Reaped(t)[u]
        /\ Head(queue) \in Tasks /\ Reaped(t)[Head(queue)] = "Ready"
    BY <1>4, <2>2, <2>3, DispatchKeepsSchedule
  <2>5. ~LastReaped(t)
    BY <1>6 DEF LastReaped
  <2>6. /\ state' = Dispatched(Reaped(t), queue) /\ queue' = Tail(queue)
        /\ caps' = [caps EXCEPT ![t] = DeadTable]
        /\ reply' = [reply EXCEPT ![t] = NoReply] /\ spent' = spent /\ failed' = failed
        /\ endpoint' = endpoint /\ sent' = sent /\ received' = received
    BY <1>2, <1>6, <2>4, <2>5, SMTT(30) DEF CompleteTeardown, CanReap, Reap
  <2>7. /\ state'[t] = "Dead"
        /\ \A u \in Tasks \ {t} : state'[u] = "Running" /\ state[u] = "Ready"
    BY <1>3, <1>4, <2>1, <2>4, <2>6 DEF Tasks
  <2>8. TypeInv'
    BY <2>6, DeadTableIsOK, NoReplyType DEF IInv, TypeInv, TableOK
  <2>9. /\ caps'[t] = DeadTable
        /\ \A u \in Tasks \ {t} : caps'[u] = caps[u] /\ caps[u].state = "Live"
    <3>1. caps \in [Tasks -> Tables]
      BY DEF IInv, TypeInv
    <3>2. caps'[t] = DeadTable /\ \A u \in Tasks \ {t} : caps'[u] = caps[u]
      BY <2>6, <3>1
    <3>3. \A u \in Tasks \ {t} : caps[u].state = "Live"
      <4>1. \A u \in Tasks : caps[u].state \in TableStateOf[state[u]]
        BY Zenon DEF IInv, TableInv
      <4> QED
        BY <2>7, <4>1, TableStateFacts
    <3> QED
      BY <3>2, <3>3
  <2>10. SchedInv'
    BY <2>4, <2>6, <2>7 DEF SchedInv
  <2>11. TableInv'
    <3>1. ConfinedTo(DeadTable, RightsOf(t))
      BY DeadTableIsOK, NoEntryFacts DEF NoEntries, ConfinedTo
    <3>2. \A u \in Tasks : caps'[u].state \in TableStateOf[state'[u]]
      BY <2>7, <2>9, DeadTableIsOK, TableStateFacts
    <3>3. \A u \in Tasks : TableOK(caps'[u]) /\ ConfinedTo(caps'[u], RightsOf(u))
      <4>1. \A u \in Tasks : TableOK(caps[u]) /\ ConfinedTo(caps[u], RightsOf(u))
        BY Zenon DEF IInv, TableInv
      <4> QED
        BY <2>9, <3>1, <4>1, DeadTableIsOK, Zenon
    <3>4. \A u \in Tasks : caps'[u].state # "Dead" => Buried(caps'[u], spent'[u])
      <4>1. \A u \in Tasks : caps[u].state # "Dead" => Buried(caps[u], spent[u])
        BY Zenon DEF IInv, TableInv
      <4> QED
        BY <2>6, <2>9, <4>1, DeadTableIsOK, Zenon
    <3> QED
      BY <3>2, <3>3, <3>4 DEF TableInv
  <2>12. EndpointInv'
    <3>1. ~AllDead' /\ endpoint.live
      BY <1>1, <2>1, <2>7 DEF AllDead, IInv, EndpointInv
    <3>2. \A u \in Tasks : caps'[u].state \in {"Closing", "Dead"} <=>
                             caps[u].state \in {"Closing", "Dead"}
      BY <1>1, <2>9, DeadTableIsOK
    <3>3. \A u \in Tasks : caps'[u].state = "Live" => caps[u].state = "Live"
      BY <2>9, DeadTableIsOK
    <3>4. state'[Receiver] # "BlockedReceive"
      BY <2>7
    <3> QED
      BY <2>6, <3>1, <3>2, <3>3, <3>4, Zenon DEF IInv, EndpointInv
  <2>13. MessageInv'
    BY <2>6, NoReplyType DEF IInv, TypeInv, MessageInv
  <2> QED
    BY <2>8, <2>10, <2>11, <2>12, <2>13 DEF IInv
<1> QED
  BY <1>5, <1>6
-----------------------------------------------------------------------------
(* Every step of the cooperative runtime keeps the invariant. *)
LEMMA NextKeeps == IInv /\ [Next]_vars => IInv'
<1> SUFFICES ASSUME IInv, [Next]_vars PROVE IInv'
  OBVIOUS
<1>1. CASE KernelStep
  BY <1>1, BootKeeps, BeginSenderKeeps, BeginReceiverKeeps, CompleteKeeps DEF KernelStep
<1>2. CASE \E t \in Tasks : TrapWithoutChannel(t)
  <2>1. PICK t \in Tasks : TrapWithoutChannel(t)
    BY <1>2
  <2>2. UNCHANGED channelVars
    BY <2>1 DEF TrapWithoutChannel
  <2>3. CASE InvalidTrap(t) \/ SupervisedTrap(t)
    <3>1. "InvalidOperation" \in Statuses /\ "WrongObject" \in Statuses
      BY DEF Statuses
    <3> QED
      BY <2>2, <2>3, <3>1, RejectKeeps DEF InvalidTrap, SupervisedTrap
  <2>4. CASE YieldTrap(t)
    BY <2>2, <2>4, YieldKeeps
  <2>5. CASE ExitTrap(t)
    BY <2>2, <2>5, ExitKeeps
  <2>6. CASE \E raw \in Handles, rights \in RightsRequests : DuplicateTrap(t, raw, rights)
    BY <2>2, <2>6, DuplicateKeepsIInv
  <2>7. CASE \E raw \in Handles : CloseTrap(t, raw)
    BY <2>2, <2>7, CloseKeepsIInv
  <2> QED
    BY <2>1, <2>3, <2>4, <2>5, <2>6, <2>7 DEF TrapWithoutChannel
<1>3. CASE \E t \in Tasks, raw \in Handles, m \in Messages : SendTrap(t, raw, m)
  BY <1>3, SendKeeps
<1>4. CASE \E t \in Tasks, raw \in Handles : ReceiveTrap(t, raw)
  BY <1>4, ReceiveKeeps, SMTT(30)
<1>5. CASE Stop \/ UNCHANGED vars
  <2>1. UNCHANGED vars
    BY <1>5 DEF Stop
  <2> QED
    BY <2>1, Zenon DEF vars, IInv, TypeInv, SchedInv, TableInv, EndpointInv, MessageInv, AllDead
<1> QED
  BY <1>1, <1>2, <1>3, <1>4, <1>5 DEF Next

(* IInv is an invariant of the cooperative runtime. *)
THEOREM InductiveInvariant == Spec => []IInv
<1>1. IInv /\ [Next]_vars => IInv'
  BY NextKeeps
<1> QED
  BY <1>1, InitIInv, PTL DEF Spec

(* Every variable keeps its type under any sequence of traps and           *)
(* teardowns.                                                              *)
THEOREM TypeCorrect == Spec => []TypeOK
<1>1. IInv => TypeOK
  <2> SUFFICES ASSUME IInv PROVE TypeOK
    OBVIOUS
  <2>1. state \in [Tasks -> TaskStates] /\ queue \in Seq(Tasks)
    BY DEF IInv, SchedInv, ScheduleOK, QueueOK
  <2>2. /\ caps \in [Tasks -> Tables] /\ reply \in [Tasks -> Replies]
        /\ spent \in [Tasks -> SUBSET (SlotIndex \X (1 .. GenerationMax))]
        /\ failed \in BOOLEAN
    BY Zenon DEF IInv, TypeInv, Pairs
  <2>3. endpoint \in Endpoints /\ sent \in Seq(Messages) /\ received \in Seq(Messages)
    BY DEF IInv, EndpointInv, MessageInv
  <2> QED
    BY <2>1, <2>2, <2>3 DEF TypeOK, RuntimeTypeOK
<1> QED
  BY <1>1, InductiveInvariant, PTL

(* Runtime::validate, which every handler ends with, accepts every         *)
(* reachable state, and no runtime call returns Err: the kernel stops only *)
(* when both tasks are dead.                                               *)
THEOREM RuntimeNeverFails == Spec => [](ValidateAccepts /\ NeverFails)
<1>1. IInv => ValidateAccepts /\ NeverFails
  <2> SUFFICES ASSUME IInv PROVE ValidateAccepts /\ NeverFails
    OBVIOUS
  <2>1. NeverFails
    BY DEF IInv, TypeInv, NeverFails
  <2>2. RuntimeValid
    <3>1. /\ Len(queue) <= TaskCount
          /\ \A i, j \in DOMAIN queue : queue[i] = queue[j] => i = j
      BY DEF IInv, SchedInv, ScheduleOK, QueueOK
    <3>2. /\ \A t, u \in Tasks : state[t] = "Running" /\ state[u] = "Running" => t = u
          /\ \A t \in Tasks : (state[t] = "Ready") <=> (t \in Queued(queue))
      BY DEF IInv, SchedInv, ScheduleOK
    <3>3. \A t \in Tasks : TableValid(caps[t]) /\ caps[t].state \in TableStateOf[state[t]]
      BY DEF IInv, TableInv, TableOK
    <3> QED
      BY <3>1, <3>2, <3>3 DEF RuntimeValid
  <2>3. CooperativeValid
    BY <2>2 DEF CooperativeValid, IInv, SchedInv, EndpointInv
  <2> QED
    BY <2>1, <2>3 DEF ValidateAccepts
<1> QED
  BY <1>1, InductiveInvariant, PTL

(* Every accepted payload reaches the receiver once and in order, except   *)
(* the one in the slot, or the one discarded with a dead receiver.         *)
THEOREM Delivery == Spec => []ExactlyOnceInOrder
<1>1. IInv => ExactlyOnceInOrder
  <2> SUFFICES ASSUME IInv PROVE ExactlyOnceInOrder
    OBVIOUS
  <2>1. /\ received \in Seq(Messages) /\ endpoint \in Endpoints
        /\ endpoint.occupied => endpoint.payload \in Messages
    BY DEF IInv, MessageInv, EndpointInv
  <2>2. received \o <<>> = received
    BY <2>1
  <2>3. ASSUME NEW m \in Messages PROVE received \o <<m>> = Append(received, m)
    BY <2>1
  <2> QED
    BY <2>1, <2>2, <2>3 DEF IInv, MessageInv, ExactlyOnceInOrder, InFlight
<1> QED
  BY <1>1, InductiveInvariant, PTL

(* The receiver is told PeerExited only once it has every accepted         *)
(* payload.                                                                *)
THEOREM DrainBeforePeerExited == Spec => []PeerExitedAfterDrain
<1>1. IInv => PeerExitedAfterDrain
  BY DEF IInv, MessageInv, PeerExitedAfterDrain
<1> QED
  BY <1>1, InductiveInvariant, PTL

(* No closed handle ever selects an entry again, for every table size and  *)
(* generation limit.                                                       *)
THEOREM NoStaleHandle == Spec => []StaleHandlesStayDead
<1>1. IInv => StaleHandlesStayDead
  <2> SUFFICES ASSUME IInv, NEW t \in Tasks, NEW raw \in Handles,
                      <<HandleSlot(raw), HandleGeneration(raw)>> \in spent[t],
                      Selects(caps[t], raw)
               PROVE  FALSE
    BY DEF StaleHandlesStayDead
  <2>1. caps[t].state = "Live" /\ caps[t] \in Tables
    BY SMTT(30) DEF Selects, IInv, TypeInv
  <2>2. Buried(caps[t], spent[t])
    BY <2>1 DEF IInv, TableInv
  <2> QED
    BY <2>1, <2>2, BuriedNotSelected
<1> QED
  BY <1>1, InductiveInvariant, PTL

(* No chain of duplications takes a task beyond the rights it was given.   *)
THEOREM NoAmplification == Spec => []AuthorityConfined
<1>1. IInv => AuthorityConfined
  BY TaskFacts DEF IInv, TableInv, ConfinedTo, RightsOf, AuthorityConfined
<1> QED
  BY <1>1, InductiveInvariant, PTL
-----------------------------------------------------------------------------
WokenStep ==
    state[Receiver] = "BlockedReceive" /\ state'[Receiver] # "BlockedReceive" =>
        \/ \E m \in Messages : sent' = Append(sent, m) /\ reply'[Receiver] = Reply("Ok", m)
        \/ reply'[Receiver] = Reply("PeerExited", 0) /\ ~endpoint'.senderBound

(* A message handed to the blocked receiver is what it is told. *)
LEMMA SendWakes ==
    ASSUME IInv, state[Receiver] = "BlockedReceive",
           NEW t \in Tasks, NEW raw \in Handles, NEW m \in Messages, SendTrap(t, raw, m)
    PROVE  WokenStep
<1>1. CASE state' = state
  BY <1>1 DEF WokenStep
<1>2. CASE HandOver(t, m)
  <2>1. CanPush(queue, Receiver)
    BY EnqueueKeepsSchedule, TaskFacts, Zenon DEF IInv, SchedInv
  <2>2. /\ sent' = Append(sent, m)
        /\ reply' = [reply EXCEPT ![Receiver] = Reply("Ok", m), ![t] = Reply("Ok", 0)]
    BY <1>2, <2>1 DEF HandOver
  <2>3. t # Receiver
    BY DEF SendTrap, Runs
  <2>4. reply'[Receiver] = Reply("Ok", m)
    BY <2>2, <2>3, TaskFacts DEF IInv, TypeInv
  <2> QED
    BY <2>2, <2>4 DEF WokenStep
<1> QED
  BY <1>1, <1>2 DEF SendTrap, Reject, Resume, Deposit

(* The sender's teardown tells the receiver it wakes that its peer exited. *)
LEMMA TeardownWakes ==
    ASSUME IInv, state[Receiver] = "BlockedReceive", BeginSenderTeardown
    PROVE  WokenStep
<1>1. ~endpoint.occupied /\ endpoint \in Endpoints /\ reply \in [Tasks -> Replies]
  BY DEF IInv, EndpointInv, TypeInv
<1>2. CanPush(queue, Receiver)
  BY EnqueueKeepsSchedule, TaskFacts, Zenon DEF IInv, SchedInv
<1>3. /\ endpoint' = [endpoint EXCEPT !.senderBound = FALSE]
      /\ reply' = [reply EXCEPT ![Receiver] = Reply("PeerExited", 0)]
  BY <1>1, <1>2 DEF BeginSenderTeardown
<1>4. ~endpoint'.senderBound
  BY <1>1, <1>3, UnboundFields
<1> QED
  BY <1>1, <1>3, <1>4, TaskFacts DEF WokenStep

(* No other call wakes it. *)
LEMMA NextWakes == IInv /\ [Next]_vars => WokenStep
<1> SUFFICES ASSUME IInv, [Next]_vars, state[Receiver] = "BlockedReceive" PROVE WokenStep
  BY SMTT(30) DEF WokenStep
<1>1. /\ ScheduleOK(state, queue) /\ state \in [Tasks -> TaskStates]
      /\ endpoint.senderBound /\ ~endpoint.occupied
  BY DEF IInv, SchedInv, ScheduleOK, EndpointInv
<1>2. state'[Receiver] = state[Receiver] => WokenStep
  BY DEF WokenStep
<1>3. CASE Boot
  BY <1>1, <1>2, <1>3, BootSteps, TaskFacts DEF Boot
<1>4. CASE BeginReceiverTeardown
  BY <1>2, <1>4 DEF BeginReceiverTeardown
<1>5. ASSUME NEW t \in Tasks, CompleteTeardown(t) PROVE WokenStep
  <2>1. state[t] = "Exited" /\ caps[t].state = "Closing" /\ t = Sender
    BY <1>5, TaskFacts DEF CompleteTeardown, Tearing, Tasks
  <2> QED
    BY <1>1, <2>1 DEF IInv, EndpointInv
<1>6. ASSUME NEW t \in Tasks, TrapWithoutChannel(t) PROVE WokenStep
  <2>1. CASE YieldTrap(t)
    BY <1>1, <1>2, <2>1, YieldSteps, TaskFacts
  <2>2. CASE ExitTrap(t)
    <3>1. t # Receiver /\ state' = [state EXCEPT ![t] = "Exited"]
      BY <2>2 DEF ExitTrap, Runs
    <3> QED
      BY <1>1, <1>2, <3>1, TaskFacts
  <2>3. CASE state' = state
    BY <1>2, <2>3
  <2> QED
    BY <1>6, <2>1, <2>2, <2>3, SMTT(30)
       DEF TrapWithoutChannel, InvalidTrap, SupervisedTrap, DuplicateTrap, CloseTrap, Reject, Resume
<1>7. ASSUME NEW t \in Tasks, NEW raw \in Handles, ReceiveTrap(t, raw) PROVE WokenStep
  <2>1. state[t] = "Running" /\ t # Receiver
    BY <1>7 DEF ReceiveTrap, Runs
  <2>2. ReceiveStatus(t, raw) # "Ok"
    <3>1. "Receive" \notin RightsOf(t)
      BY <2>1, TaskFacts DEF RightsOf, Tasks
    <3>2. ResolveEndpoint(t, raw, "Receive") # "Ok"
      BY <2>1, <3>1, ResolvedRole
    <3> QED
      BY <3>2, ReceiveStatuses
  <2>3. state' = state
    BY <1>7, <2>2 DEF ReceiveTrap, Reject, Resume
  <2> QED
    BY <1>2, <2>3
<1>8. CASE Stop \/ UNCHANGED vars
  BY <1>2, <1>8 DEF Stop, vars
<1> QED
  BY <1>3, <1>4, <1>5, <1>6, <1>7, <1>8, TeardownWakes, SendWakes DEF Next, KernelStep

(* A receiver leaves BlockedReceive only when it is told why: with the     *)
(* payload accepted in that step, or because the sender is torn down.      *)
THEOREM WokenWithCause == Spec => BlockedReceiverWokenWithCause
<1>1. IInv /\ [Next]_vars => [WokenStep]_vars
  BY NextWakes
<1>2. BlockedReceiverWokenWithCause <=> [][WokenStep]_vars
  BY PTL DEF BlockedReceiverWokenWithCause, WokenStep
<1> QED
  BY <1>1, <1>2, InductiveInvariant, PTL DEF Spec
=============================================================================

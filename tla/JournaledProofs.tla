--------------------------- MODULE JournaledProofs ---------------------------
(***************************************************************************)
(* Proofs about JournaledRuntime for every capacity of the journal, table  *)
(* size, generation limit, set of arguments, last sequence and last epoch. *)
(*                                                                         *)
(* JournaledRuntime::validate is not inductive either.  JournalInv adds to *)
(* SupInv that a request is open only while the journal is live, that a    *)
(* live journal has one record per epoch, that its last record is about    *)
(* the broker's request, that a pending request leaves two epochs, and     *)
(* that a teardown seals the journal before any table closes.              *)
(***************************************************************************)
EXTENDS JournaledRuntime, SupervisedProofs

Events == {"Requested", "Approved", "Denied", "Expired", "Completed", "Failed"}

Records ==
    [event : Events, epoch : Nat, actor : {Kernel} \cup Tasks, sequence : Nat,
     type : {"Broker", "Effect"}, rights : SUBSET Rights]

Journals ==
    [state : {"Live", "Sealed", "Dead"}, reserved : 0 .. 2, records : Seq(Records)]

(* The record before record i, as its event and its request. *)
Prior(recs, i) ==
    IF i = 1 THEN <<"None", 0>> ELSE <<recs[i - 1].event, recs[i - 1].sequence>>

LastOf(recs) == Prior(recs, Len(recs) + 1)

(* A record that may follow. *)
Follows(r, prior) ==
    CASE r.event = "Requested" ->
           /\ prior[1] \notin {"Requested", "Approved"}
           /\ r.sequence = prior[2] + 1
      [] r.event \in {"Approved", "Denied"} -> prior = <<"Requested", r.sequence>>
      [] r.event = "Expired" ->
           prior \in {<<"Requested", r.sequence>>, <<"Approved", r.sequence>>}
      [] OTHER -> prior = <<"Approved", r.sequence>>

Story(recs) ==
    \A i \in DOMAIN recs : recs[i].epoch = i + 1 /\ Follows(recs[i], Prior(recs, i))

JournalInv ==
    /\ journal \in Journals /\ JournalValid(journal) /\ Story(journal.records)
    /\ LastOf(journal.records)[1] = "Requested" <=> broker.state = "Pending"
    /\ LastOf(journal.records)[1] = "Approved" <=> broker.state = "Approved"
    /\ broker.state \in {"Pending", "Approved"} =>
          journal.state = "Live" /\ broker.sequence = LastOf(journal.records)[2]
    /\ broker.state = "Pending" => broker.epoch + 2 <= EpochMax
    /\ journal.state = "Live" =>
          /\ journal.reserved = Reservation[broker.state]
          /\ broker.epoch = Len(journal.records) + 1
          /\ broker.exhausted \/ broker.nextSequence = LastOf(journal.records)[2] + 1
          /\ caps[Supervisor].state = "Live" /\ caps[Workload].state \in {"Building", "Live"}
    /\ journal.state = "Dead" => AllDead
    /\ JournalEntries(Supervisor) \subseteq {3}

JInv == SupInv /\ JournalInv
-----------------------------------------------------------------------------
(* A record that continues the story extends it. *)
LEMMA StoryGrows ==
    ASSUME NEW recs \in Seq(Records), Story(recs), NEW r \in Records,
           r.epoch = Len(recs) + 2, Follows(r, LastOf(recs))
    PROVE  /\ Append(recs, r) \in Seq(Records) /\ Story(Append(recs, r))
           /\ LastOf(Append(recs, r)) = <<r.event, r.sequence>>
           /\ Len(Append(recs, r)) = Len(recs) + 1
<1> DEFINE new == Append(recs, r)
<1>1. /\ new \in Seq(Records) /\ Len(new) = Len(recs) + 1 /\ Len(recs) \in Nat
      /\ \A i \in 1 .. Len(recs) : new[i] = recs[i]
      /\ new[Len(recs) + 1] = r
      /\ DOMAIN new = 1 .. Len(recs) + 1 /\ DOMAIN recs = 1 .. Len(recs)
  OBVIOUS
<1> HIDE DEF new
<1>2. \A i \in 1 .. Len(recs) + 1 : Prior(new, i) = Prior(recs, i)
  <2> TAKE i \in 1 .. Len(recs) + 1
  <2>1. i = 1 \/ i - 1 \in 1 .. Len(recs)
    BY <1>1
  <2> QED
    BY <1>1, <2>1 DEF Prior
<1>3. Story(new)
  <2> SUFFICES ASSUME NEW i \in 1 .. Len(recs) + 1
               PROVE  new[i].epoch = i + 1 /\ Follows(new[i], Prior(new, i))
    BY <1>1 DEF Story
  <2>1. CASE i = Len(recs) + 1
    BY <1>1, <1>2, <2>1 DEF LastOf
  <2>2. CASE i # Len(recs) + 1
    <3>1. i \in 1 .. Len(recs)
      BY <1>1, <2>2
    <3> QED
      BY <1>1, <1>2, <3>1 DEF Story
  <2> QED
    BY <2>1, <2>2
<1>4. LastOf(new) = <<r.event, r.sequence>>
  BY <1>1 DEF LastOf, Prior
<1> QED
  BY <1>1, <1>3, <1>4 DEF new

(* The journal with one record more. *)
Extended(j, r, reserved) == [state |-> j.state, reserved |-> reserved,
                             records |-> Append(j.records, r)]

(* begin_lifecycle adds a record and reserves two; seal keeps the records. *)
LEMMA JournalOperations ==
    ASSUME NEW j \in Journals, NEW r
    PROVE  /\ BeginLifecycle(j, r) = Extended(j, r, 2)
           /\ Seal(j) = [state |-> "Sealed", reserved |-> j.reserved, records |-> j.records]
<1>1. PICK b : b = BeginLifecycle(j, r)
  OBVIOUS
<1>2. b = Extended(j, r, 2)
  BY <1>1, Zenon DEF BeginLifecycle, Extended, Journals
<1>3. PICK s : s = Seal(j)
  OBVIOUS
<1>4. s = [state |-> "Sealed", reserved |-> j.reserved, records |-> j.records]
  BY <1>3 DEF Seal, Journals
<1> QED
  BY <1>1, <1>2, <1>3, <1>4

(* A step that leaves the journal alone, and the broker and the cell too   *)
(* unless the journal is sealed.                                           *)
Steady ==
    /\ journal' = journal
    /\ \/ broker' = broker /\ effect' = effect
       \/ journal.state # "Live" /\ effect' \in {effect, NoEffect}

(* Such a step keeps JournalInv when it closes no table and adds no entry  *)
(* for the journal.                                                        *)
LEMMA SteadyKeeps ==
    ASSUME JInv, SupInv', Steady, ~AllDead,
           broker'.state \in {"Pending", "Approved"} => broker' = broker,
           journal.state = "Live" => /\ caps'[Supervisor].state = "Live"
                                     /\ caps'[Workload].state \in {"Building", "Live"},
           \A i \in SlotIndex :
               caps'[Supervisor].slots[i].entry.type = "Journal" =>
                   caps[Supervisor].slots[i].entry.type = "Journal"
    PROVE  JInv'
<1>1. JournalEntries(Supervisor)' \subseteq JournalEntries(Supervisor)
  BY DEF JournalEntries
<1>2. CASE broker' = broker
  BY <1>1, <1>2 DEF JInv, JournalInv, Steady
<1>3. CASE journal.state # "Live" /\ broker'.state \notin {"Pending", "Approved"}
  <2>1. broker.state \notin {"Pending", "Approved"}
    BY <1>3 DEF JInv, JournalInv
  <2> QED
    BY <1>1, <1>3, <2>1 DEF JInv, JournalInv, Steady
<1> QED
  BY <1>2, <1>3 DEF Steady

(* A step that changes only registers and the schedule. *)
LEMMA IdleKeeps ==
    ASSUME JInv, SupInv', ~AllDead, UNCHANGED <<caps, journal>>, UNCHANGED brokerVars
    PROVE  JInv' /\ Steady
<1>1. /\ journal' = journal /\ broker' = broker /\ effect' = effect /\ caps' = caps
  BY DEF brokerVars
<1>2. journal.state = "Live" => /\ caps'[Supervisor].state = "Live"
                                /\ caps'[Workload].state \in {"Building", "Live"}
  BY <1>1 DEF JInv, JournalInv
<1>3. Steady
  BY <1>1 DEF Steady
<1> QED
  BY <1>1, <1>2, <1>3, SteadyKeeps

(* While a task runs or is being torn down not all tasks are dead. *)
LEMMA SomeoneLives ==
    ASSUME NEW t \in Tasks, state[t] # "Dead"
    PROVE  ~AllDead
BY DEF AllDead

(* The first dispatch. *)
LEMMA BootJournaled ==
    ASSUME JInv, Boot, UNCHANGED journal
    PROVE  JInv' /\ Steady
<1>1. SupInv'
  BY BootSup DEF JInv
<1>2. ~AllDead
  <2>1. queue # <<>> /\ ScheduleOK(state, queue) /\ QueueOK(queue)
    BY DEF Boot, FirstDispatch, JInv, SupInv, RuntimeInv, ScheduleOK
  <2>2. Queued(queue) # {} /\ Queued(queue) \subseteq Tasks
    BY <2>1, QueueEmptiness DEF QueueOK, Queued
  <2> QED
    BY <2>1, <2>2 DEF ScheduleOK, AllDead
<1>3. UNCHANGED caps /\ UNCHANGED brokerVars
  BY DEF Boot, FirstDispatch, Fail
<1> QED
  BY <1>1, <1>2, <1>3, IdleKeeps

(* The traps around the broker: only Close touches a table. *)
LEMMA PlainJournaled ==
    ASSUME JInv, NEW t \in Tasks, PlainTrap(t), UNCHANGED journal
    PROVE  JInv' /\ Steady
<1>1. SupInv' /\ UNCHANGED brokerVars
  BY PlainSup DEF JInv, PlainTrap
<1>2. Runs(t) /\ ~AllDead
  <2>1. Runs(t)
    BY Zenon DEF PlainTrap, InvalidTrap, YieldTrap, ExitTrap, DuplicateTrap, CloseTrap, EndpointTrap
  <2> QED
    BY <2>1, SomeoneLives DEF Runs
<1>3. CASE caps' = caps
  BY <1>1, <1>2, <1>3, IdleKeeps
<1>4. ASSUME NEW raw \in Handles, CloseTrap(t, raw), Selects(caps[t], raw)
      PROVE  JInv' /\ Steady
  <2> DEFINE new == CloseHandle(caps[t], raw)
             i == HandleSlot(raw)
             slot == RemoveEntry(caps[t].slots[i])
  <2>1. caps' = [caps EXCEPT ![t] = new]
    BY <1>4 DEF CloseTrap
  <2>2. i \in SlotIndex /\ caps[t] \in Tables /\ caps[t].slots[i] \in Slots
        /\ caps \in [Tasks -> Tables]
    BY HandleSlotInTable DEF JInv, SupInv, RuntimeInv, Tables
  <2>3. slot \in Slots /\ slot.entry = NoEntry
    BY <2>2, RemoveEntryMovesOn
  <2> HIDE DEF slot, i
  <2>4. /\ new.state = caps[t].state /\ new.slots[i] = slot
        /\ \A j \in SlotIndex \ {i} : new.slots[j] = caps[t].slots[j]
    BY <2>2, <2>3, WithSlotChangesOneSlot DEF CloseHandle, slot, i
  <2> HIDE DEF new
  <2>5. NoEntry.type # "Journal"
    BY DEF NoEntry
  <2>6. \A u \in Tasks : caps'[u].state = caps[u].state
    BY <2>1, <2>2, <2>4
  <2>7. \A u \in Tasks, j \in SlotIndex :
            caps'[u].slots[j].entry.type = "Journal" => caps[u].slots[j].entry.type = "Journal"
    BY <2>1, <2>2, <2>3, <2>4, <2>5
  <2>8. Steady /\ broker' = broker
    BY <1>1 DEF Steady, brokerVars
  <2>9. journal.state = "Live" => /\ caps'[Supervisor].state = "Live"
                                  /\ caps'[Workload].state \in {"Building", "Live"}
    BY <2>6, RoleFacts DEF JInv, JournalInv
  <2> QED
    BY <1>1, <1>2, <2>7, <2>8, <2>9, RoleFacts, SteadyKeeps
<1>5. ASSUME NEW raw \in Handles, DuplicateTrap(t, raw, {"Send"})
      PROVE  caps' = caps
  <2>1. "Duplicate" \notin RoleRights(t)
    BY DEF RoleRights
  <2>2. ResolveTyped(caps[t], raw, "Endpoint", "Duplicate") # "Ok"
    BY <1>2, <2>1, ResolvedRole DEF JInv, SupInv
  <2>3. DuplicateStatus(caps[t], raw, {"Send"}) # "Ok"
    BY <2>2 DEF DuplicateStatus
  <2> QED
    BY <1>5, <2>3 DEF DuplicateTrap, Reject, Resume
<1>6. InvalidTrap(t) \/ YieldTrap(t) \/ ExitTrap(t)
      \/ (\E raw \in Handles, right \in {"Send", "Receive"} : EndpointTrap(t, raw, right))
      => caps' = caps
  BY Zenon DEF InvalidTrap, YieldTrap, Switch, Fail, ExitTrap, EndpointTrap, Reject, Resume
<1>7. ASSUME NEW raw \in Handles, CloseTrap(t, raw), ~Selects(caps[t], raw)
      PROVE  caps' = caps
  BY <1>7 DEF CloseTrap, Reject, Resume
<1> QED
  BY <1>3, <1>4, <1>5, <1>6, <1>7 DEF PlainTrap

(* StartTask publishes the workload's table and no entry of the supervisor. *)
LEMMA StartJournaled ==
    ASSUME JInv, NEW t \in Tasks, NEW raw \in Handles, NEW registered \in BOOLEAN,
           StartTrap(t, raw, registered), UNCHANGED journal
    PROVE  JInv' /\ Steady
<1>1. SupInv' /\ Runs(t)
  BY StartSup DEF JInv, StartTrap
<1>2. ~AllDead
  BY <1>1, SomeoneLives DEF Runs
<1>3. CASE Launch(t)
  <2>1. /\ broker' = broker /\ effect' = effect /\ caps \in [Tasks -> Tables]
        /\ caps' = [caps EXCEPT ![Workload] = Publish(Install(@, "Broker", {"Submit"}))]
    BY <1>3 DEF Launch, JInv, SupInv, RuntimeInv
  <2>2. caps'[Supervisor] = caps[Supervisor]
    BY <2>1, RoleFacts
  <2>3. state'[Workload] = "Ready"
    BY <1>3, RoleFacts DEF Launch, WakeState, JInv, SupInv, RuntimeInv, ScheduleOK
  <2>4. caps'[Workload].state = "Live"
    BY <1>1, <2>3, RoleFacts, TableStates7 DEF SupInv, RuntimeInv
  <2>5. Steady
    BY <2>1 DEF Steady
  <2> QED
    BY <1>1, <1>2, <2>1, <2>2, <2>4, <2>5, SteadyKeeps DEF JInv, JournalInv
<1>4. CASE ~Launch(t)
  <2>1. caps' = caps /\ UNCHANGED brokerVars
    BY <1>4 DEF StartTrap, RejectSupervised, FailSupervised, Fail, Reject, Resume
  <2> QED
    BY <1>1, <1>2, <2>1, IdleKeeps
<1> QED
  BY <1>3, <1>4

(* complete_teardown happens when the journal is sealed. *)
LEMMA CompleteJournaled ==
    ASSUME JInv, NEW t \in Tasks, CompleteTeardown(t), UNCHANGED journal
    PROVE  JInv' /\ Steady
<1>1. SupInv' /\ Tearing(t, "Closing")
  BY CompleteSup DEF JInv, CompleteTeardown
<1>2. ~AllDead /\ caps[t].state = "Closing"
  BY <1>1, SomeoneLives DEF Tearing
<1>3. journal.state # "Live"
  BY <1>2, RoleFacts DEF JInv, JournalInv
<1>4. broker' \in {broker, DeadBroker} /\ effect' \in {effect, NoEffect}
  BY DEF CompleteTeardown, FailSupervised, brokerVars
<1>5. Steady
  BY <1>3, <1>4 DEF Steady
<1>6. broker'.state \in {"Pending", "Approved"} => broker' = broker
  BY <1>4, ReclaimedObjects
<1>7. \A i \in SlotIndex : caps'[Supervisor].slots[i].entry.type = "Journal" =>
                               caps[Supervisor].slots[i].entry.type = "Journal"
  <2>1. caps' = caps \/ caps' = [caps EXCEPT ![t] = DeadTable]
    BY DEF CompleteTeardown, Reap, FailSupervised, Fail
  <2>2. \A i \in SlotIndex : DeadTable.slots[i].entry.type # "Journal"
    BY DEF DeadTable, EmptySlot, NoEntry
  <2>3. caps'[Supervisor] \in {caps[Supervisor], DeadTable}
    BY <2>1, RoleFacts DEF JInv, SupInv, RuntimeInv
  <2> QED
    BY <2>2, <2>3
<1> QED
  BY <1>1, <1>2, <1>3, <1>5, <1>6, <1>7, SteadyKeeps

(* InspectRequest. *)
LEMMA InspectJournaled ==
    ASSUME JInv, NEW t \in Tasks, NEW raw \in Handles, InspectTrap(t, raw), UNCHANGED journal
    PROVE  JInv' /\ Steady
<1>1. SupInv' /\ Runs(t)
  BY InspectSup DEF JInv, InspectTrap
<1>2. ~AllDead
  BY <1>1, SomeoneLives DEF Runs
<1>3. caps' = caps /\ UNCHANGED brokerVars
  BY DEF InspectTrap, Reject, Resume
<1> QED
  BY <1>1, <1>2, <1>3, IdleKeeps

(* A refused trap of the journaled runtime. *)
LEMMA RejectJournaledKeeps ==
    ASSUME JInv, NEW t \in Tasks, Runs(t), NEW status \in Statuses, RejectJournaled(t, status)
    PROVE  JInv' /\ Steady
<1>1. Reject(t, status) /\ UNCHANGED brokerVars /\ UNCHANGED journal
  BY DEF RejectJournaled, RejectSupervised
<1>2. SupInv'
  BY <1>1, RejectSup DEF JInv
<1>3. ~AllDead
  BY SomeoneLives DEF Runs
<1>4. caps' = caps
  BY <1>1 DEF Reject, Resume
<1> QED
  BY <1>1, <1>2, <1>3, <1>4, IdleKeeps

(* A trap that only answers with words. *)
LEMMA AnswerJournaled ==
    ASSUME JInv, NEW t \in Tasks, Runs(t), NEW status \in Statuses, NEW words \in Seq(Nat),
           Resume(t, Output(status, words)), UNCHANGED <<broker, effect, manifest, journal>>
    PROVE  JInv' /\ Steady
<1> DEFINE result == Output(status, words)
<1>1. result \in Replies
  BY DEF Output, Replies
<1> HIDE DEF result
<1>2. Resume(t, result) /\ UNCHANGED brokerVars /\ UNCHANGED journal
  BY DEF result, brokerVars
<1>3. SupInv'
  BY <1>1, <1>2, ResumeSup DEF JInv
<1>4. ~AllDead
  BY SomeoneLives DEF Runs
<1>5. caps' = caps
  BY <1>2 DEF Resume
<1> QED
  BY <1>2, <1>3, <1>4, <1>5, IdleKeeps

(* The statuses of a journal read. *)
LEMMA ReadJournalStatuses ==
    ASSUME NEW t, NEW raw
    PROVE  ReadJournalStatus(t, raw) \in Statuses
<1>1. ReadJournalStatus(t, raw) \in {"Ok", "InvalidHandle", "WrongObject", "RightsDenied"}
  BY ObjectStatuses DEF ReadJournalStatus
<1> QED
  BY <1>1 DEF Statuses

(* InspectJournal. *)
LEMMA InspectJournalJournaled ==
    ASSUME JInv, NEW t \in Tasks, NEW raw \in Handles, InspectJournal(t, raw)
    PROVE  JInv' /\ Steady
<1> DEFINE status == ReadJournalStatus(t, raw)
           count  == Len(journal.records)
<1>1. /\ Runs(t) /\ UNCHANGED <<broker, effect, manifest, journal>>
      /\ \/ status # "Ok" /\ Resume(t, Output(status, <<0, 0, 0>>))
         \/ Resume(t, Output("Ok", <<IF count = 0 THEN 0 ELSE 1, count + 1, count>>))
  BY DEF InspectJournal
<1>2. status \in Statuses /\ "Ok" \in Statuses
  BY ReadJournalStatuses DEF Statuses
<1>3. count \in Nat
  BY DEF JInv, JournalInv, Journals
<1> HIDE DEF status, count
<1>4. <<0, 0, 0>> \in Seq(Nat)
      /\ <<IF count = 0 THEN 0 ELSE 1, count + 1, count>> \in Seq(Nat)
  BY <1>3
<1> QED
  BY <1>1, <1>2, <1>4, AnswerJournaled, Zenon

(* A record's words are numbers. *)
LEMMA RecordWordsAreNumbers ==
    ASSUME NEW r \in Records, NEW index \in Nat
    PROVE  RecordWords(r, index) \in Seq(Nat)
<1>1. /\ r.event \in Events /\ r.epoch \in Nat /\ r.actor \in {0, 1, 2}
      /\ r.sequence \in Nat /\ r.type \in {"Broker", "Effect"}
  BY DEF Records, Kernel, Tasks, Sender, Receiver
<1>2. EventCode[r.event] \in Nat /\ EventStatusCode[r.event] \in Nat
  BY <1>1 DEF Events, EventCode, EventStatusCode
<1>3. TypeCode[r.type] \in Nat
  BY <1>1 DEF TypeCode
<1>4. RightsCode(r.rights) \in Nat /\ ActorGeneration(r.actor) \in Nat
  BY DEF RightsCode, ActorGeneration
<1>5. /\ 1 + HalfRadix * 128 \in Nat
      /\ EventCode[r.event] + HalfRadix * EventStatusCode[r.event] \in Nat
  BY <1>2 DEF HalfRadix
<1>6. r.actor \in Nat
  BY <1>1
<1> HIDE DEF HalfRadix
<1> QED
  BY <1>1, <1>3, <1>4, <1>5, <1>6 DEF RecordWords

(* ReadEffectRecord. *)
LEMMA ReadJournalJournaled ==
    ASSUME JInv, NEW t \in Tasks, NEW raw \in Handles, NEW index \in Nat,
           NEW triplet \in Triplets, ReadJournal(t, raw, index, triplet)
    PROVE  JInv' /\ Steady
<1> DEFINE resolved == ReadJournalStatus(t, raw)
           status == IF resolved # "Ok" THEN resolved ELSE ReadStatus(journal, index, triplet)
<1>1. /\ Runs(t) /\ UNCHANGED <<broker, effect, manifest, journal>>
      /\ \/ status # "Ok" /\ Resume(t, Output(status, <<0, 0, 0>>))
         \/ status = "Ok" /\ Resume(t, Output("Ok", Triplet(journal, index, triplet)))
  BY DEF ReadJournal
<1>2. resolved \in Statuses /\ "Ok" \in Statuses
  BY ReadJournalStatuses DEF Statuses
<1>3. status \in Statuses
  BY <1>2 DEF ReadStatus, Statuses
<1>4. status = "Ok" => index \in 1 .. Len(journal.records)
  BY DEF ReadStatus
<1> HIDE DEF status
<1>5. CASE status # "Ok"
  <2>1. <<0, 0, 0>> \in Seq(Nat)
    OBVIOUS
  <2> QED
    BY <1>1, <1>3, <1>5, <2>1, AnswerJournaled, Zenon
<1>6. CASE status = "Ok"
  <2> DEFINE words == RecordWords(journal.records[index], index)
             word(i) == IF i \in DOMAIN words THEN words[i] ELSE 0
  <2>1. journal.records[index] \in Records
    BY <1>4, <1>6 DEF JInv, JournalInv, Journals
  <2>2. words \in Seq(Nat)
    BY <2>1, RecordWordsAreNumbers
  <2> HIDE DEF words
  <2>3. \A i \in Nat : word(i) \in Nat
    BY <2>2
  <2>4. 3 * triplet + 1 \in Nat /\ 3 * triplet + 2 \in Nat /\ 3 * triplet + 3 \in Nat
    BY JournaledAssumption
  <2>5. /\ word(3 * triplet + 1) \in Nat /\ word(3 * triplet + 2) \in Nat
        /\ word(3 * triplet + 3) \in Nat
    BY <2>3, <2>4
  <2>6. Triplet(journal, index, triplet) =
            <<word(3 * triplet + 1), word(3 * triplet + 2), word(3 * triplet + 3)>>
    BY DEF Triplet, words
  <2> HIDE DEF word
  <2>7. Triplet(journal, index, triplet) \in Seq(Nat)
    BY <2>5, <2>6
  <2> QED
    BY <1>1, <1>2, <1>6, <2>7, AnswerJournaled
<1> QED
  BY <1>5, <1>6
-----------------------------------------------------------------------------
(* The broker state after a record: a request is open after the first two  *)
(* events and no other.                                                    *)
StateAfter(event) ==
    CASE event = "Requested" -> "Pending"
      [] event = "Approved"  -> "Approved"
      [] OTHER               -> "Empty"

(* A record of a running task's transition. *)
Recorded(r) ==
    /\ journal.state = "Live" /\ r \in Records
    /\ journal' = Extended(journal, r, Reservation[broker'.state])

(* The numbers of the broker. *)
LEMMA BrokerNumbers ==
    ASSUME JInv
    PROVE  /\ broker \in Brokers /\ broker.state \in BrokerStates
           /\ broker.epoch \in Nat /\ broker.sequence \in Nat /\ broker.nextSequence \in Nat
<1>1. broker \in Brokers
  BY Zenon DEF JInv, SupInv, BrokerInv, RequestOK
<1> QED
  BY <1>1 DEF Brokers

(* r is a record with these fields. *)
RecordOf(r, event, epoch, actor, sequence, type, rights) ==
    /\ r \in Records
    /\ r.event = event /\ r.epoch = epoch /\ r.actor = actor
    /\ r.sequence = sequence /\ r.type = type /\ r.rights = rights

(* A record has the fields it is made of. *)
LEMMA RecordFacts ==
    ASSUME NEW event \in Events, NEW epoch \in Nat, NEW actor \in {Kernel} \cup Tasks,
           NEW sequence \in Nat, NEW type \in {"Broker", "Effect"}, NEW rights \in SUBSET Rights
    PROVE  RecordOf(Record(event, epoch, actor, sequence, type, rights),
                    event, epoch, actor, sequence, type, rights)
<1>1. PICK r : r = [event |-> event, epoch |-> epoch, actor |-> actor, sequence |-> sequence,
                    type |-> type, rights |-> rights]
  OBVIOUS
<1>2. Record(event, epoch, actor, sequence, type, rights) = r
  BY <1>1, Zenon DEF Record
<1>3. /\ r.event = event /\ r.epoch = epoch /\ r.actor = actor /\ r.sequence = sequence
      /\ r.type = type /\ r.rights = rights
  BY <1>1
<1>4. r \in Records
  BY <1>1 DEF Records
<1> QED
  BY <1>2, <1>3, <1>4, Zenon DEF RecordOf

(* Nothing is reserved without an open request. *)
LEMMA NothingReserved ==
    ASSUME JInv, journal.state = "Live", broker.state \notin {"Pending", "Approved"}
    PROVE  journal.reserved = 0
<1>1. broker.state \in BrokerStates
  BY BrokerNumbers
<1>2. Reservation[broker.state] = 0
  BY <1>1 DEF Reservation, BrokerStates
<1> QED
  BY <1>2, Zenon DEF JInv, JournalInv

(* Room is reserved for every record of an open request. *)
LEMMA ReservedRoom ==
    ASSUME JInv, broker.state \in {"Pending", "Approved"}
    PROVE  /\ journal.state = "Live" /\ CanAppendReserved(journal)
           /\ journal.reserved = IF broker.state = "Pending" THEN 2 ELSE 1
           /\ Len(journal.records) + journal.reserved <= Capacity
           /\ Len(journal.records) \in Nat
           /\ broker.epoch # EpochMax /\ broker.epoch < EpochMax
           /\ broker.state = "Pending" => broker.epoch + 1 # EpochMax
<1>1. journal.state = "Live" /\ journal \in Journals /\ broker \in Brokers
      /\ Len(journal.records) + journal.reserved <= Capacity
  BY DEF JInv, JournalInv, JournalValid, SupInv, BrokerInv, RequestOK
<1>2. journal.reserved = IF broker.state = "Pending" THEN 2 ELSE 1
  BY <1>1 DEF JInv, JournalInv, Reservation
<1>3. Len(journal.records) \in Nat
  BY <1>1 DEF Journals
<1>4. CanAppendReserved(journal)
  <2>1. journal.reserved \in {1, 2}
    BY <1>2
  <2>2. journal.reserved # 0 /\ Len(journal.records) < Capacity
    BY <1>1, <1>3, <2>1, CapacityAssumption
  <2> QED
    BY <1>1, <2>2 DEF CanAppendReserved
<1>5. broker.epoch \in 0 .. EpochMax
  BY <1>1 DEF Brokers
<1>6. broker.state = "Pending" => broker.epoch + 2 <= EpochMax
  BY DEF JInv, JournalInv
<1>7. broker.state = "Approved" => broker.epoch # EpochMax
  BY ApprovedEpoch DEF JInv
<1>8. /\ broker.epoch # EpochMax /\ broker.epoch < EpochMax
      /\ broker.state = "Pending" => broker.epoch + 1 # EpochMax
  BY <1>5, <1>6, <1>7, SupervisedAssumption
<1> QED
  BY <1>1, <1>2, <1>3, <1>4, <1>8, Zenon

(* What a recorded transition must be for JournalInv to survive it. *)
LEMMA RecordedKeeps ==
    ASSUME JInv, SupInv', ~AllDead, NEW r, Recorded(r), caps' = caps,
           r.epoch = broker.epoch + 1, broker'.epoch = broker.epoch + 1,
           Follows(r, LastOf(journal.records)), broker'.state = StateAfter(r.event),
           broker'.state \in {"Pending", "Approved"} => broker'.sequence = r.sequence,
           broker'.state = "Pending" => broker'.epoch + 2 <= EpochMax,
           broker'.exhausted \/ broker'.nextSequence = r.sequence + 1,
           Len(journal.records) + 1 + Reservation[broker'.state] <= Capacity
    PROVE  JInv'
<1> DEFINE recs == journal.records
           new == Append(recs, r)
           reserved == Reservation[broker'.state]
<1>1. /\ journal.state = "Live" /\ r \in Records /\ recs \in Seq(Records) /\ Story(recs)
      /\ broker.epoch = Len(recs) + 1 /\ Len(recs) \in Nat
  <2>1. journal.state = "Live" /\ r \in Records
    BY Zenon DEF Recorded
  <2>2. journal \in Journals /\ Story(recs) /\ broker.epoch = Len(recs) + 1
    BY <2>1, Zenon DEF JInv, JournalInv
  <2>3. recs \in Seq(Records)
    BY <2>2 DEF Journals
  <2> QED
    BY <2>1, <2>2, <2>3
<1>2. r.epoch = Len(recs) + 2 /\ r.event \in Events
  BY <1>1 DEF Records
<1>3. /\ new \in Seq(Records) /\ Story(new) /\ LastOf(new) = <<r.event, r.sequence>>
      /\ Len(new) = Len(recs) + 1
  BY <1>1, <1>2, StoryGrows
<1>4. broker'.state \in {"Empty", "Pending", "Approved"}
      /\ (broker'.state = "Pending" <=> r.event = "Requested")
      /\ (broker'.state = "Approved" <=> r.event = "Approved")
  BY DEF StateAfter
<1>5. reserved \in 0 .. 2
  BY <1>4 DEF Reservation
<1> HIDE DEF new, reserved
<1>6. journal' = [state |-> "Live", reserved |-> reserved, records |-> new]
  BY <1>1 DEF Recorded, Extended, new, reserved
<1>7. journal' \in Journals /\ JournalValid(journal') /\ journal'.state = "Live"
      /\ journal'.records = new /\ journal'.reserved = reserved
  <2>1. journal' \in Journals
    BY <1>3, <1>5, <1>6 DEF Journals
  <2>2. Len(new) + reserved <= Capacity
    BY <1>3 DEF reserved
  <2> QED
    BY <1>5, <1>6, <2>1, <2>2 DEF JournalValid
<1>8. LastOf(new)[1] = r.event /\ LastOf(new)[2] = r.sequence
  BY <1>3
<1>9. JournalEntries(Supervisor)' \subseteq {3}
  BY DEF JInv, JournalInv, JournalEntries
<1>10. caps'[Supervisor].state = "Live" /\ caps'[Workload].state \in {"Building", "Live"}
  BY <1>1 DEF JInv, JournalInv
<1>11. broker'.epoch = Len(new) + 1
  BY <1>1, <1>3
<1> QED
  BY <1>3, <1>4, <1>7, <1>8, <1>9, <1>10, <1>11 DEF JInv, JournalInv, reserved

(* A task acts with a handle it holds at that moment. *)
Acting(t, type, right) ==
    /\ Runs(t)
    /\ \E i \in SlotIndex : /\ caps[t].slots[i].entry.type = type
                            /\ right \in caps[t].slots[i].entry.rights

(* A handle that resolves is held. *)
LEMMA ResolvedActs ==
    ASSUME NEW t, Runs(t), NEW raw \in Handles, NEW type, NEW right, NEW live,
           ResolveObject(t, raw, type, right, live) = "Ok"
    PROVE  Acting(t, type, right)
<1>1. ResolveTyped(caps[t], raw, type, right) = "Ok"
  BY ObjectStatuses
<1>2. SelectedEntry(caps[t], raw).type = type /\ right \in SelectedEntry(caps[t], raw).rights
  BY <1>1, ResolvedEntry
<1>3. HandleSlot(raw) \in SlotIndex
  BY HandleSlotInTable
<1> QED
  BY <1>2, <1>3 DEF Acting, SelectedEntry

(* An accepted submission and its record. *)
Requesting ==
    \E r : /\ Recorded(r) /\ Acting(Workload, "Broker", "Submit")
           /\ r.event = "Requested" /\ r.actor = Workload
           /\ r.type = "Broker" /\ r.rights = {"Submit"}
           /\ r.sequence = LastOf(journal.records)[2] + 1
           /\ broker.state = "Empty" /\ effect' = effect

(* SubmitRequest with the journal. *)
LEMMA SubmitJournaled ==
    ASSUME JInv, NEW t \in Tasks, NEW raw \in Handles, NEW kindKnown \in BOOLEAN,
           NEW argument \in Arguments, JournaledSubmit(t, raw, kindKnown, argument)
    PROVE  JInv' /\ (Steady \/ Requesting)
<1> DEFINE status == SubmitStatus(t, raw, kindKnown)
<1>1. Runs(t) /\ ~AllDead
  BY SomeoneLives DEF JournaledSubmit, Runs
<1>2. /\ status \in Statuses
      /\ status = "Ok" => /\ t = Workload /\ broker.state = "Empty"
                          /\ broker.epoch # EpochMax /\ ~broker.exhausted
  BY <1>1, SubmitStatuses DEF JInv
<1>3. status = "Ok" => Acting(t, "Broker", "Submit")
  <2>1. status = "Ok" => ResolveObject(t, raw, "Broker", "Submit", broker.state # "Dead") = "Ok"
    BY DEF SubmitStatus
  <2> QED
    BY <1>1, <2>1, ResolvedActs
<1>4. CASE status # "Ok"
  <2>1. RejectJournaled(t, status)
    BY <1>4 DEF JournaledSubmit
  <2> HIDE DEF status
  <2> QED
    BY <1>1, <1>2, <2>1, RejectJournaledKeeps
<1>5. CASE status = "Ok"
  <2>1. Dispatchable(BlockForApproval(t), queue)
    BY <1>1, <1>2, <1>5, BlockingDispatches DEF JInv
  <2>2. SubmitRefusal \in Statuses
    BY DEF SubmitRefusal, BeginStatus, Statuses
  <2>3. CASE SubmitRefusal # "Ok"
    <3>1. RejectJournaled(t, SubmitRefusal)
      BY <1>5, <2>1, <2>3 DEF JournaledSubmit
    <3> QED
      BY <1>1, <2>2, <3>1, RejectJournaledKeeps
  <2>4. CASE SubmitRefusal = "Ok"
    <3> DEFINE r == Record("Requested", broker.epoch + 1, Workload, broker.nextSequence,
                           "Broker", {"Submit"})
    <3>1. Submit(t, argument) /\ journal' = BeginLifecycle(journal, r)
      BY <1>5, <2>1, <2>4 DEF JournaledSubmit
    <3>2. SupInv'
      BY <1>1, <1>2, <1>5, <3>1, SubmitKeeps DEF JInv
    <3>3. /\ broker'.state = "Pending" /\ broker'.sequence = broker.nextSequence
          /\ broker'.epoch = broker.epoch + 1
      BY <1>2, <1>5, <3>1, SubmitBroker, Zenon DEF JInv
    <3>4. broker'.exhausted \/ broker'.nextSequence = broker.nextSequence + 1
      <4>1. broker \in Brokers
        BY DEF JInv, SupInv, BrokerInv, RequestOK
      <4> QED
        BY <3>1, <4>1, Zenon DEF Submit, Brokers
    <3>5. /\ journal.state = "Live" /\ ~(broker.epoch > EpochMax - 3)
          /\ ~(Capacity - (Len(journal.records) + journal.reserved) < 3)
      BY <2>4 DEF SubmitRefusal, BeginStatus
    <3>6. /\ journal \in Journals /\ journal.reserved = 0 /\ Len(journal.records) \in Nat
          /\ broker.nextSequence = LastOf(journal.records)[2] + 1
          /\ LastOf(journal.records)[1] \notin {"Requested", "Approved"}
      BY <1>2, <1>5, <3>5 DEF JInv, JournalInv, Journals, Reservation
    <3>7. broker.epoch \in Nat /\ broker.nextSequence \in Nat
      BY BrokerNumbers
    <3>8. /\ r \in Records /\ r.epoch = broker.epoch + 1 /\ r.event = "Requested"
          /\ r.sequence = broker.nextSequence /\ r.actor = Workload
          /\ r.type = "Broker" /\ r.rights = {"Submit"}
      <4>1. /\ "Requested" \in Events /\ Workload \in {Kernel} \cup Tasks
            /\ "Broker" \in {"Broker", "Effect"} /\ {"Submit"} \in SUBSET Rights
        BY RoleFacts DEF Events, Rights
      <4>2. broker.epoch + 1 \in Nat
        BY <3>7
      <4>3. RecordOf(r, "Requested", broker.epoch + 1, Workload, broker.nextSequence,
                     "Broker", {"Submit"})
        BY <3>7, <4>1, <4>2, RecordFacts
      <4> HIDE DEF r
      <4> QED
        BY <4>3, Zenon DEF RecordOf
    <3> HIDE DEF r
    <3>9. Reservation[broker'.state] = 2 /\ Recorded(r)
      <4>1. Reservation["Pending"] = 2
        BY DEF Reservation
      <4> QED
        BY <3>1, <3>3, <3>5, <3>6, <3>8, <4>1, JournalOperations DEF Recorded
    <3>10. Follows(r, LastOf(journal.records)) /\ broker'.state = StateAfter(r.event)
      BY <3>3, <3>6, <3>8 DEF Follows, StateAfter
    <3>11. Len(journal.records) + 1 + Reservation[broker'.state] <= Capacity
           /\ broker'.epoch + 2 <= EpochMax
      BY <3>3, <3>5, <3>6, <3>7, <3>9, CapacityAssumption, SupervisedAssumption
    <3>12. caps' = caps /\ effect' = effect
      BY <3>1 DEF Submit, Switch
    <3>13. JInv'
      BY <1>1, <3>2, <3>3, <3>4, <3>8, <3>9, <3>10, <3>11, <3>12, RecordedKeeps
    <3>14. Requesting
      BY <1>2, <1>3, <1>5, <3>6, <3>8, <3>9, <3>12 DEF Requesting
    <3> QED
      BY <3>13, <3>14
  <2> QED
    BY <2>3, <2>4
<1> QED
  BY <1>4, <1>5

(* A decision of the supervisor, and its record. *)
Deciding ==
    \E r : /\ Recorded(r) /\ Acting(Supervisor, "Broker", "Decide")
           /\ r.event \in {"Approved", "Denied", "Expired"}
           /\ r.actor = Supervisor /\ r.type = "Broker" /\ r.rights = {"Decide"}
           /\ r.sequence = broker.sequence /\ effect' = effect
           /\ broker.state \in {"Pending", "Approved"}
           /\ r.event # "Expired" => broker.state = "Pending"
           /\ r.event = "Approved" => broker'.state = "Approved"
           /\ r.event = "Denied" => reply'[Workload] = Reply("ApprovalDenied", 0)
           /\ r.event = "Expired" => reply'[Workload] = Reply("ApprovalExpired", 0)

(* The records about the request at hand. *)
LEMMA RequestRecordFacts ==
    ASSUME JInv, broker.state \in {"Pending", "Approved"}, NEW event \in Events,
           NEW actor \in {Kernel} \cup Tasks, NEW type \in {"Broker", "Effect"},
           NEW rights \in SUBSET Rights
    PROVE  /\ RecordOf(RequestRecord(event, actor, type, rights),
                       event, broker.epoch + 1, actor, broker.sequence, type, rights)
           /\ LastOf(journal.records) =
                 <<IF broker.state = "Pending" THEN "Requested" ELSE "Approved", broker.sequence>>
<1>1. broker.epoch + 1 \in Nat /\ broker.sequence \in Nat
  BY BrokerNumbers
<1>2. RecordOf(RequestRecord(event, actor, type, rights),
               event, broker.epoch + 1, actor, broker.sequence, type, rights)
  BY <1>1, RecordFacts, Zenon DEF RequestRecord
<1>3. LastOf(journal.records) =
          <<IF broker.state = "Pending" THEN "Requested" ELSE "Approved", broker.sequence>>
  <2>1. \E e, n : LastOf(journal.records) = <<e, n>>
    BY DEF LastOf, Prior
  <2> QED
    BY <2>1 DEF JInv, JournalInv
<1> QED
  BY <1>2, <1>3

(* append_reserved takes one reserved record and keeps what is left of the *)
(* reservation for the state the broker moves to.                          *)
LEMMA ReservedRecord ==
    ASSUME JInv, broker.state \in {"Pending", "Approved"}, NEW r \in Records,
           \/ broker'.state = "Approved" /\ broker.state = "Pending"
              /\ journal' = Extended(journal, r, 1)
           \/ broker'.state = "Empty" /\ journal' = Extended(journal, r, 0)
    PROVE  Recorded(r) /\ Len(journal.records) + 1 + Reservation[broker'.state] <= Capacity
<1>1. /\ journal.state = "Live" /\ Len(journal.records) \in Nat
      /\ journal.reserved = IF broker.state = "Pending" THEN 2 ELSE 1
      /\ Len(journal.records) + journal.reserved <= Capacity
  BY ReservedRoom
<1>2. Reservation["Approved"] = 1 /\ Reservation["Empty"] = 0
  BY DEF Reservation
<1>3. Recorded(r)
  BY <1>1, <1>2 DEF Recorded
<1>4. /\ Reservation[broker'.state] \in Nat /\ journal.reserved \in Nat
      /\ Reservation[broker'.state] + 1 <= journal.reserved
  BY <1>1, <1>2
<1>5. Len(journal.records) + 1 + Reservation[broker'.state] <= Capacity
  <2>1. ASSUME NEW n \in Nat, NEW m \in Nat, NEW k \in Nat, n + 1 <= m, k + m <= Capacity
        PROVE  k + 1 + n <= Capacity
    BY <2>1, CapacityAssumption
  <2> QED
    BY <1>1, <1>4, <2>1, Zenon
<1> QED
  BY <1>3, <1>5

(* The next request number is kept when a request is decided. *)
LEMMA NextNumber ==
    ASSUME JInv, broker.state \in {"Pending", "Approved"}
    PROVE  broker.exhausted \/ broker.nextSequence = broker.sequence + 1
<1>1. journal.state = "Live" /\ broker.sequence = LastOf(journal.records)[2]
  BY DEF JInv, JournalInv
<1> QED
  BY <1>1 DEF JInv, JournalInv

(* Approving, with its record. *)
LEMMA ApproveJournaled ==
    ASSUME JInv, NEW t \in Tasks, Runs(t), t = Supervisor, broker.state = "Pending",
           Acting(Supervisor, "Broker", "Decide"),
           Approve(t), RecordDecision("Approve")
    PROVE  JInv' /\ Deciding
<1> DEFINE rights == {"Decide"}
           r == RequestRecord("Approved", Supervisor, "Broker", rights)
<1>1. /\ broker.epoch # EpochMax /\ broker.epoch + 1 # EpochMax
  BY ReservedRoom
<1>2. /\ SupInv' /\ broker'.state = "Approved"
      /\ broker'.sequence = broker.sequence /\ broker'.epoch = broker.epoch + 1
      /\ broker'.nextSequence = broker.nextSequence
  BY <1>1, ApproveKeeps, Zenon DEF JInv
<1>3. broker'.exhausted = broker.exhausted /\ caps' = caps /\ effect' = effect
  <2>1. broker \in Brokers
    BY DEF JInv, SupInv, BrokerInv, RequestOK
  <2> QED
    BY <2>1 DEF Approve, Advanced, Resume, Brokers
<1>4. "Approved" \in Events /\ rights \in SUBSET Rights /\ Supervisor \in {Kernel} \cup Tasks
  BY RoleFacts DEF Events, Rights
<1>5. DecisionEvent["Approve"] = "Approved"
  BY DEF DecisionEvent
<1>6. journal' = Extended(journal, r, 1)
  <2>1. journal \in Journals /\ journal.reserved = 2
    BY ReservedRoom DEF JInv, JournalInv
  <2>2. journal' = AppendReserved(journal, r, FALSE)
    BY <1>5 DEF RecordDecision
  <2> HIDE DEF r
  <2>3. journal' = [journal EXCEPT !.records = Append(@, r), !.reserved = @ - 1]
    BY <2>2 DEF AppendReserved
  <2>4. journal' = [state |-> journal.state, reserved |-> journal.reserved - 1,
                    records |-> Append(journal.records, r)]
    BY <2>1, <2>3, Zenon DEF Journals
  <2> QED
    BY <2>1, <2>4 DEF Extended
<1> HIDE DEF rights
<1>7. /\ r \in Records /\ r.event = "Approved" /\ r.epoch = broker.epoch + 1
      /\ r.actor = Supervisor /\ r.sequence = broker.sequence
      /\ r.type = "Broker" /\ r.rights = rights
      /\ LastOf(journal.records) = <<"Requested", broker.sequence>>
  BY <1>4, RequestRecordFacts DEF RecordOf
<1> HIDE DEF r
<1>8. Recorded(r) /\ Len(journal.records) + 1 + Reservation[broker'.state] <= Capacity
  BY <1>2, <1>6, <1>7, ReservedRecord
<1>9. Follows(r, LastOf(journal.records)) /\ broker'.state = StateAfter(r.event)
  BY <1>2, <1>7 DEF Follows, StateAfter
<1>10. ~AllDead
  BY SomeoneLives DEF Runs
<1>11. broker'.exhausted \/ broker'.nextSequence = r.sequence + 1
  BY <1>2, <1>3, <1>7, NextNumber
<1>12. JInv'
  BY <1>2, <1>3, <1>7, <1>8, <1>9, <1>10, <1>11, RecordedKeeps, ZenonT(30)
<1>13. Deciding
  BY <1>2, <1>3, <1>7, <1>8, Zenon DEF Deciding, rights
<1> QED
  BY <1>12, <1>13

(* The request's end keeps its number and whether it was the last one. *)
LEMMA EndedNumber ==
    ASSUME JInv, broker' = [Cleared(Advanced(broker)) EXCEPT !.state = "Empty"]
    PROVE  broker'.exhausted = broker.exhausted
<1>1. broker \in Brokers
  BY DEF JInv, SupInv, BrokerInv, RequestOK
<1> QED
  BY <1>1 DEF Cleared, Advanced, Brokers

(* A transition that ends the request at hand, with its record. *)
LEMMA EndKeeps ==
    ASSUME JInv, SupInv', NEW t \in Tasks, Runs(t), NEW r \in Records,
           broker.state \in {"Pending", "Approved"},
           broker' = [Cleared(Advanced(broker)) EXCEPT !.state = "Empty"],
           broker'.state = "Empty", broker'.epoch = broker.epoch + 1,
           broker'.nextSequence = broker.nextSequence, caps' = caps,
           r.event \in {"Denied", "Expired", "Completed", "Failed"},
           r.epoch = broker.epoch + 1, r.sequence = broker.sequence,
           Follows(r, LastOf(journal.records)),
           journal' = Extended(journal, r, 0)
    PROVE  JInv' /\ Recorded(r)
<1>1. Recorded(r) /\ Len(journal.records) + 1 + Reservation[broker'.state] <= Capacity
  BY ReservedRecord
<1>2. broker'.exhausted = broker.exhausted
  BY EndedNumber
<1>3. broker'.exhausted \/ broker'.nextSequence = r.sequence + 1
  BY <1>2, NextNumber
<1>4. broker'.state = StateAfter(r.event)
  BY DEF StateAfter
<1>5. ~AllDead
  BY SomeoneLives DEF Runs
<1> QED
  BY <1>1, <1>3, <1>4, <1>5, RecordedKeeps

(* Denying and expiring, with the record. *)
LEMMA RefuseJournaled ==
    ASSUME JInv, NEW t \in Tasks, Runs(t), t = Supervisor,
           broker.state \in {"Pending", "Approved"},
           NEW decision \in {"Deny", "Expire"}, decision = "Deny" => broker.state = "Pending",
           Acting(Supervisor, "Broker", "Decide"),
           Refuse(t, decision), RecordDecision(decision)
    PROVE  JInv' /\ Deciding
<1> DEFINE rights == {"Decide"}
           event == DecisionEvent[decision]
           r == RequestRecord(event, Supervisor, "Broker", rights)
<1>1. broker.epoch # EpochMax
  BY ReservedRoom
<1>2. /\ SupInv' /\ broker'.state = "Empty"
      /\ broker'.epoch = broker.epoch + 1 /\ broker'.nextSequence = broker.nextSequence
      /\ reply'[Workload] = Reply(Refusal[decision], 0) /\ effect' = effect
  BY <1>1, RefuseKeeps, Zenon DEF JInv
<1>3. caps' = caps /\ broker' = [Cleared(Advanced(broker)) EXCEPT !.state = "Empty"]
  BY DEF Refuse, EndRequest
<1>4. rights \in SUBSET Rights /\ Supervisor \in {Kernel} \cup Tasks
  BY RoleFacts DEF Rights
<1>5. /\ event \in Events /\ event \in {"Denied", "Expired"}
      /\ event = "Denied" => /\ decision = "Deny" /\ broker.state = "Pending"
                             /\ Refusal[decision] = "ApprovalDenied"
      /\ event = "Expired" => decision = "Expire" /\ Refusal[decision] = "ApprovalExpired"
  <2>1. CASE decision = "Deny"
    <3>1. event = "Denied" /\ Refusal[decision] = "ApprovalDenied"
      BY <2>1 DEF DecisionEvent, Refusal
    <3> QED
      BY <2>1, <3>1 DEF Events
  <2>2. CASE decision = "Expire"
    <3>1. event = "Expired" /\ Refusal[decision] = "ApprovalExpired"
      BY <2>2 DEF DecisionEvent, Refusal
    <3> QED
      BY <2>2, <3>1 DEF Events
  <2> QED
    BY <2>1, <2>2, Zenon
<1>6. journal' = Extended(journal, r, 0)
  <2>1. journal \in Journals
        /\ journal.reserved = IF broker.state = "Pending" THEN 2 ELSE 1
    BY ReservedRoom DEF JInv, JournalInv
  <2>2. journal' = AppendReserved(journal, r, \/ decision = "Deny"
                                              \/ decision = "Expire" /\ broker.state = "Pending")
    BY DEF RecordDecision
  <2> HIDE DEF r
  <2>3. PICK n : /\ n = IF \/ decision = "Deny"
                           \/ decision = "Expire" /\ broker.state = "Pending"
                        THEN 0 ELSE journal.reserved - 1
                 /\ journal' = [journal EXCEPT !.records = Append(@, r), !.reserved = n]
    BY <2>2, Zenon DEF AppendReserved
  <2>4. journal' = [state |-> journal.state, reserved |-> n,
                    records |-> Append(journal.records, r)]
    BY <2>1, <2>3, Zenon DEF Journals
  <2>5. n = 0
    BY <2>1, <2>3
  <2> QED
    BY <2>4, <2>5 DEF Extended
<1> HIDE DEF rights, event
<1>7. /\ r \in Records /\ r.event = event /\ r.epoch = broker.epoch + 1
      /\ r.actor = Supervisor /\ r.sequence = broker.sequence
      /\ r.type = "Broker" /\ r.rights = rights
      /\ LastOf(journal.records) =
            <<IF broker.state = "Pending" THEN "Requested" ELSE "Approved", broker.sequence>>
  BY <1>4, <1>5, RequestRecordFacts DEF RecordOf
<1> HIDE DEF r
<1>8. Follows(r, LastOf(journal.records))
  BY <1>5, <1>7 DEF Follows
<1>9. JInv' /\ Recorded(r)
  BY <1>2, <1>3, <1>5, <1>6, <1>7, <1>8, EndKeeps
<1>10. Deciding
  BY <1>2, <1>5, <1>7, <1>9 DEF Deciding, rights
<1> QED
  BY <1>9, <1>10

(* DecideRequest with the journal: neither the epoch nor the journal is    *)
(* ever exhausted under an open request.                                   *)
LEMMA DecideJournaled ==
    ASSUME JInv, NEW t \in Tasks, NEW raw \in Handles, NEW sequence,
           NEW decision \in Decisions, JournaledDecide(t, raw, sequence, decision)
    PROVE  JInv' /\ (Steady \/ Deciding)
<1> DEFINE status == DecideStatus(t, raw, sequence, decision)
<1>1. Runs(t)
  BY DEF JournaledDecide
<1>2. /\ status \in Statuses
      /\ status = "Ok" => /\ t = Supervisor /\ broker.state \in {"Pending", "Approved"}
                          /\ decision \in {"Approve", "Deny", "Expire"}
                          /\ decision \in {"Approve", "Deny"} => broker.state = "Pending"
  BY <1>1, DecideStatuses DEF JInv
<1>3. status = "Ok" => Acting(t, "Broker", "Decide")
  <2>1. status = "Ok" => ResolveObject(t, raw, "Broker", "Decide", broker.state # "Dead") = "Ok"
    BY DEF DecideStatus
  <2> QED
    BY <1>1, <2>1, ResolvedActs
<1>4. CASE status # "Ok"
  <2>1. RejectJournaled(t, status)
    BY <1>4 DEF JournaledDecide
  <2> HIDE DEF status
  <2> QED
    BY <1>1, <1>2, <2>1, RejectJournaledKeeps
<1>5. CASE status = "Ok"
  <2>1. CanWake /\ CanAppendReserved(journal)
    BY <1>2, <1>5, HeldRequest, ReservedRoom DEF JInv
  <2>2. ~EpochExhausted(decision)
    BY <1>2, <1>5, ReservedRoom DEF EpochExhausted
  <2>3. /\ IF decision = "Approve" THEN Approve(t) ELSE Refuse(t, decision)
        /\ RecordDecision(decision)
    BY <1>5, <2>1, <2>2 DEF JournaledDecide
  <2>4. CASE decision = "Approve"
    BY <1>1, <1>2, <1>3, <1>5, <2>3, <2>4, ApproveJournaled
  <2>5. CASE decision # "Approve"
    <3>1. decision \in {"Deny", "Expire"}
      BY <1>2, <1>5, <2>5
    <3> QED
      BY <1>1, <1>2, <1>3, <1>5, <2>3, <2>5, <3>1, RefuseJournaled
  <2> QED
    BY <2>4, <2>5
<1> QED
  BY <1>4, <1>5
-----------------------------------------------------------------------------
(* A commit of the supervisor that took effect, and one that found the     *)
(* cell occupied, with their records.                                      *)
Completing ==
    \E r : /\ Recorded(r) /\ Acting(Supervisor, "Effect", "Commit")
           /\ r.event = "Completed" /\ r.actor = Supervisor
           /\ r.type = "Effect" /\ r.rights = {"Commit"}
           /\ r.sequence = broker.sequence /\ broker.state = "Approved"
           /\ effect.occupied = FALSE /\ effect'.occupied = TRUE
           /\ reply'[Workload] = Reply("Ok", broker.argument)

Failing ==
    \E r : /\ Recorded(r) /\ Acting(Supervisor, "Effect", "Commit")
           /\ r.event = "Failed" /\ r.actor = Supervisor
           /\ r.type = "Effect" /\ r.rights = {"Commit"}
           /\ r.sequence = broker.sequence /\ broker.state = "Approved"
           /\ effect.occupied = TRUE /\ effect' = effect
           /\ reply'[Workload] = Reply("EffectUnavailable", 0)

(* A commit's record takes the last reserved place. *)
LEMMA EffectRecord ==
    ASSUME JInv, SupInv', NEW t \in Tasks, Runs(t), broker.state = "Approved",
           NEW event \in {"Completed", "Failed"}, RecordEffect(event),
           broker' = [Cleared(Advanced(broker)) EXCEPT !.state = "Empty"],
           broker'.state = "Empty", broker'.epoch = broker.epoch + 1,
           broker'.nextSequence = broker.nextSequence, caps' = caps
    PROVE  /\ JInv'
           /\ \E r : /\ Recorded(r) /\ r.event = event /\ r.actor = Supervisor
                     /\ r.type = "Effect" /\ r.rights = {"Commit"}
                     /\ r.sequence = broker.sequence
<1> DEFINE rights == {"Commit"}
           r == RequestRecord(event, Supervisor, "Effect", rights)
<1>1. journal \in Journals /\ journal.reserved = 1
  BY ReservedRoom DEF JInv, JournalInv
<1>2. journal' = AppendReserved(journal, r, FALSE)
  BY DEF RecordEffect
<1>3. rights \in SUBSET Rights /\ Supervisor \in {Kernel} \cup Tasks /\ event \in Events
  BY RoleFacts DEF Rights, Events
<1> HIDE DEF rights
<1>4. /\ r \in Records /\ r.event = event /\ r.epoch = broker.epoch + 1
      /\ r.actor = Supervisor /\ r.sequence = broker.sequence
      /\ r.type = "Effect" /\ r.rights = rights
      /\ LastOf(journal.records) = <<"Approved", broker.sequence>>
  BY <1>3, RequestRecordFacts DEF RecordOf
<1> HIDE DEF r
<1>5. journal' = [journal EXCEPT !.records = Append(@, r), !.reserved = @ - 1]
  BY <1>2 DEF AppendReserved
<1>6. journal' = [state |-> journal.state, reserved |-> journal.reserved - 1,
                  records |-> Append(journal.records, r)]
  BY <1>1, <1>5, Zenon DEF Journals
<1>7. journal' = Extended(journal, r, 0)
  BY <1>1, <1>6 DEF Extended
<1>8. Follows(r, LastOf(journal.records))
  BY <1>4 DEF Follows
<1>9. JInv' /\ Recorded(r)
  BY <1>4, <1>7, <1>8, EndKeeps
<1> QED
  BY <1>4, <1>9 DEF rights

(* A commit that finds the cell occupied ends its request. *)
LEMMA UnavailableKeeps ==
    ASSUME SupInv, NEW t \in Tasks, t = Supervisor, Runs(t),
           broker.state = "Approved", broker.epoch # EpochMax, CommitUnavailable(t)
    PROVE  /\ SupInv' /\ broker'.state = "Empty" /\ broker'.epoch = broker.epoch + 1
           /\ broker'.nextSequence = broker.nextSequence
           /\ reply'[Workload] = Reply("EffectUnavailable", 0) /\ effect' = effect
<1> DEFINE result == Reply("EffectUnavailable", 0)
<1>1. /\ broker' = [Cleared(Advanced(broker)) EXCEPT !.state = "Empty"]
      /\ WakeWorkload(t, result, result)
      /\ UNCHANGED <<caps, spent, failed, manifest>> /\ effect' = effect
  BY DEF CommitUnavailable, EndRequest
<1>2. result \in Replies
  BY ReplyType DEF Statuses
<1> HIDE DEF result
<1>3. /\ reply' \in [Tasks -> Replies] /\ reply'[Workload] = result
      /\ state' = WakeState(Workload) /\ queue' = Append(queue, Workload)
  BY <1>1, <1>2, WakeReplies, RoleFacts
<1>4. /\ RequestOK(broker') /\ broker'.state = "Empty"
      /\ broker'.epoch = broker.epoch + 1 /\ broker'.nextSequence = broker.nextSequence
  BY <1>1, EndedRequest
<1>5. CellOK(effect')
  BY <1>1 DEF SupInv, BrokerInv
<1> QED
  BY <1>1, <1>3, <1>4, <1>5, WakeSup DEF result

(* CommitEffect with the journal. *)
LEMMA CommitJournaled ==
    ASSUME JInv, NEW t \in Tasks, NEW raw \in Handles, NEW sequence,
           NEW argument \in Arguments, JournaledCommit(t, raw, sequence, argument)
    PROVE  JInv' /\ (Steady \/ Completing \/ Failing)
<1> DEFINE status == CommitStatus(t, raw, sequence, argument)
<1>1. Runs(t)
  BY DEF JournaledCommit
<1>2. /\ status \in Statuses
      /\ status \in {"Ok", "EffectUnavailable"} =>
            /\ t = Supervisor /\ broker.state = "Approved" /\ effect.live
            /\ broker.argument = argument
      /\ status = "Ok" => ~effect.occupied
      /\ status = "EffectUnavailable" => effect.occupied
  BY <1>1, CommitStatuses DEF JInv
<1>3. status \in {"Ok", "EffectUnavailable"} => Acting(t, "Effect", "Commit")
  <2>1. ResolveObject(t, raw, "Effect", "Commit", effect.live)
            \in {"Ok", "InvalidHandle", "WrongObject", "RightsDenied"}
    BY ObjectStatuses
  <2>2. status \in {"Ok", "EffectUnavailable"} =>
            ResolveObject(t, raw, "Effect", "Commit", effect.live) = "Ok"
    BY <2>1 DEF CommitStatus
  <2> QED
    BY <1>1, <2>2, ResolvedActs
<1>4. effect.occupied \in BOOLEAN
  BY DEF JInv, SupInv, BrokerInv, CellOK, Effects
<1>5. CASE status \notin {"Ok", "EffectUnavailable"}
  <2>1. RejectJournaled(t, status)
    BY <1>5 DEF JournaledCommit
  <2> HIDE DEF status
  <2> QED
    BY <1>1, <1>2, <2>1, RejectJournaledKeeps
<1>6. ASSUME status \in {"Ok", "EffectUnavailable"}
      PROVE  CanWake /\ CanAppendReserved(journal) /\ broker.epoch < EpochMax
             /\ broker.epoch # EpochMax
  BY <1>2, <1>6, HeldRequest, ReservedRoom DEF JInv
<1>7. CASE status = "Ok"
  <2>1. Commit(t, argument) /\ RecordEffect("Completed")
    BY <1>6, <1>7 DEF JournaledCommit
  <2>2. /\ SupInv' /\ broker'.state = "Empty"
        /\ broker'.epoch = broker.epoch + 1 /\ broker'.nextSequence = broker.nextSequence
        /\ reply'[Workload] = Reply("Ok", argument) /\ effect'.occupied = TRUE
    BY <1>1, <1>2, <1>6, <1>7, <2>1, CommitKeeps, Zenon DEF JInv
  <2>3. caps' = caps /\ broker' = [Cleared(Advanced(broker)) EXCEPT !.state = "Empty"]
    BY <2>1 DEF Commit, EndRequest
  <2>4. JInv' /\ \E r : /\ Recorded(r) /\ r.event = "Completed" /\ r.actor = Supervisor
                        /\ r.type = "Effect" /\ r.rights = {"Commit"}
                        /\ r.sequence = broker.sequence
    BY <1>1, <1>2, <1>7, <2>1, <2>2, <2>3, EffectRecord
  <2> QED
    BY <1>2, <1>3, <1>4, <1>7, <2>2, <2>4 DEF Completing
<1>8. CASE status = "EffectUnavailable"
  <2>1. CommitUnavailable(t) /\ RecordEffect("Failed")
    BY <1>6, <1>8 DEF JournaledCommit
  <2>2. /\ SupInv' /\ broker'.state = "Empty"
        /\ broker'.epoch = broker.epoch + 1 /\ broker'.nextSequence = broker.nextSequence
        /\ reply'[Workload] = Reply("EffectUnavailable", 0) /\ effect' = effect
    BY <1>1, <1>2, <1>6, <1>8, <2>1, UnavailableKeeps DEF JInv
  <2>3. caps' = caps /\ broker' = [Cleared(Advanced(broker)) EXCEPT !.state = "Empty"]
    BY <2>1 DEF CommitUnavailable, EndRequest
  <2>4. JInv' /\ \E r : /\ Recorded(r) /\ r.event = "Failed" /\ r.actor = Supervisor
                        /\ r.type = "Effect" /\ r.rights = {"Commit"}
                        /\ r.sequence = broker.sequence
    BY <1>1, <1>2, <1>8, <2>1, <2>2, <2>3, EffectRecord
  <2> QED
    BY <1>2, <1>3, <1>4, <1>8, <2>2, <2>4 DEF Failing
<1> QED
  BY <1>5, <1>7, <1>8
-----------------------------------------------------------------------------
(* A request is present exactly while it is pending or approved. *)
LEMMA PresentRequest ==
    ASSUME SupInv
    PROVE  broker.present <=> broker.state \in {"Pending", "Approved"}
<1>1. RequestOK(broker) /\ broker.state \in BrokerStates
  BY DEF SupInv, BrokerInv, RequestOK, Brokers
<1>2. broker.state = "Dead" => broker.present = FALSE
  BY <1>1 DEF RequestOK, DeadBroker
<1> QED
  BY <1>1, <1>2 DEF RequestOK, Blank, BrokerStates

(* The journal and its new record when the kernel ends an open request. *)
LEMMA KernelRecord ==
    ASSUME JInv, OpenRequest
    PROVE  LET r == TerminalRecord
           IN  /\ EndedJournal = Extended(journal, r, 0)
               /\ r \in Records /\ r.actor = Kernel /\ r.rights = {}
               /\ r.event = IF broker.state = "Pending" THEN "Denied" ELSE "Expired"
               /\ r.epoch = broker.epoch + 1 /\ r.sequence = broker.sequence
               /\ Follows(r, LastOf(journal.records))
<1> DEFINE event == IF broker.state = "Pending" THEN "Denied" ELSE "Expired"
           r == TerminalRecord
<1>1. broker.state \in {"Pending", "Approved"}
  BY PresentRequest DEF OpenRequest, JInv
<1>2. journal \in Journals /\ journal.reserved = IF broker.state = "Pending" THEN 2 ELSE 1
  BY <1>1, ReservedRoom DEF JInv, JournalInv
<1>3. /\ event \in Events /\ Kernel \in {Kernel} \cup Tasks
      /\ {} \in SUBSET Rights /\ "Broker" \in {"Broker", "Effect"}
  BY DEF Events
<1>4. r = RequestRecord(event, Kernel, "Broker", {})
  BY DEF TerminalRecord
<1> HIDE DEF event
<1>5. /\ r \in Records /\ r.event = event /\ r.epoch = broker.epoch + 1
      /\ r.actor = Kernel /\ r.sequence = broker.sequence /\ r.rights = {}
      /\ LastOf(journal.records) =
            <<IF broker.state = "Pending" THEN "Requested" ELSE "Approved", broker.sequence>>
  <2>1. RecordOf(r, event, broker.epoch + 1, Kernel, broker.sequence, "Broker", {})
    BY <1>1, <1>3, <1>4, RequestRecordFacts
  <2>2. LastOf(journal.records) =
            <<IF broker.state = "Pending" THEN "Requested" ELSE "Approved", broker.sequence>>
    BY <1>1, <1>3, RequestRecordFacts
  <2> QED
    BY <2>1, <2>2, Zenon DEF RecordOf
<1> HIDE DEF r
<1>6. PICK j : /\ j = EndedJournal
               /\ j = AppendReserved(journal, r, broker.state = "Pending")
  BY DEF EndedJournal, r
<1>7. PICK n : /\ n = IF broker.state = "Pending" THEN 0 ELSE journal.reserved - 1
               /\ j = [journal EXCEPT !.records = Append(@, r), !.reserved = n]
  BY <1>6, Zenon DEF AppendReserved
<1>8. j = [state |-> journal.state, reserved |-> n, records |-> Append(journal.records, r)]
  BY <1>2, <1>7, Zenon DEF Journals
<1>9. n = 0
  BY <1>2, <1>7
<1>10. EndedJournal = Extended(journal, r, 0)
  BY <1>6, <1>8, <1>9 DEF Extended
<1>11. Follows(r, LastOf(journal.records))
  BY <1>1, <1>5 DEF Follows, event
<1> QED
  BY <1>5, <1>10, <1>11 DEF event, r

(* The first teardown always succeeds in ending the open request and       *)
(* sealing the journal.                                                    *)
LEMMA SealAllowed ==
    ASSUME JInv
    PROVE  CanSealNow
<1>1. ASSUME OpenRequest
      PROVE  /\ broker.epoch < EpochMax /\ broker.state \in {"Pending", "Approved"}
             /\ CanAppendReserved(journal) /\ CanSeal(EndedJournal)
  <2>1. broker.state \in {"Pending", "Approved"}
    BY <1>1, PresentRequest DEF OpenRequest, JInv
  <2> DEFINE r == TerminalRecord
  <2>2. EndedJournal = Extended(journal, r, 0)
    BY <1>1, KernelRecord
  <2> HIDE DEF r
  <2>3. CanSeal(EndedJournal)
    BY <1>1, <2>2 DEF CanSeal, Extended, OpenRequest
  <2> QED
    BY <2>1, <2>3, ReservedRoom
<1>2. ASSUME ~OpenRequest, journal.state = "Live" PROVE CanSeal(EndedJournal)
  <2>1. broker.state \notin {"Pending", "Approved"}
    BY <1>2, PresentRequest DEF OpenRequest, JInv
  <2>2. journal.reserved = 0
    BY <1>2, <2>1, NothingReserved
  <2> QED
    BY <1>2, <2>2 DEF EndedJournal, CanSeal
<1> QED
  BY <1>1, <1>2 DEF CanSealNow

(* The records of a sealed journal end with no request open. *)
LEMMA SealedRecords ==
    ASSUME JInv, journal.state = "Live", journal' = SealedJournal
    PROVE  /\ journal'.state = "Sealed" /\ journal' \in Journals /\ JournalValid(journal')
           /\ Story(journal'.records)
           /\ LastOf(journal'.records)[1] \notin {"Requested", "Approved"}
           /\ \/ /\ broker.state \notin {"Pending", "Approved"} /\ ~OpenRequest
                 /\ journal'.records = journal.records
              \/ /\ broker.state \in {"Pending", "Approved"} /\ OpenRequest
                 /\ journal'.records = Append(journal.records, TerminalRecord)
<1>1. journal \in Journals /\ Story(journal.records) /\ journal.records \in Seq(Records)
      /\ Len(journal.records) + journal.reserved <= Capacity /\ Len(journal.records) \in Nat
      /\ broker.epoch = Len(journal.records) + 1
  BY DEF JInv, JournalInv, JournalValid, Journals
<1>2. journal' = Seal(EndedJournal)
  BY DEF SealedJournal
<1>3. CASE OpenRequest
  <2> DEFINE r == TerminalRecord
             new == Append(journal.records, r)
  <2>1. broker.state \in {"Pending", "Approved"}
    BY <1>3, PresentRequest DEF OpenRequest, JInv
  <2>2. /\ EndedJournal = Extended(journal, r, 0) /\ r \in Records
        /\ r.event \in {"Denied", "Expired"}
        /\ r.epoch = broker.epoch + 1 /\ Follows(r, LastOf(journal.records))
    BY <1>3, KernelRecord
  <2> HIDE DEF r
  <2>3. r.epoch = Len(journal.records) + 2
    BY <1>1, <2>2
  <2>4. /\ new \in Seq(Records) /\ Story(new) /\ LastOf(new) = <<r.event, r.sequence>>
        /\ Len(new) = Len(journal.records) + 1
    BY <1>1, <2>2, <2>3, StoryGrows
  <2> HIDE DEF new
  <2>5. EndedJournal = [state |-> "Live", reserved |-> 0, records |-> new]
    BY <2>2 DEF Extended, new
  <2>6. EndedJournal \in Journals /\ EndedJournal.records = new /\ EndedJournal.reserved = 0
    BY <2>4, <2>5 DEF Journals
  <2>7. journal' = [state |-> "Sealed", reserved |-> 0, records |-> new]
    BY <1>2, <2>6, JournalOperations
  <2>8. Len(new) <= Capacity
    BY <1>1, <2>1, <2>4, ReservedRoom, CapacityAssumption DEF CanAppendReserved
  <2>9. /\ journal'.state = "Sealed" /\ journal' \in Journals /\ JournalValid(journal')
        /\ journal'.records = new
    BY <2>4, <2>7, <2>8 DEF Journals, JournalValid
  <2>10. LastOf(new)[1] \notin {"Requested", "Approved"}
    BY <2>2, <2>4
  <2> QED
    BY <1>3, <2>1, <2>4, <2>9, <2>10 DEF new, r
<1>4. CASE ~OpenRequest
  <2>1. broker.state \notin {"Pending", "Approved"}
    BY <1>4, PresentRequest DEF OpenRequest, JInv
  <2>2. journal.reserved = 0
    BY <2>1, NothingReserved
  <2>3. EndedJournal = journal
    BY <1>4 DEF EndedJournal
  <2>4. journal' = [state |-> "Sealed", reserved |-> 0, records |-> journal.records]
    BY <1>1, <1>2, <2>2, <2>3, JournalOperations
  <2>5. /\ journal'.state = "Sealed" /\ journal' \in Journals /\ JournalValid(journal')
        /\ journal'.records = journal.records
    BY <1>1, <2>2, <2>4 DEF Journals, JournalValid
  <2>6. LastOf(journal.records)[1] \notin {"Requested", "Approved"}
    BY <2>1 DEF JInv, JournalInv
  <2> QED
    BY <1>1, <1>4, <2>1, <2>5, <2>6
<1> QED
  BY <1>3, <1>4

(* The teardown that seals the journal, ending an open request. *)
Sealing ==
    /\ journal.state = "Live" /\ journal'.state = "Sealed"
    /\ \E t \in Tasks : state[t] = "Exited"
    /\ effect' \in {effect, NoEffect}
    /\ \/ broker.state \notin {"Pending", "Approved"} /\ journal'.records = journal.records
       \/ /\ broker.state \in {"Pending", "Approved"}
          /\ \E r \in Records :
                /\ journal'.records = Append(journal.records, r)
                /\ r.actor = Kernel /\ r.rights = {} /\ r.sequence = broker.sequence
                /\ r.event = IF broker.state = "Pending" THEN "Denied" ELSE "Expired"
                /\ reply'[Workload] = Reply(TeardownStatus, 0)

(* The sealing step keeps JInv. *)
LEMMA SealingKeeps ==
    ASSUME JInv, SupInv', journal.state = "Live", journal' = SealedJournal,
           broker'.state \notin {"Pending", "Approved"},
           JournalEntries(Supervisor)' \subseteq {3}
    PROVE  JInv'
BY SealedRecords, Zenon DEF JInv, JournalInv

(* The broker a teardown starts from. *)
LEMMA TeardownBrokerFacts ==
    ASSUME JInv
    PROVE  /\ TeardownBroker \in Brokers /\ TeardownBroker.bound = broker.bound
           /\ broker.state # "Dead" =>
                 TeardownBroker.nextSequence # 0 /\ TeardownBroker.epoch # 0
<1>1. broker \in Brokers
      /\ (broker.state # "Dead" => broker.nextSequence # 0 /\ broker.epoch # 0)
  BY Zenon DEF JInv, SupInv, BrokerInv, RequestOK
<1>2. CASE OpenRequest
  <2>1. broker.epoch # EpochMax /\ broker.state # "Dead"
    BY <1>1, <1>2, SealAllowed, SupervisedAssumption DEF CanSealNow, Brokers
  <2> DEFINE b == Advanced(broker)
  <2>2. b \in Brokers /\ b.epoch = broker.epoch + 1 /\ broker.epoch + 1 # 0
        /\ b.nextSequence = broker.nextSequence /\ b.bound = broker.bound
    BY <1>1, <2>1, AdvancedBroker
  <2> HIDE DEF b
  <2>3. TeardownBroker = b
    BY <1>2 DEF TeardownBroker, b
  <2> QED
    BY <1>1, <2>1, <2>2, <2>3
<1>3. CASE ~OpenRequest
  BY <1>1, <1>3 DEF TeardownBroker
<1> QED
  BY <1>2, <1>3

(* begin_teardown of the supervisor: seals a live journal, ends an open    *)
(* request with the kernel's record and tells the workload.                *)
LEMMA SupervisorTeardownJournaled ==
    ASSUME JInv, JournaledBeginSupervisorTeardown
    PROVE  JInv' /\ (Steady \/ Sealing)
<1>1. /\ Tearing(Supervisor, "Live") /\ state[Supervisor] = "Exited"
      /\ caps \in [Tasks -> Tables] /\ spent \in [Tasks -> SUBSET Pairs]
      /\ TableOK(caps[Supervisor]) /\ Buried(caps[Supervisor], spent[Supervisor])
      /\ reply \in [Tasks -> Replies]
  BY RoleFacts DEF JournaledBeginSupervisorTeardown, Tearing, JInv, SupInv, RuntimeInv
<1>2. CanSealNow /\ (state[Workload] = "BlockedApproval" => CanWake)
  BY SealAllowed, HeldRequest DEF JInv, SupInv, BrokerInv
<1>3. CloseSupervisor(TeardownBroker) /\ journal' = SealedJournal
  BY <1>2 DEF JournaledBeginSupervisorTeardown
<1>4. broker.state # "Dead"
  BY <1>1 DEF JInv, SupInv, BrokerInv
<1>5. SupInv' /\ broker'.state = "Closing"
  BY <1>1, <1>3, <1>4, TeardownBrokerFacts, CloseSupervisorKeeps, Zenon DEF JInv
<1>6. NoEntries(caps'[Supervisor])
  BY <1>1, <1>3, RoleFacts, CloseTableSteps DEF CloseSupervisor
<1>7. \A i \in SlotIndex : caps'[Supervisor].slots[i].entry.type # "Journal"
  <2>1. NoEntry.type # "Journal"
    BY DEF NoEntry
  <2> QED
    BY <1>6, <2>1, Zenon DEF NoEntries
<1>8. ~AllDead /\ effect' = NoEffect
  BY <1>1, <1>3, RoleFacts, SomeoneLives DEF CloseSupervisor
<1>9. CASE journal.state # "Live"
  <2>1. Steady
    BY <1>3, <1>8, <1>9 DEF Steady, SealedJournal
  <2> QED
    BY <1>5, <1>7, <1>8, <1>9, <2>1, SteadyKeeps
<1>10. CASE journal.state = "Live"
  <2>1. JInv'
    BY <1>3, <1>5, <1>7, <1>10, SealingKeeps DEF JournalEntries
  <2>2. journal'.state = "Sealed"
    BY <1>3, <1>10, SealedRecords
  <2>3. CASE broker.state \notin {"Pending", "Approved"}
    <3>1. journal'.records = journal.records
      BY <1>3, <1>10, <2>3, SealedRecords
    <3> QED
      BY <1>1, <1>8, <1>10, <2>1, <2>2, <2>3, <3>1, RoleFacts DEF Sealing
  <2>4. CASE broker.state \in {"Pending", "Approved"}
    <3> DEFINE r == TerminalRecord
    <3>1. OpenRequest /\ journal'.records = Append(journal.records, r)
      BY <1>3, <1>10, <2>4, SealedRecords
    <3>2. /\ r \in Records /\ r.actor = Kernel /\ r.rights = {}
          /\ r.event = IF broker.state = "Pending" THEN "Denied" ELSE "Expired"
          /\ r.sequence = broker.sequence
      BY <3>1, KernelRecord
    <3> HIDE DEF r
    <3>3. state[Workload] = "BlockedApproval"
      BY <2>4, HeldRequest DEF JInv
    <3>4. reply'[Workload] = Reply(TeardownStatus, 0)
      BY <1>1, <1>3, <3>3, RoleFacts DEF CloseSupervisor
    <3> QED
      BY <1>1, <1>8, <1>10, <2>1, <2>2, <2>4, <3>1, <3>2, <3>4, RoleFacts DEF Sealing
  <2> QED
    BY <2>3, <2>4
<1> QED
  BY <1>9, <1>10

(* begin_teardown of the workload: it has no open request, so a live       *)
(* journal is sealed as it stands.                                         *)
LEMMA WorkloadTeardownJournaled ==
    ASSUME JInv, JournaledBeginWorkloadTeardown
    PROVE  JInv' /\ (Steady \/ Sealing)
<1>1. /\ Tearing(Workload, "Live") /\ state[Workload] = "Exited"
      /\ caps \in [Tasks -> Tables] /\ spent \in [Tasks -> SUBSET Pairs]
      /\ TableOK(caps[Workload]) /\ Buried(caps[Workload], spent[Workload])
  BY RoleFacts, Zenon DEF JournaledBeginWorkloadTeardown, Tearing, JInv, SupInv, RuntimeInv
<1>2. CloseWorkload(TeardownBroker) /\ journal' = SealedJournal
  BY SealAllowed DEF JournaledBeginWorkloadTeardown
<1>3. broker.state \notin {"Pending", "Approved"}
  BY <1>1, HeldRequest DEF JInv
<1>4. ~OpenRequest /\ TeardownBroker = broker
  BY <1>3, PresentRequest DEF OpenRequest, TeardownBroker, JInv
<1>5. SupInv' /\ broker'.state = broker.state
  BY <1>1, <1>2, <1>4, TeardownBrokerFacts, CloseWorkloadKeeps, Zenon DEF JInv
<1>6. caps'[Supervisor] = caps[Supervisor]
  BY <1>1, <1>2, RoleFacts, CloseTableSteps DEF CloseWorkload
<1>7. ~AllDead /\ effect' = effect
  BY <1>1, <1>2, RoleFacts, SomeoneLives DEF CloseWorkload
<1>8. CASE journal.state # "Live"
  <2>1. Steady
    BY <1>2, <1>7, <1>8 DEF Steady, SealedJournal
  <2> QED
    BY <1>3, <1>5, <1>6, <1>7, <1>8, <2>1, SteadyKeeps
<1>9. CASE journal.state = "Live"
  <2>1. JournalEntries(Supervisor)' \subseteq {3}
    BY <1>6 DEF JInv, JournalInv, JournalEntries
  <2>2. JInv'
    BY <1>2, <1>3, <1>5, <1>9, <2>1, SealingKeeps
  <2>3. journal'.state = "Sealed" /\ journal'.records = journal.records
    BY <1>2, <1>3, <1>9, SealedRecords
  <2> QED
    BY <1>1, <1>3, <1>7, <1>9, <2>2, <2>3, RoleFacts DEF Sealing
<1> QED
  BY <1>8, <1>9

(* The journal of dead tasks is discarded. *)
Reclaiming ==
    /\ AllDead /\ journal.state = "Sealed" /\ journal' = DeadJournal
    /\ UNCHANGED supervisedVars

(* finish_reclamation always finds the journal sealed. *)
LEMMA ReclaimJournaled ==
    ASSUME JInv, FinishReclamation
    PROVE  JInv' /\ Reclaiming
<1>1. AllDead /\ journal.state # "Dead" /\ journal \in Journals /\ JournalValid(journal)
  BY DEF FinishReclamation, JInv, JournalInv
<1>2. state[Supervisor] = "Dead" /\ caps[Supervisor].state \in TableStateOf["Dead"]
  BY <1>1, RoleFacts DEF AllDead, JInv, SupInv, RuntimeInv
<1>3. journal.state = "Sealed"
  BY <1>1, <1>2, TableStates7 DEF JInv, JournalInv, Journals
<1>4. journal.reserved = 0
  BY <1>1, <1>3 DEF JournalValid
<1>5. Reclaiming
  BY <1>1, <1>3, <1>4 DEF FinishReclamation, Reclaiming
<1>6. /\ state' = state /\ caps' = caps /\ broker' = broker
      /\ UNCHANGED supervisedVars
  BY <1>5 DEF Reclaiming, supervisedVars
<1>7. SupInv'
  BY <1>6, NextKeepsSup DEF JInv
<1>8. broker.state \notin {"Pending", "Approved"}
  BY <1>3 DEF JInv, JournalInv
<1>9. /\ DeadJournal \in Journals /\ JournalValid(DeadJournal) /\ Story(DeadJournal.records)
      /\ LastOf(DeadJournal.records)[1] = "None" /\ DeadJournal.state = "Dead"
  BY CapacityAssumption DEF DeadJournal, Journals, JournalValid, Story, LastOf, Prior
<1>10. JournalEntries(Supervisor)' = JournalEntries(Supervisor) /\ AllDead'
  BY <1>1, <1>6 DEF JournalEntries, AllDead
<1> QED
  BY <1>5, <1>6, <1>7, <1>8, <1>9, <1>10 DEF JInv, JournalInv, Reclaiming
-----------------------------------------------------------------------------
(* What a step does to the journal. *)
JournalStep ==
    \/ Steady \/ Requesting \/ Deciding \/ Completing \/ Failing \/ Sealing \/ Reclaiming

(* publish_supervisor of the journaled runtime: the handle of the journal  *)
(* is the supervisor's fourth.                                             *)
LEMMA InitJournaled == JournaledInit => JInv
<1> SUFFICES ASSUME JournaledInit PROVE JInv
  OBVIOUS
<1> DEFINE rights == RoleRights(Supervisor)
           reads == {"Read"}
           four == Install(SupervisorTable, "Journal", reads)
<1>1. 3 \in SlotIndex
  BY SupervisedAssumption, CapabilityAssumption DEF SlotIndex
<1>2. /\ reads \subseteq rights /\ reads \subseteq Rights
      /\ "Journal" \in ObjectTypes /\ reads \in ValidRights["Journal"]
  BY DEF RoleRights, Rights, ValidRights, ObjectTypes
<1>3. InitWith(four) /\ journal = EmptyJournal
  BY DEF JournaledInit
<1> HIDE DEF rights, reads
<1>4. BuiltTo(SupervisorTable, 3, rights)
  BY SupervisorTableBuilt DEF rights
<1>5. /\ BuiltTo(four, 3 + 1, rights)
      /\ four.slots[3].entry = [type |-> "Journal", rights |-> reads]
      /\ \A i \in SlotIndex \ {3} : four.slots[i] = SupervisorTable.slots[i]
  <2>1. InstalledAt(3, four, SupervisorTable, "Journal", reads, rights)
    BY <1>1, <1>2, <1>4, InstallNext
  <2> HIDE DEF four
  <2> QED
    BY <2>1, Zenon DEF InstalledAt
<1> HIDE DEF four
<1>6. SupInv
  BY <1>3, <1>5, InitWithSup DEF rights
<1>7. /\ state = [t \in Tasks |-> IF t = Supervisor THEN "Ready" ELSE "Staged"]
      /\ caps = [t \in Tasks |-> IF t = Supervisor THEN Publish(four) ELSE BuildingTable]
      /\ broker = EmptyBroker
  BY <1>3 DEF InitWith
<1>8. caps[Supervisor] = Publish(four) /\ caps[Workload] = BuildingTable
      /\ four \in Tables
  BY <1>5, <1>7, RoleFacts DEF BuiltTo, TableOK
<1>9. caps[Supervisor].slots = four.slots /\ caps[Supervisor].state = "Live"
      /\ caps[Workload].state = "Building"
  BY <1>8 DEF Publish, Tables, BuildingTable
<1>10. JournalEntries(Supervisor) \subseteq {3}
  <2>1. SUFFICES ASSUME NEW i \in SlotIndex, i # 3
                 PROVE  caps[Supervisor].slots[i].entry.type # "Journal"
    BY DEF JournalEntries
  <2>2. caps[Supervisor].slots[i] = SupervisorTable.slots[i]
    BY <1>5, <1>9, <2>1, Zenon
  <2> QED
    BY <2>2, SupervisorTableBuilt, Zenon
<1>11. broker.state = "Empty" /\ broker.epoch = 1 /\ broker.nextSequence = 1
  BY <1>7 DEF EmptyBroker, DeadBroker
<1>12. /\ journal.state = "Live" /\ journal.reserved = 0 /\ journal.records = <<>>
       /\ journal \in Journals /\ JournalValid(journal)
  BY <1>3, CapacityAssumption DEF EmptyJournal, Journals, JournalValid
<1>13. Story(journal.records) /\ LastOf(journal.records) = <<"None", 0>>
       /\ Len(journal.records) = 0
  BY <1>12 DEF Story, LastOf, Prior
<1>14. Reservation["Empty"] = 0
  BY DEF Reservation
<1> QED
  BY <1>6, <1>9, <1>10, <1>11, <1>12, <1>13, <1>14 DEF JInv, JournalInv

(* Every step of the journaled runtime keeps JInv and does one of these    *)
(* things to the journal.                                                  *)
LEMMA NextJournaled ==
    ASSUME JInv, [JournaledNext]_journaledVars
    PROVE  JInv' /\ JournalStep
<1> USE DEF JournalStep
<1>1. CASE UNCHANGED journaledVars
  <2>1. UNCHANGED <<state, queue, caps, reply, spent, failed, broker, effect, manifest, journal>>
    BY <1>1 DEF journaledVars
  <2>2. SupInv'
    BY <2>1, NextKeepsSup DEF JInv, supervisedVars
  <2>3. JournalInv'
    BY <2>1 DEF JInv, JournalInv, JournalEntries, AllDead
  <2> QED
    BY <2>1, <2>2, <2>3 DEF JInv, Steady
<1>2. CASE JournaledKernelStep
  BY <1>2, BootJournaled, SupervisorTeardownJournaled, WorkloadTeardownJournaled,
     CompleteJournaled DEF JournaledKernelStep
<1>3. ASSUME NEW t \in Tasks, PlainTrap(t), UNCHANGED journal PROVE JInv' /\ JournalStep
  BY <1>3, PlainJournaled
<1>4. ASSUME NEW t \in Tasks, NEW raw \in Handles, JournaledTrap(t, raw)
      PROVE  JInv' /\ JournalStep
  <2>1. ASSUME NEW registered \in BOOLEAN, StartTrap(t, raw, registered), UNCHANGED journal
        PROVE  JInv' /\ JournalStep
    BY <2>1, StartJournaled
  <2>2. ASSUME NEW kindKnown \in BOOLEAN, NEW argument \in Arguments,
               JournaledSubmit(t, raw, kindKnown, argument)
        PROVE  JInv' /\ JournalStep
    BY <2>2, SubmitJournaled
  <2>3. ASSUME NEW sequence \in 0 .. SequenceMax, NEW decision \in Decisions,
               JournaledDecide(t, raw, sequence, decision)
        PROVE  JInv' /\ JournalStep
    BY <2>3, DecideJournaled
  <2>4. ASSUME NEW sequence \in 0 .. SequenceMax, NEW argument \in Arguments,
               JournaledCommit(t, raw, sequence, argument)
        PROVE  JInv' /\ JournalStep
    BY <2>4, CommitJournaled
  <2>5. ASSUME NEW index \in 0 .. Capacity + 1, NEW triplet \in Triplets,
               ReadJournal(t, raw, index, triplet)
        PROVE  JInv' /\ JournalStep
    <3>1. index \in Nat
      BY CapacityAssumption
    <3> QED
      BY <2>5, <3>1, ReadJournalJournaled
  <2>6. ASSUME InspectTrap(t, raw), UNCHANGED journal PROVE JInv' /\ JournalStep
    BY <2>6, InspectJournaled
  <2>7. ASSUME InspectJournal(t, raw) PROVE JInv' /\ JournalStep
    BY <2>7, InspectJournalJournaled
  <2> QED
    BY <1>4, <2>1, <2>2, <2>3, <2>4, <2>5, <2>6, <2>7 DEF JournaledTrap
<1> QED
  BY <1>1, <1>2, <1>3, <1>4, ReclaimJournaled DEF JournaledNext, JournaledStop

(* The journaled runtime keeps JInv. *)
THEOREM JournaledInvariant == JournaledSpec => []JInv
<1>1. JInv /\ [JournaledNext]_journaledVars => JInv'
  BY NextJournaled
<1> QED
  BY <1>1, InitJournaled, PTL DEF JournaledSpec
-----------------------------------------------------------------------------
(* The workload never holds a handle of the journal, and a dead table has  *)
(* no entries.                                                             *)
LEMMA JournalHandles ==
    ASSUME JInv
    PROVE  /\ JournalEntries(Workload) = {}
           /\ state[Supervisor] = "Dead" => JournalEntries(Supervisor) = {}
<1>1. ASSUME NEW i \in SlotIndex, caps[Workload].slots[i].entry.type = "Journal" PROVE FALSE
  <2>1. caps[Workload] \in Tables /\ TableValid(caps[Workload])
        /\ ConfinedTo(caps[Workload], {"Submit"})
    BY RoleFacts DEF JInv, SupInv, RuntimeInv, TableOK, RoleRights
  <2>2. ValidRights["Journal"] = {{"Read"}} /\ NoEntry.type # "Journal"
    BY DEF ValidRights, NoEntry
  <2>3. caps[Workload].slots[i].entry.rights = {"Read"}
    BY <1>1, <2>1, <2>2, Zenon DEF TableValid
  <2> QED
    BY <2>1, <2>3 DEF ConfinedTo
<1>2. ASSUME state[Supervisor] = "Dead" PROVE JournalEntries(Supervisor) = {}
  <2>1. TableValid(caps[Supervisor]) /\ caps[Supervisor].state = "Dead"
    BY <1>2, RoleFacts, TableStates7, ZenonT(30) DEF JInv, SupInv, RuntimeInv, TableOK
  <2>2. caps[Supervisor] = DeadTable
    BY <2>1 DEF TableValid
  <2>3. \A i \in SlotIndex : DeadTable.slots[i].entry.type # "Journal"
    BY DEF DeadTable, EmptySlot, NoEntry
  <2> QED
    BY <2>2, <2>3 DEF JournalEntries
<1> QED
  BY <1>1, <1>2 DEF JournalEntries

(* JournaledRuntime::validate accepts every reachable state, so room for   *)
(* the terminal record of an open request is always reserved; and the only *)
(* call that returns Err is the complete_teardown of a supervisor that     *)
(* never launched its workload.                                            *)
THEOREM JournaledAccepts ==
    JournaledSpec => [](JournaledValidateAccepts
                        /\ (failed => state[Supervisor] = "Exited" /\ state[Workload] = "Staged"))
<1> DEFINE Accepts ==
        /\ JournaledValidateAccepts
        /\ failed => state[Supervisor] = "Exited" /\ state[Workload] = "Staged"
<1>1. ASSUME JInv PROVE Accepts
  <2>1. AllDead => state[Supervisor] = "Dead" /\ state[Workload] = "Dead"
    BY RoleFacts DEF AllDead
  <2>2. /\ state[Supervisor] = "Dead" => caps[Supervisor].state = "Dead"
        /\ state[Workload] = "Dead" => caps[Workload].state = "Dead"
    BY <1>1, RoleFacts, TableStates7, ZenonT(30) DEF JInv, SupInv, RuntimeInv
  <2>3. journal.state = "Live" => ~AllDead /\ state[Workload] # "Dead"
    BY <1>1, <2>1, <2>2 DEF JInv, JournalInv
  <2>4. journal.state = "Sealed" =>
            ~broker.present /\ broker.state \notin {"Pending", "Approved"}
    BY <1>1, PresentRequest DEF JInv, JournalInv
  <2>5. journal.state \in {"Live", "Sealed", "Dead"}
    BY <1>1 DEF JInv, JournalInv, Journals
  <2>6. JournaledValid
    BY <1>1, <2>1, <2>3, <2>4, <2>5, SupValid, JournalHandles, ZenonT(30)
       DEF JournaledValid, JInv, JournalInv
  <2> QED
    BY <1>1, <2>6 DEF JournaledValidateAccepts, JInv, SupInv, BrokerInv
<1> QED
  BY <1>1, JournaledInvariant, PTL

(* Every accepted broker transition has a record, dated with the epoch it  *)
(* began: the journal misses none and invents none.                        *)
THEOREM TransitionsAreRecorded == JournaledSpec => []EveryTransitionRecorded
<1>1. JInv => EveryTransitionRecorded
  BY DEF JInv, JournalInv, Story, EveryTransitionRecorded
<1> QED
  BY <1>1, JournaledInvariant, PTL

(* The records tell complete, legal, consecutively numbered lifecycles,    *)
(* and the last one is unfinished exactly while the broker holds it.       *)
THEOREM RecordsAreLifecycles == JournaledSpec => []RecordsTellLifecycles
<1>1. ASSUME JInv PROVE RecordsTellLifecycles
  <2> USE <1>1
  <2> DEFINE recs == journal.records
             last == Before(Len(recs) + 1)
  <2>1. ASSUME NEW i PROVE Before(i) = Prior(recs, i)
    BY DEF Before, Prior
  <2>2. ASSUME NEW i \in DOMAIN recs PROVE Follows(recs[i], Before(i))
    <3>1. Follows(recs[i], Prior(recs, i))
      BY DEF JInv, JournalInv, Story
    <3> QED
      BY <2>1, <3>1
  <2>3. last = LastOf(recs)
    BY <2>1 DEF LastOf
  <2>4. broker.present => broker.sequence = last[2]
    BY <2>3, PresentRequest DEF JInv, JournalInv
  <2>5. /\ last[1] = "Requested" <=> broker.state = "Pending"
        /\ last[1] = "Approved" <=> broker.state = "Approved"
    BY <2>3 DEF JInv, JournalInv
  <2> QED
    BY <2>2, <2>4, <2>5 DEF RecordsTellLifecycles, Follows
<1> QED
  BY <1>1, JournaledInvariant, PTL
-----------------------------------------------------------------------------
(* A step that records adds one record at the end. *)
LEMMA RecordedLast ==
    ASSUME journal \in Journals, NEW r \in Records,
           journal'.records = Append(journal.records, r)
    PROVE  /\ Len(journal.records) \in Nat /\ Len(journal'.records) = Len(journal.records) + 1
           /\ journal'.records[Len(journal'.records)] = r
           /\ DOMAIN journal.records = 1 .. Len(journal.records)
           /\ \A i \in DOMAIN journal.records : journal'.records[i] = journal.records[i]
BY DEF Journals

(* A recording step of a task adds its record. *)
LEMMA RecordedAppends ==
    ASSUME NEW r, Recorded(r)
    PROVE  /\ r \in Records /\ journal'.records = Append(journal.records, r)
           /\ journal.state = "Live" /\ journal'.state = "Live"
BY DEF Recorded, Extended

AttributedStep ==
    Len(journal'.records) > Len(journal.records) =>
        LET r == journal'.records[Len(journal'.records)]
        IN  \/ /\ r.actor \in Tasks /\ Runs(r.actor) /\ r.rights # {}
               /\ \E i \in SlotIndex :
                     /\ caps[r.actor].slots[i].entry.type = r.type
                     /\ r.rights \subseteq caps[r.actor].slots[i].entry.rights
            \/ /\ r.actor = Kernel /\ r.rights = {} /\ journal'.state = "Sealed"
               /\ \E t \in Tasks : state[t] = "Exited"

(* Whoever a new record names acted. *)
LEMMA StepAttributed ==
    ASSUME JInv, JournalStep
    PROVE  AttributedStep
<1> DEFINE recs == journal.records
           more == journal'.records
<1>1. journal \in Journals /\ Len(recs) \in Nat
  BY DEF JInv, JournalInv, Journals
<1>2. ASSUME NEW t \in Tasks, NEW type, NEW right, Acting(t, type, right), NEW r,
             Recorded(r), r.actor = t, r.type = type, r.rights = {right}
      PROVE  AttributedStep
  <2>1. more[Len(more)] = r
    BY <1>1, <1>2, RecordedLast, RecordedAppends
  <2>2. PICK i \in SlotIndex : /\ caps[t].slots[i].entry.type = type
                               /\ right \in caps[t].slots[i].entry.rights
    BY <1>2 DEF Acting
  <2>3. r.rights # {} /\ r.rights \subseteq caps[t].slots[i].entry.rights /\ Runs(t)
    BY <1>2, <2>2 DEF Acting
  <2> QED
    BY <1>2, <2>1, <2>2, <2>3, ZenonT(30) DEF AttributedStep
<1>3. ASSUME ~(Len(more) > Len(recs)) PROVE AttributedStep
  BY <1>3, Zenon DEF AttributedStep
<1>4. CASE Steady
  BY <1>1, <1>3, <1>4 DEF Steady
<1>5. CASE Requesting
  BY <1>2, <1>5, RoleFacts DEF Requesting
<1>6. CASE Deciding
  BY <1>2, <1>6, RoleFacts DEF Deciding
<1>7. CASE Completing \/ Failing
  BY <1>2, <1>7, RoleFacts DEF Completing, Failing
<1>8. CASE Sealing
  <2>1. journal'.state = "Sealed" /\ \E t \in Tasks : state[t] = "Exited"
    BY <1>8 DEF Sealing
  <2>2. CASE more = recs
    BY <1>1, <1>3, <2>2
  <2>3. ASSUME NEW r \in Records, more = Append(recs, r), r.actor = Kernel, r.rights = {}
        PROVE  AttributedStep
    <3>1. more[Len(more)] = r
      BY <1>1, <2>3, RecordedLast
    <3> QED
      BY <2>1, <2>3, <3>1 DEF AttributedStep
  <2> QED
    BY <1>8, <2>2, <2>3 DEF Sealing
<1>9. CASE Reclaiming
  <2>1. Len(more) = 0
    BY <1>9 DEF Reclaiming, DeadJournal
  <2> QED
    BY <1>1, <1>3, <2>1
<1> QED
  BY <1>4, <1>5, <1>6, <1>7, <1>8, <1>9 DEF JournalStep

(* A record names who really acted, under a right it held: the running     *)
(* task, or the kernel for a task that has exited.                         *)
THEOREM RecordsNameTheActor == JournaledSpec => RecordsAttributed
<1>1. JInv /\ [JournaledNext]_journaledVars => [AttributedStep]_journaledVars
  BY NextJournaled, StepAttributed
<1>2. RecordsAttributed <=> [][AttributedStep]_journaledVars
  BY PTL DEF RecordsAttributed, AttributedStep
<1> QED
  BY <1>1, <1>2, JournaledInvariant, PTL DEF JournaledSpec

WokenStep ==
    state[Workload] = "BlockedApproval" /\ state'[Workload] # "BlockedApproval" =>
        LET r == journal'.records[Len(journal'.records)]
        IN  /\ Len(journal'.records) = Len(journal.records) + 1
            /\ r.sequence = broker.sequence
            /\ reply'[Workload] =
                  CASE r.event = "Completed" -> Reply("Ok", broker.argument)
                    [] r.event = "Denied"    -> Reply("ApprovalDenied", 0)
                    [] r.event = "Expired"   -> Reply("ApprovalExpired", 0)
                    [] r.event = "Failed"    -> Reply("EffectUnavailable", 0)
                    [] OTHER                 -> NoReply

(* The blocked workload is woken only by a step that ends its request and  *)
(* records how.                                                            *)
LEMMA StepWakes ==
    ASSUME JInv, JInv', JournalStep
    PROVE  WokenStep
<1> SUFFICES ASSUME state[Workload] = "BlockedApproval", state'[Workload] # "BlockedApproval"
             PROVE  WokenStep
  BY DEF WokenStep
<1>1. /\ broker.state \in {"Pending", "Approved"} /\ journal.state = "Live"
      /\ broker'.state \notin {"Pending", "Approved"} /\ journal \in Journals
  BY Zenon DEF JInv, JournalInv, SupInv, BrokerInv
<1>2. ASSUME NEW r \in Records, journal'.records = Append(journal.records, r),
             r.sequence = broker.sequence,
             \/ r.event = "Completed" /\ reply'[Workload] = Reply("Ok", broker.argument)
             \/ r.event = "Denied" /\ reply'[Workload] = Reply("ApprovalDenied", 0)
             \/ r.event = "Expired" /\ reply'[Workload] = Reply("ApprovalExpired", 0)
             \/ r.event = "Failed" /\ reply'[Workload] = Reply("EffectUnavailable", 0)
      PROVE  WokenStep
  <2>1. /\ Len(journal'.records) = Len(journal.records) + 1
        /\ journal'.records[Len(journal'.records)] = r
    BY <1>1, <1>2, RecordedLast
  <2> QED
    BY <1>2, <2>1 DEF WokenStep
<1>3. ~Steady /\ ~Requesting /\ ~Reclaiming
  BY <1>1, ZenonT(30) DEF Steady, Requesting, Reclaiming
<1>4. CASE Deciding
  <2>1. PICK r : /\ Recorded(r) /\ r.sequence = broker.sequence
                 /\ r.event \in {"Approved", "Denied", "Expired"}
                 /\ r.event = "Approved" => broker'.state = "Approved"
                 /\ r.event = "Denied" => reply'[Workload] = Reply("ApprovalDenied", 0)
                 /\ r.event = "Expired" => reply'[Workload] = Reply("ApprovalExpired", 0)
    BY <1>4 DEF Deciding
  <2>2. r.event # "Approved"
    BY <1>1, <2>1
  <2>3. r \in Records /\ journal'.records = Append(journal.records, r)
    BY <2>1, RecordedAppends
  <2> QED
    BY <1>2, <2>1, <2>2, <2>3
<1>5. CASE Completing \/ Failing
  BY <1>2, <1>5, RecordedAppends DEF Completing, Failing
<1>6. CASE Sealing
  <2>1. PICK r \in Records :
            /\ journal'.records = Append(journal.records, r) /\ r.sequence = broker.sequence
            /\ r.event = IF broker.state = "Pending" THEN "Denied" ELSE "Expired"
            /\ reply'[Workload] = Reply(TeardownStatus, 0)
    BY <1>1, <1>6 DEF Sealing
  <2>2. TeardownStatus =
            IF broker.state = "Pending" THEN "ApprovalDenied" ELSE "ApprovalExpired"
    BY <1>1 DEF TeardownStatus
  <2> QED
    BY <1>1, <1>2, <2>1, <2>2
<1> QED
  BY <1>3, <1>4, <1>5, <1>6 DEF JournalStep

(* A blocked workload is woken with the outcome that the journal records   *)
(* in the same step, by a decision, a commit or a teardown.                *)
THEOREM WokenAsRecorded == JournaledSpec => WokenWithRecordedOutcome
<1>1. JInv /\ [JournaledNext]_journaledVars => [WokenStep]_journaledVars
  BY NextJournaled, StepWakes
<1>2. WokenWithRecordedOutcome <=> [][WokenStep]_journaledVars
  BY PTL DEF WokenWithRecordedOutcome, WokenStep
<1> QED
  BY <1>1, <1>2, JournaledInvariant, PTL DEF JournaledSpec

StableStep ==
    ~AllDead /\ journal' # journal =>
        \A i \in DOMAIN journal.records, k \in 0 .. TripletMax :
            /\ ReadStatus(journal', i, k) = "Ok"
            /\ Triplet(journal', i, k) = Triplet(journal, i, k)

(* Until all tasks are dead a step adds a record or seals, so it changes   *)
(* nothing a reader may have begun to read.                                *)
LEMMA StepStable ==
    ASSUME JInv, JInv', JournalStep
    PROVE  StableStep
<1> SUFFICES ASSUME ~AllDead, journal' # journal,
                    NEW i \in DOMAIN journal.records, NEW k \in 0 .. TripletMax
             PROVE  /\ ReadStatus(journal', i, k) = "Ok"
                    /\ Triplet(journal', i, k) = Triplet(journal, i, k)
  BY DEF StableStep
<1>1. /\ journal \in Journals /\ journal' \in Journals
      /\ Len(journal.records) \in Nat /\ i \in 1 .. Len(journal.records)
  <2>1. journal \in Journals /\ journal' \in Journals
    BY Zenon DEF JInv, JournalInv
  <2>2. journal.records \in Seq(Records)
    BY <2>1 DEF Journals
  <2> QED
    BY <2>1, <2>2
<1>2. ~Steady /\ ~Reclaiming
  BY DEF Steady, Reclaiming
<1>3. ASSUME NEW r, Recorded(r)
      PROVE  /\ journal'.state \in {"Live", "Sealed"}
             /\ i \in 1 .. Len(journal'.records) /\ journal'.records[i] = journal.records[i]
  <2>1. r \in Records /\ journal'.records = Append(journal.records, r) /\ journal'.state = "Live"
    BY <1>3, RecordedAppends, Zenon
  <2>2. /\ Len(journal'.records) = Len(journal.records) + 1
        /\ \A n \in 1 .. Len(journal.records) : journal'.records[n] = journal.records[n]
    BY <1>1, <2>1, RecordedLast, Zenon
  <2> QED
    BY <1>1, <2>1, <2>2
<1>4. ASSUME Sealing
      PROVE  /\ journal'.state \in {"Live", "Sealed"}
             /\ i \in 1 .. Len(journal'.records) /\ journal'.records[i] = journal.records[i]
  <2>1. journal'.state = "Sealed"
    BY <1>4 DEF Sealing
  <2>2. \/ journal'.records = journal.records
        \/ \E r \in Records : journal'.records = Append(journal.records, r)
    BY <1>4 DEF Sealing
  <2> QED
    BY <1>1, <2>1, <2>2, RecordedLast
<1>5. /\ journal'.state \in {"Live", "Sealed"}
      /\ i \in 1 .. Len(journal'.records) /\ journal'.records[i] = journal.records[i]
  BY <1>2, <1>3, <1>4, ZenonT(30) DEF JournalStep, Requesting, Deciding, Completing, Failing
<1>6. ReadStatus(journal', i, k) = "Ok"
  BY <1>5 DEF ReadStatus, TripletMax
<1>7. Triplet(journal', i, k) = Triplet(journal, i, k)
  BY <1>5 DEF Triplet
<1> QED
  BY <1>6, <1>7

(* What the words of a committed record are, and that they can be read,    *)
(* does not change between the traps of a reader while a task lives.       *)
THEOREM ReadsAreStable == JournaledSpec => RecordReadsAreStable
<1>1. JInv /\ [JournaledNext]_journaledVars => [StableStep]_journaledVars
  BY NextJournaled, StepStable
<1>2. RecordReadsAreStable <=> [][StableStep]_journaledVars
  BY PTL DEF RecordReadsAreStable, StableStep
<1> QED
  BY <1>1, <1>2, JournaledInvariant, PTL DEF JournaledSpec
-----------------------------------------------------------------------------
(* The ledger's lines of a sequence of records. *)
LinesOf(recs) == [i \in DOMAIN recs |-> <<recs[i].event, recs[i].sequence>>]

(* The lines of no records. *)
LEMMA NoLines == LinesOf(<<>>) = <<>>
BY DEF LinesOf

(* The last line is the last record's. *)
LEMMA LastLineOf ==
    ASSUME NEW recs \in Seq(Records)
    PROVE  /\ LinesOf(recs) \in Seq(Events \X Nat) /\ Len(LinesOf(recs)) = Len(recs)
           /\ LastOf(recs) = IF LinesOf(recs) = <<>> THEN <<"None", 0>>
                             ELSE LinesOf(recs)[Len(LinesOf(recs))]
<1> DEFINE lns == LinesOf(recs)
<1>1. DOMAIN recs = 1 .. Len(recs) /\ Len(recs) \in Nat
      /\ \A i \in 1 .. Len(recs) : recs[i] \in Records
  OBVIOUS
<1>2. \A i \in 1 .. Len(recs) : <<recs[i].event, recs[i].sequence>> \in Events \X Nat
  BY <1>1 DEF Records
<1>3. lns = [i \in 1 .. Len(recs) |-> <<recs[i].event, recs[i].sequence>>]
  BY <1>1 DEF LinesOf
<1>4. lns \in [1 .. Len(recs) -> Events \X Nat]
  BY <1>2, <1>3
<1>5. /\ lns \in Seq(Events \X Nat) /\ Len(lns) = Len(recs)
      /\ \A i \in 1 .. Len(recs) : lns[i] = <<recs[i].event, recs[i].sequence>>
  BY <1>1, <1>3, <1>4
<1> HIDE DEF lns
<1>6. lns = <<>> <=> Len(recs) = 0
  BY <1>1, <1>5
<1>7. LastOf(recs) = IF Len(recs) = 0 THEN <<"None", 0>> ELSE lns[Len(recs)]
  BY <1>1, <1>5 DEF LastOf, Prior
<1> QED
  BY <1>5, <1>6, <1>7 DEF lns

(* A record adds its line. *)
LEMMA LinesGrow ==
    ASSUME NEW recs \in Seq(Records), NEW r \in Records
    PROVE  LinesOf(Append(recs, r)) = Append(LinesOf(recs), <<r.event, r.sequence>>)
<1> DEFINE new == Append(recs, r)
           line == <<r.event, r.sequence>>
           old == LinesOf(recs)
           lns == LinesOf(new)
<1>1. /\ new \in Seq(Records) /\ Len(new) = Len(recs) + 1 /\ Len(recs) \in Nat
      /\ \A i \in 1 .. Len(recs) : new[i] = recs[i]
      /\ new[Len(recs) + 1] = r
      /\ DOMAIN new = 1 .. Len(recs) + 1 /\ DOMAIN recs = 1 .. Len(recs)
  OBVIOUS
<1> HIDE DEF new
<1>2. /\ old \in Seq(Events \X Nat) /\ Len(old) = Len(recs)
      /\ lns \in Seq(Events \X Nat) /\ Len(lns) = Len(recs) + 1
  BY <1>1, LastLineOf
<1>3. /\ \A i \in 1 .. Len(recs) : old[i] = <<recs[i].event, recs[i].sequence>>
      /\ \A i \in 1 .. Len(recs) + 1 : lns[i] = <<new[i].event, new[i].sequence>>
  BY <1>1 DEF LinesOf
<1>4. line \in Events \X Nat
  BY DEF Records
<1> HIDE DEF old, lns
<1>5. /\ \A i \in 1 .. Len(recs) : lns[i] = old[i]
      /\ lns[Len(recs) + 1] = line
  <2>1. \A i \in 1 .. Len(recs) : i \in 1 .. Len(recs) + 1
    BY <1>1
  <2>2. Len(recs) + 1 \in 1 .. Len(recs) + 1
    BY <1>1
  <2> QED
    BY <1>1, <1>3, <2>1, <2>2, Zenon
<1> HIDE DEF line
<1>6. lns = Append(old, line)
  <2> DEFINE more == Append(old, line)
  <2>1. /\ more \in Seq(Events \X Nat) /\ Len(more) = Len(recs) + 1
        /\ \A i \in 1 .. Len(recs) : more[i] = old[i]
        /\ more[Len(recs) + 1] = line
    BY <1>1, <1>2, <1>4
  <2> HIDE DEF more
  <2>2. ASSUME NEW i \in 1 .. Len(recs) + 1 PROVE more[i] = lns[i]
    <3>1. i \in 1 .. Len(recs) \/ i = Len(recs) + 1
      BY <1>1
    <3> QED
      BY <1>5, <2>1, <3>1, Zenon
  <2> QED
    BY <1>1, <1>2, <2>1, <2>2 DEF more
<1> QED
  BY <1>6 DEF new, line, old, lns

(* A step of the journaled runtime is a step of the ledger or changes      *)
(* nothing the ledger shows.                                               *)
LEMMA StepRefines ==
    ASSUME JInv, JournalStep
    PROVE  [Ledger!LedgerNext]_(Ledger!ledgerVars)
<1> DEFINE recs == journal.records
           last == LastOf(recs)
<1>1. /\ LedgerLines = LinesOf(recs) /\ LedgerLines' = LinesOf(journal'.records)
      /\ recs \in Seq(Records) /\ journal \in Journals
  BY DEF LedgerLines, LinesOf, JInv, JournalInv, Journals
<1>2. Ledger!LastLine = last
  BY <1>1, LastLineOf DEF Ledger!LastLine
<1>3. ASSUME NEW r \in Records, journal'.records = Append(recs, r)
      PROVE  Ledger!Line(r.event, r.sequence)
  BY <1>1, <1>3, LinesGrow DEF Ledger!Line
<1>4. /\ last[1] = "Requested" <=> broker.state = "Pending"
      /\ last[1] = "Approved" <=> broker.state = "Approved"
      /\ broker.state \in {"Pending", "Approved"} => last[2] = broker.sequence
  BY DEF JInv, JournalInv
<1>5. ASSUME NEW r, Recorded(r), effect'.occupied = effect.occupied
      PROVE  /\ Ledger!Line(r.event, r.sequence) /\ (journal.state = "Live")
             /\ (journal'.state = "Live") = (journal.state = "Live")
             /\ UNCHANGED <<journal.state = "Live", effect.occupied>>
  BY <1>3, <1>5, RecordedAppends
<1>6. ASSUME effect' \in {effect, NoEffect}
      PROVE  effect'.occupied \in {effect.occupied, FALSE}
  <2>1. NoEffect.occupied = FALSE
    BY DEF NoEffect
  <2>2. CASE effect' = effect
    BY <2>2, Zenon
  <2>3. CASE effect' = NoEffect
    BY <2>1, <2>3, Zenon
  <2> QED
    BY <1>6, <2>2, <2>3, Zenon
<1> HIDE DEF last
<1>7. CASE Requesting
  <2>1. PICK r : /\ Recorded(r) /\ r.event = "Requested" /\ r.sequence = last[2] + 1
                 /\ broker.state = "Empty" /\ effect' = effect
    BY <1>7 DEF Requesting, last
  <2>2. Ledger!Idle
    BY <1>2, <1>4, <2>1 DEF Ledger!Idle
  <2>3. Ledger!Request
    BY <1>2, <1>5, <2>1, <2>2 DEF Ledger!Request
  <2> QED
    BY <2>3 DEF Ledger!LedgerNext
<1>8. CASE Deciding
  <2>1. PICK r : /\ Recorded(r) /\ r.event \in {"Approved", "Denied", "Expired"}
                 /\ r.sequence = broker.sequence /\ effect' = effect
                 /\ broker.state \in {"Pending", "Approved"}
                 /\ r.event # "Expired" => broker.state = "Pending"
    BY <1>8 DEF Deciding
  <2>2. ~Ledger!Idle /\ r.sequence = last[2]
    BY <1>2, <1>4, <2>1 DEF Ledger!Idle
  <2>3. Ledger!Decide
    BY <1>2, <1>4, <1>5, <2>1, <2>2 DEF Ledger!Decide
  <2> QED
    BY <2>3 DEF Ledger!LedgerNext
<1>9. CASE Completing
  <2>1. PICK r : /\ Recorded(r) /\ r.event = "Completed"
                 /\ r.sequence = broker.sequence /\ broker.state = "Approved"
                 /\ effect.occupied = FALSE /\ effect'.occupied = TRUE
    BY <1>9 DEF Completing
  <2>2. Ledger!Line("Completed", last[2]) /\ journal.state = "Live" /\ journal'.state = "Live"
    BY <1>3, <1>4, <2>1, RecordedAppends
  <2>3. Ledger!Complete
    BY <1>2, <1>4, <2>1, <2>2 DEF Ledger!Complete
  <2> QED
    BY <2>3 DEF Ledger!LedgerNext
<1>10. CASE Failing
  <2>1. PICK r : /\ Recorded(r) /\ r.event = "Failed"
                 /\ r.sequence = broker.sequence /\ broker.state = "Approved"
                 /\ effect.occupied = TRUE /\ effect' = effect
    BY <1>10 DEF Failing
  <2>2. Ledger!FailEffect
    BY <1>2, <1>4, <1>5, <2>1 DEF Ledger!FailEffect
  <2> QED
    BY <2>2 DEF Ledger!LedgerNext
<1>11. CASE Sealing
  <2>1. /\ journal.state = "Live" /\ (journal'.state = "Live") = FALSE
        /\ effect'.occupied \in {effect.occupied, FALSE}
    <3>1. /\ journal.state = "Live" /\ journal'.state = "Sealed"
          /\ effect' \in {effect, NoEffect}
      BY <1>11 DEF Sealing
    <3>2. (journal'.state = "Live") = FALSE
      BY <3>1
    <3> QED
      BY <1>6, <3>1, <3>2, Zenon
  <2>2. CASE broker.state \notin {"Pending", "Approved"} /\ journal'.records = recs
    <3>1. Ledger!Idle /\ LedgerLines' = LedgerLines
      BY <1>1, <1>2, <1>4, <2>2 DEF Ledger!Idle
    <3>2. Ledger!SealLedger
      BY <2>1, <3>1, Zenon DEF Ledger!SealLedger
    <3> QED
      BY <3>2 DEF Ledger!LedgerNext
  <2>3. ASSUME broker.state \in {"Pending", "Approved"}, NEW r \in Records,
               journal'.records = Append(recs, r), r.sequence = broker.sequence,
               r.event = IF broker.state = "Pending" THEN "Denied" ELSE "Expired"
        PROVE  Ledger!LedgerNext
    <3>1. Ledger!SealLedger
      BY <1>2, <1>3, <1>4, <2>1, <2>3, Zenon DEF Ledger!SealLedger
    <3> QED
      BY <3>1 DEF Ledger!LedgerNext
  <2> QED
    BY <1>11, <2>2, <2>3 DEF Sealing
<1>12. CASE Reclaiming
  <2>1. /\ (journal.state = "Live") = FALSE /\ (journal'.state = "Live") = FALSE
        /\ journal'.records = <<>> /\ effect' = effect
    BY <1>12 DEF Reclaiming, DeadJournal, supervisedVars
  <2>2. Ledger!Reclaim
    BY <1>1, <2>1, NoLines DEF Ledger!Reclaim
  <2> QED
    BY <2>2 DEF Ledger!LedgerNext
<1>13. CASE Steady
  <2>1. CASE effect' = effect /\ journal' = journal
    BY <1>1, <2>1 DEF Ledger!ledgerVars
  <2>2. CASE journal.state # "Live" /\ effect' \in {effect, NoEffect} /\ journal' = journal
    <3>1. /\ (journal.state = "Live") = FALSE /\ (journal'.state = "Live") = FALSE
          /\ LedgerLines' = LedgerLines
      BY <1>1, <2>2
    <3>2. Ledger!Reclaim
      BY <1>6, <2>2, <3>1, Zenon DEF Ledger!Reclaim
    <3> QED
      BY <3>2 DEF Ledger!LedgerNext
  <2> QED
    BY <1>13, <2>1, <2>2 DEF Steady
<1> QED
  BY <1>7, <1>8, <1>9, <1>10, <1>11, <1>12, <1>13 DEF JournalStep

(* The journaled runtime implements the ledger: one line per accepted      *)
(* transition, one open request, a cell written with its line, and nothing *)
(* after sealing.                                                          *)
THEOREM LedgerRefinement == JournaledSpec => ImplementsLedger
<1>1. JournaledInit => Ledger!LedgerInit
  <2> SUFFICES ASSUME JournaledInit PROVE Ledger!LedgerInit
    OBVIOUS
  <2>1. journal.records = <<>> /\ journal.state = "Live" /\ effect.occupied = FALSE
    BY DEF JournaledInit, InitWith, EmptyJournal, NoEffect
  <2>2. LedgerLines = <<>>
    BY <2>1, NoLines DEF LedgerLines, LinesOf
  <2> QED
    BY <2>1, <2>2 DEF Ledger!LedgerInit
<1>2. JInv /\ [JournaledNext]_journaledVars => [Ledger!LedgerNext]_(Ledger!ledgerVars)
  BY NextJournaled, StepRefines
<1> QED
  BY <1>1, <1>2, JournaledInvariant, PTL DEF JournaledSpec, ImplementsLedger, Ledger!LedgerSpec
=============================================================================

-------------------------- MODULE JournaledRuntime --------------------------
(***************************************************************************)
(* JournaledRuntime of crates/task-runtime: the supervised runtime with an *)
(* effect journal around it.  handle_trap runs the supervised trap and     *)
(* then records what it did; an accepted submission that the journal has   *)
(* no room for is undone and refused, and every other record must fit.     *)
(***************************************************************************)
EXTENDS SupervisedRuntime, EffectJournal

CONSTANT Triplets   \* the record triplets tasks ask to read

ASSUME JournaledAssumption == EpochMax >= 3 /\ Triplets \subseteq Nat

VARIABLE journal

journaledVars ==
    <<state, queue, caps, reply, spent, failed, broker, effect, manifest, journal>>

(* publish_supervisor of JournaledRuntime: one more handle, a live journal. *)
JournaledInit ==
    /\ InitWith(Install(SupervisorTable, "Journal", {"Read"}))
    /\ journal = EmptyJournal

FailJournaled == FailSupervised /\ UNCHANGED journal

RejectJournaled(t, status) == RejectSupervised(t, status) /\ UNCHANGED journal

(* A lifecycle takes at most three epochs; one that could not is refused.  *)
SubmitRefusal ==
    IF broker.epoch > EpochMax - 3 THEN "BrokerUnavailable" ELSE BeginStatus(journal)

JournaledSubmit(t, raw, kindKnown, argument) ==
    LET status == SubmitStatus(t, raw, kindKnown)
    IN  /\ Runs(t)
        /\ \/ status # "Ok" /\ RejectJournaled(t, status)
           \/ /\ status = "Ok"
              /\ IF ~Dispatchable(BlockForApproval(t), queue)
                 THEN FailJournaled
                 ELSE IF SubmitRefusal # "Ok"
                 THEN RejectJournaled(t, SubmitRefusal)
                 ELSE /\ Submit(t, argument)
                      /\ journal' = BeginLifecycle(journal,
                            Record("Requested", broker.epoch + 1, Workload,
                                   broker.nextSequence, "Broker", {"Submit"}))

(* Fault: the record carries the epoch before its transition. *)
RequestRecordDatedEarly(event, actor, type, rights) ==
    Record(event, broker.epoch, actor, broker.sequence, type, rights)

(* The record of a decision or an effect on the request at hand. *)
RequestRecord(event, actor, type, rights) ==
    Record(event, broker.epoch + 1, actor, broker.sequence, type, rights)

(* Fault: an expiry is recorded as a denial. *)
DecisionEventDenies == [Approve |-> "Approved", Deny |-> "Denied", Expire |-> "Denied"]

DecisionEvent == [Approve |-> "Approved", Deny |-> "Denied", Expire |-> "Expired"]

RecordDecision(decision) ==
    journal' = AppendReserved(journal,
                  RequestRecord(DecisionEvent[decision], Supervisor, "Broker", {"Decide"}),
                  \/ decision = "Deny"
                  \/ decision = "Expire" /\ broker.state = "Pending")

(* An exhausted epoch closes the broker without a record: the journal's    *)
(* reservation is left over and the closing validate rejects the trap.     *)
JournaledDecide(t, raw, sequence, decision) ==
    LET status == DecideStatus(t, raw, sequence, decision)
    IN  /\ Runs(t)
        /\ \/ status # "Ok" /\ RejectJournaled(t, status)
           \/ /\ status = "Ok"
              /\ IF \/ EpochExhausted(decision)
                    \/ ~CanAppendReserved(journal)
                    \/ decision # "Approve" /\ ~CanWake
                 THEN FailJournaled
                 ELSE /\ IF decision = "Approve" THEN Approve(t) ELSE Refuse(t, decision)
                      /\ RecordDecision(decision)

RecordEffect(event) ==
    journal' = AppendReserved(journal,
                  RequestRecord(event, Supervisor, "Effect", {"Commit"}), FALSE)

(* An approved commit that finds the cell occupied ends its request. *)
CommitUnavailable(t) ==
    /\ EndRequest(t, Reply("EffectUnavailable", 0), "EffectUnavailable")
    /\ UNCHANGED effect

JournaledCommit(t, raw, sequence, argument) ==
    LET status == CommitStatus(t, raw, sequence, argument)
        sound  == CanWake /\ CanAppendReserved(journal) /\ broker.epoch < EpochMax
    IN  /\ Runs(t)
        /\ \/ status \notin {"Ok", "EffectUnavailable"} /\ RejectJournaled(t, status)
           \/ /\ status = "Ok"
              /\ IF sound THEN Commit(t, argument) /\ RecordEffect("Completed")
                 ELSE FailJournaled
           \/ /\ status = "EffectUnavailable"
              /\ IF sound THEN CommitUnavailable(t) /\ RecordEffect("Failed")
                 ELSE FailJournaled

ReadJournalStatus(t, raw) ==
    ResolveObject(t, raw, "Journal", "Read", journal.state # "Dead")

Output(status, words) == [status |-> status, out |-> words]

InspectJournal(t, raw) ==
    LET status == ReadJournalStatus(t, raw)
        count  == Len(journal.records)
    IN  /\ Runs(t)
        /\ Resume(t, IF status # "Ok" THEN Output(status, <<0, 0, 0>>)
                     ELSE Output("Ok", <<IF count = 0 THEN 0 ELSE 1, count + 1, count>>))
        /\ UNCHANGED <<broker, effect, manifest, journal>>

ReadJournal(t, raw, index, triplet) ==
    LET resolved == ReadJournalStatus(t, raw)
        status   == IF resolved # "Ok" THEN resolved ELSE ReadStatus(journal, index, triplet)
    IN  /\ Runs(t)
        /\ Resume(t, IF status # "Ok" THEN Output(status, <<0, 0, 0>>)
                     ELSE Output("Ok", Triplet(journal, index, triplet)))
        /\ UNCHANGED <<broker, effect, manifest, journal>>

(* The first teardown ends an open request, for the kernel, and seals. *)
OpenRequest == journal.state = "Live" /\ broker.present

(* Fault: the supervisor is named as the author of the kernel's record. *)
TerminalRecordOfSupervisor ==
    RequestRecord(IF broker.state = "Pending" THEN "Denied" ELSE "Expired",
                  Supervisor, "Broker", {"Decide"})

TerminalRecord ==
    RequestRecord(IF broker.state = "Pending" THEN "Denied" ELSE "Expired", Kernel, "Broker", {})

EndedJournal ==
    IF OpenRequest THEN AppendReserved(journal, TerminalRecord, broker.state = "Pending")
    ELSE journal

SealedJournal == IF journal.state = "Live" THEN Seal(EndedJournal) ELSE journal

CanSealNow ==
    /\ OpenRequest =>
          /\ broker.epoch < EpochMax
          /\ broker.state \in {"Pending", "Approved"}
          /\ CanAppendReserved(journal)
    /\ journal.state = "Live" => CanSeal(EndedJournal)

TeardownBroker == IF OpenRequest THEN Advanced(broker) ELSE broker

JournaledBeginSupervisorTeardown ==
    /\ Tearing(Supervisor, "Live")
    /\ IF CanSealNow /\ (state[Workload] = "BlockedApproval" => CanWake)
       THEN CloseSupervisor(TeardownBroker) /\ journal' = SealedJournal
       ELSE FailJournaled

JournaledBeginWorkloadTeardown ==
    /\ Tearing(Workload, "Live")
    /\ IF CanSealNow
       THEN CloseWorkload(TeardownBroker) /\ journal' = SealedJournal
       ELSE FailJournaled

(* finish_reclamation. scheduler_success calls it once both tasks are dead, *)
(* unless one of its own checks stops the kernel first: it also requires    *)
(* the records of the reference tasks, and here tasks run any program. So   *)
(* the step may be taken and is owed by nobody.                             *)
FinishReclamation ==
    /\ ~failed /\ AllDead /\ journal.state # "Dead"
    /\ IF journal.state = "Sealed" /\ journal.reserved = 0
       THEN journal' = DeadJournal /\ UNCHANGED supervisedVars
       ELSE FailJournaled

JournaledKernelStep ==
    \/ Boot /\ UNCHANGED journal
    \/ JournaledBeginSupervisorTeardown
    \/ JournaledBeginWorkloadTeardown
    \/ \E t \in Tasks : CompleteTeardown(t) /\ UNCHANGED journal

JournaledStop == Halted /\ UNCHANGED journaledVars

JournaledTrap(t, raw) ==
    \/ \E registered \in BOOLEAN : StartTrap(t, raw, registered) /\ UNCHANGED journal
    \/ \E kindKnown \in BOOLEAN, argument \in Arguments :
          JournaledSubmit(t, raw, kindKnown, argument)
    \/ InspectTrap(t, raw) /\ UNCHANGED journal
    \/ \E sequence \in 0 .. SequenceMax, decision \in Decisions :
          JournaledDecide(t, raw, sequence, decision)
    \/ \E sequence \in 0 .. SequenceMax, argument \in Arguments :
          JournaledCommit(t, raw, sequence, argument)
    \/ InspectJournal(t, raw)
    \/ \E index \in 0 .. Capacity + 1, triplet \in Triplets : ReadJournal(t, raw, index, triplet)

JournaledNext ==
    \/ JournaledKernelStep
    \/ FinishReclamation
    \/ \E t \in Tasks : PlainTrap(t) /\ UNCHANGED journal
    \/ \E t \in Tasks, raw \in Handles : JournaledTrap(t, raw)
    \/ JournaledStop

(* The kernel completes a teardown it has begun; user tasks owe nothing. *)
JournaledSpec ==
    JournaledInit /\ [][JournaledNext]_journaledVars /\ WF_journaledVars(JournaledKernelStep)
-----------------------------------------------------------------------------
Reservation == [Empty |-> 0, Pending |-> 2, Approved |-> 1, Closing |-> 0, Dead |-> 0]

JournalEntries(t) == {i \in SlotIndex : caps[t].slots[i].entry.type = "Journal"}

(* What JournaledRuntime::validate checks. *)
JournaledValid ==
    /\ SupervisedValid
    /\ JournalValid(journal)
    /\ \A i, j \in JournalEntries(Supervisor) : i = j
    /\ JournalEntries(Workload) = {}
    /\ journal.state = "Live" => ~AllDead /\ journal.reserved = Reservation[broker.state]
    /\ journal.state = "Sealed" => ~broker.present /\ broker.state \notin {"Pending", "Approved"}
    /\ journal.state = "Dead" => AllDead /\ JournalEntries(Supervisor) = {}
    /\ state[Workload] = "Dead" => journal.state \in {"Sealed", "Dead"}

(* The validate call at the end of every handler accepts; with it, room    *)
(* for the terminal record of the open request is always reserved.         *)
JournaledValidateAccepts == JournaledValid

(* Every accepted broker transition has a record: the decision epoch and   *)
(* the number of records move together, and record i has epoch i + 1.      *)
EveryTransitionRecorded ==
    /\ journal.state = "Live" => broker.epoch = Len(journal.records) + 1
    /\ \A i \in DOMAIN journal.records : journal.records[i].epoch = i + 1

(* The record before record i, as the event and request it is about. *)
Before(i) ==
    IF i = 1 THEN <<"None", 0>>
    ELSE <<journal.records[i - 1].event, journal.records[i - 1].sequence>>

(* The records of a request are contiguous and tell a legal story, each    *)
(* request is numbered after the one before it, and the last story is      *)
(* unfinished exactly while the broker holds that request in that state.   *)
RecordsTellLifecycles ==
    /\ \A i \in DOMAIN journal.records :
          LET r == journal.records[i]
          IN  CASE r.event = "Requested" ->
                     /\ Before(i)[1] \notin {"Requested", "Approved"}
                     /\ r.sequence = Before(i)[2] + 1
                [] r.event \in {"Approved", "Denied"} -> Before(i) = <<"Requested", r.sequence>>
                [] r.event = "Expired" ->
                     Before(i) \in {<<"Requested", r.sequence>>, <<"Approved", r.sequence>>}
                [] OTHER -> Before(i) = <<"Approved", r.sequence>>
    /\ LET last == Before(Len(journal.records) + 1)
       IN  /\ last[1] = "Requested" <=> broker.state = "Pending"
           /\ last[1] = "Approved" <=> broker.state = "Approved"
           /\ broker.present => broker.sequence = last[2]

(* A record names who really acted: the task it names is the running one   *)
(* and holds, at that moment, the handle with the right it names; the      *)
(* kernel signs only for a task that has exited, and seals in that step.   *)
RecordsAttributed ==
    [][Len(journal'.records) > Len(journal.records) =>
          LET r == journal'.records[Len(journal'.records)]
          IN  \/ /\ r.actor \in Tasks /\ Runs(r.actor) /\ r.rights # {}
                 /\ \E i \in SlotIndex :
                       /\ caps[r.actor].slots[i].entry.type = r.type
                       /\ r.rights \subseteq caps[r.actor].slots[i].entry.rights
              \/ /\ r.actor = Kernel /\ r.rights = {} /\ journal'.state = "Sealed"
                 /\ \E t \in Tasks : state[t] = "Exited"]_journaledVars

(* A blocked workload is woken with the outcome the journal records in the *)
(* same step, and with no other.                                           *)
WokenWithRecordedOutcome ==
    [][state[Workload] = "BlockedApproval" /\ state'[Workload] # "BlockedApproval" =>
          LET r == journal'.records[Len(journal'.records)]
          IN  /\ Len(journal'.records) = Len(journal.records) + 1
              /\ r.sequence = broker.sequence
              /\ reply'[Workload] =
                    CASE r.event = "Completed" -> Reply("Ok", broker.argument)
                      [] r.event = "Denied"    -> Reply("ApprovalDenied", 0)
                      [] r.event = "Expired"   -> Reply("ApprovalExpired", 0)
                      [] r.event = "Failed"    -> Reply("EffectUnavailable", 0)
                      [] OTHER                 -> NoReply]_journaledVars

(* The journal implements the ledger: see EffectLedger.                    *)
LedgerLines ==
    [i \in DOMAIN journal.records |-> <<journal.records[i].event, journal.records[i].sequence>>]

Ledger ==
    INSTANCE EffectLedger WITH
        lines <- LedgerLines, open <- journal.state = "Live", written <- effect.occupied

(* Every behaviour of the journaled runtime is one the ledger allows. *)
ImplementsLedger == Ledger!LedgerSpec

(* Reading a record takes six traps, while the workload keeps running:     *)
(* what the words of a committed record are, and that they can be read,    *)
(* does not change before every task is dead, so no reader sees a record   *)
(* torn between two requests.                                              *)
RecordReadsAreStable ==
    [][~AllDead /\ journal' # journal =>
          \A i \in DOMAIN journal.records, k \in 0 .. TripletMax :
              /\ ReadStatus(journal', i, k) = "Ok"
              /\ Triplet(journal', i, k) = Triplet(journal, i, k)]_journaledVars
=============================================================================

--------------------------- MODULE EffectJournal ---------------------------
(***************************************************************************)
(* The bounded, append-only effect journal of crates/task-runtime          *)
(* (EffectJournalV1).  A journal is a value; its operations are operators. *)
(* A lifecycle that begins takes one record and reserves two, enough for   *)
(* any way it can end.                                                     *)
(*                                                                         *)
(* The record sequence number is the record's index and the next one is    *)
(* the length plus one; the constant fields of a record are left out.      *)
(***************************************************************************)
EXTENDS Integers, Sequences

CONSTANT Capacity   \* EFFECT_JOURNAL_RECORD_COUNT

ASSUME CapacityAssumption == Capacity \in Nat

(* Kernel == 0 is the actor of the records the kernel writes itself. *)
Kernel == 0

Record(event, epoch, actor, sequence, type, rights) ==
    [event |-> event, epoch |-> epoch, actor |-> actor, sequence |-> sequence,
     type |-> type, rights |-> rights]

EmptyJournal == [state |-> "Live", reserved |-> 0, records |-> <<>>]

DeadJournal == [state |-> "Dead", reserved |-> 0, records |-> <<>>]

(* Fault: a lifecycle may begin with one record too few. *)
BeginStatusOneShort(j) ==
    IF j.state # "Live" THEN "JournalUnavailable"
    ELSE IF Capacity - (Len(j.records) + j.reserved) < 2 THEN "JournalFull"
    ELSE "Ok"

BeginStatus(j) ==
    IF j.state # "Live" THEN "JournalUnavailable"
    ELSE IF Capacity - (Len(j.records) + j.reserved) < 3 THEN "JournalFull"
    ELSE "Ok"

BeginLifecycle(j, record) ==
    [j EXCEPT !.records = Append(@, record), !.reserved = 2]

CanAppendReserved(j) ==
    j.state = "Live" /\ j.reserved # 0 /\ Len(j.records) < Capacity

(* Fault: what is left of a reservation is not released. *)
AppendReservedNeverReleases(j, record, release) ==
    [j EXCEPT !.records = Append(@, record), !.reserved = @ - 1]

AppendReserved(j, record, release) ==
    [j EXCEPT !.records = Append(@, record), !.reserved = IF release THEN 0 ELSE @ - 1]

CanSeal(j) == j.state = "Live" /\ j.reserved = 0

Seal(j) == [j EXCEPT !.state = "Sealed"]

(* What EffectJournalV1::validate accepts. *)
JournalValid(j) ==
    /\ j.state = "Dead" => j = DeadJournal
    /\ Len(j.records) + j.reserved <= Capacity
    /\ j.reserved \in 0 .. 2
    /\ j.state = "Sealed" => j.reserved = 0
-----------------------------------------------------------------------------
(* The words of a record as ReadEffectRecord returns them, three at a      *)
(* time.  Half-words share a word; the radix stands for 2^32, which TLC's  *)
(* integers do not hold, and is larger than any half-word.                 *)
HalfRadix == 256

EventCode ==
    [Requested |-> 1, Approved |-> 2, Denied |-> 3, Expired |-> 4, Completed |-> 5, Failed |-> 6]

(* The TrapStatus of an event. *)
EventStatusCode ==
    [Requested |-> 0, Approved |-> 0, Denied |-> 16, Expired |-> 17, Completed |-> 0, Failed |-> 18]

TypeCode == [Broker |-> 3, Effect |-> 4]

RightsCode(rights) ==
    CASE rights = {"Submit"} -> 16
      [] rights = {"Decide"} -> 32
      [] rights = {"Commit"} -> 64
      [] OTHER               -> 0

(* The generations of the kernel (none), the supervisor and the workload. *)
ActorGeneration(actor) == CASE actor = 1 -> 4 [] actor = 2 -> 5 [] OTHER -> 0

RecordWords(record, index) ==
    <<1 + HalfRadix * 128,
      EventCode[record.event] + HalfRadix * EventStatusCode[record.event],
      index, record.epoch, 1, record.actor, ActorGeneration(record.actor), 2, 5,
      record.sequence, 1, TypeCode[record.type], 1, 1, RightsCode(record.rights), 0>>

TripletMax == 5

(* Fault: a sealed journal cannot be read. *)
ReadStatusOnlyLive(j, index, triplet) ==
    IF triplet > TripletMax THEN "InvalidRecord"
    ELSE IF j.state # "Live" THEN "JournalUnavailable"
    ELSE IF index \notin 1 .. Len(j.records) THEN "InvalidRecord"
    ELSE "Ok"

ReadStatus(j, index, triplet) ==
    IF triplet > TripletMax THEN "InvalidRecord"
    ELSE IF j.state \notin {"Live", "Sealed"} THEN "JournalUnavailable"
    ELSE IF index \notin 1 .. Len(j.records) THEN "InvalidRecord"
    ELSE "Ok"

(* Words past the last one read as zero. *)
Triplet(j, index, triplet) ==
    LET words   == RecordWords(j.records[index], index)
        word(i) == IF i \in DOMAIN words THEN words[i] ELSE 0
    IN  <<word(3 * triplet + 1), word(3 * triplet + 2), word(3 * triplet + 3)>>
=============================================================================

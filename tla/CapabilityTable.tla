-------------------------- MODULE CapabilityTable --------------------------
(***************************************************************************)
(* The task-local capability table of crates/task-runtime: a fixed array   *)
(* of slots, each holding a generation, a retired flag and at most one     *)
(* typed, rights-carrying entry, selected by an opaque integer handle.     *)
(*                                                                         *)
(* A table is a value and every operation is an operator from tables to    *)
(* tables, as in the source, where CapabilityTable is plain data owned by  *)
(* one task slot.  The task identity the source stores in the table and in *)
(* every entry is the index under which a runtime keeps the table, and the *)
(* identity of the one object of each type is the type.                    *)
(***************************************************************************)
EXTENDS Integers

CONSTANTS
    SlotCount,      \* CAPABILITY_SLOT_COUNT: slots of one table
    GenerationMax   \* CAPABILITY_GENERATION_MAX: last generation of a slot

(* A table has a slot and a slot has a first generation. *)
ASSUME CapabilityAssumption ==
    /\ SlotCount \in Nat \ {0}
    /\ GenerationMax \in Nat \ {0}

SlotIndex == 0 .. SlotCount - 1

Rights == {"Send", "Receive", "Duplicate", "Start", "Submit", "Decide", "Commit", "Read"}

ObjectTypes == {"Endpoint", "TaskControl", "Broker", "Effect", "Journal"}

(* The sets of rights an entry of a given type may carry. *)
ValidRights ==
    [Endpoint    |-> (SUBSET {"Send", "Receive", "Duplicate"}) \ {{}},
     TaskControl |-> {{"Start"}},
     Broker      |-> {{"Submit"}, {"Decide"}},
     Effect      |-> {{"Commit"}},
     Journal     |-> {{"Read"}}]

NoEntry == [type |-> "None", rights |-> {}]

Entries == [type : ObjectTypes, rights : SUBSET Rights]

EmptySlot == [generation |-> 1, retired |-> FALSE, entry |-> NoEntry]

Slots ==
    [generation : 1 .. GenerationMax,
     retired    : BOOLEAN,
     entry      : Entries \cup {NoEntry}]

TableStates == {"Building", "Live", "Closing", "Dead"}

Tables == [state : TableStates, slots : [SlotIndex -> Slots]]

BuildingTable == [state |-> "Building", slots |-> [i \in SlotIndex |-> EmptySlot]]

DeadTable == [state |-> "Dead", slots |-> [i \in SlotIndex |-> EmptySlot]]

(* A handle packs a generation and a slot index into one word. *)
Handle(slot, generation) == generation * SlotCount + slot

HandleSlot(raw) == raw % SlotCount

HandleGeneration(raw) == raw \div SlotCount

(* The words tasks pass as handles: all that decode to a generation a slot *)
(* can have, and one that does not decode.                                 *)
Handles == SlotCount - 1 .. (GenerationMax + 1) * SlotCount - 1

(* The handle decodes and selects an entry of the current generation. *)
Selects(table, raw) ==
    LET slot == table.slots[HandleSlot(raw)]
    IN  /\ table.state = "Live"
        /\ HandleGeneration(raw) # 0
        /\ ~slot.retired
        /\ slot.generation = HandleGeneration(raw)
        /\ slot.entry # NoEntry

SelectedEntry(table, raw) == table.slots[HandleSlot(raw)].entry

ResolveTyped(table, raw, type, right) ==
    CASE ~Selects(table, raw)                             -> "InvalidHandle"
      [] Selects(table, raw)
         /\ SelectedEntry(table, raw).type # type         -> "WrongObject"
      [] Selects(table, raw)
         /\ SelectedEntry(table, raw).type = type
         /\ right \notin SelectedEntry(table, raw).rights -> "RightsDenied"
      [] OTHER                                            -> "Ok"

WithSlot(table, i, slot) == [table EXCEPT !.slots[i] = slot]

FreeSlots(table) ==
    {i \in SlotIndex : table.slots[i].entry = NoEntry /\ ~table.slots[i].retired}

LowestFree(table) ==
    CHOOSE i \in FreeSlots(table) : \A j \in FreeSlots(table) : i <= j

AllocateStatus(table) ==
    CASE FreeSlots(table) # {}                               -> "Ok"
      [] \A i \in SlotIndex : table.slots[i].entry # NoEntry -> "HandleTableFull"
      [] OTHER                                               -> "GenerationExhausted"

Allocate(table, entry) ==
    LET slot == table.slots[LowestFree(table)]
    IN  WithSlot(table, LowestFree(table), [slot EXCEPT !.entry = entry])

AllocatedHandle(table) ==
    Handle(LowestFree(table), table.slots[LowestFree(table)].generation)

(* Fault: the requested rights are not compared with the source's. *)
DuplicateStatusAmplifies(table, source, requested) ==
    LET resolved == ResolveTyped(table, source, "Endpoint", "Duplicate")
    IN  CASE resolved # "Ok" -> resolved
          [] resolved = "Ok" /\ requested \notin ValidRights["Endpoint"] -> "InvalidRights"
          [] OTHER -> AllocateStatus(table)

DuplicateStatus(table, source, requested) ==
    LET resolved == ResolveTyped(table, source, "Endpoint", "Duplicate")
    IN  CASE resolved # "Ok" -> resolved
          [] resolved = "Ok"
             /\ \/ requested \notin ValidRights["Endpoint"]
                \/ ~(requested \subseteq SelectedEntry(table, source).rights)
             -> "InvalidRights"
          [] OTHER -> AllocateStatus(table)

DuplicateEntry(table, source, requested) ==
    Allocate(table, [SelectedEntry(table, source) EXCEPT !.rights = requested])

(* Fault: the slot keeps its generation. *)
RemoveEntryKeepsGeneration(slot) ==
    [generation |-> slot.generation, retired |-> slot.retired, entry |-> NoEntry]

(* Removing an entry spends its generation; the last one retires the slot. *)
RemoveEntry(slot) ==
    IF slot.generation = GenerationMax
    THEN [generation |-> slot.generation, retired |-> TRUE, entry |-> NoEntry]
    ELSE [generation |-> slot.generation + 1, retired |-> slot.retired, entry |-> NoEntry]

CloseHandle(table, raw) ==
    WithSlot(table, HandleSlot(raw), RemoveEntry(table.slots[HandleSlot(raw)]))

(* mark_closing followed by close_all. *)
CloseAll(table) ==
    [state |-> "Closing",
     slots |-> [i \in SlotIndex |->
                  IF table.slots[i].entry # NoEntry
                  THEN RemoveEntry(table.slots[i])
                  ELSE table.slots[i]]]

NoEntries(table) == \A i \in SlotIndex : table.slots[i].entry = NoEntry

(* Installing an entry in a table that is being built, and publishing it. *)
Install(table, type, rights) == Allocate(table, [type |-> type, rights |-> rights])

Publish(table) == [table EXCEPT !.state = "Live"]

(* What CapabilityTable::validate accepts. *)
TableValid(table) ==
    /\ table.state = "Dead" => table = DeadTable
    /\ table.state = "Closing" => NoEntries(table)
    /\ \A i \in SlotIndex :
          LET slot == table.slots[i]
          IN  /\ slot.generation \in 1 .. GenerationMax
              /\ slot.entry # NoEntry =>
                    /\ ~slot.retired
                    /\ slot.entry.type \in ObjectTypes
                    /\ slot.entry.rights \in ValidRights[slot.entry.type]
=============================================================================

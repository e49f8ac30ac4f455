------------------------- MODULE TaskRuntimeProofs -------------------------
(* Lemmas about the capability tables, for every table size and generation *)
(* limit, and about the run queue and the traps that every profile shares; *)
(* the proofs about the two profiles cite them.                            *)
EXTENDS TaskRuntime, TLAPS

-----------------------------------------------------------------------------
(* Capability tables. *)

(* A free slot with no free slot below is the one CapabilityTable::allocate *)
(* fills.                                                                   *)
LEMMA LowestFreeIsLeast ==
    ASSUME NEW table, NEW n \in FreeSlots(table), \A j \in FreeSlots(table) : n <= j
    PROVE  LowestFree(table) = n
<1>1. FreeSlots(table) \subseteq Nat
  BY CapabilityAssumption DEF FreeSlots, SlotIndex
<1>2. /\ LowestFree(table) \in FreeSlots(table)
      /\ \A j \in FreeSlots(table) : LowestFree(table) <= j
  BY Zenon DEF LowestFree
<1> QED
  BY <1>1, <1>2

(* A table CapabilityTable::validate accepts. *)
TableOK(table) == table \in Tables /\ TableValid(table)

(* Every entry of the table carries only these rights. *)
ConfinedTo(table, rights) ==
    \A i \in SlotIndex : table.slots[i].entry.rights \subseteq rights

(* The slot of each of these <<slot, generation>> pairs has moved on. *)
Buried(table, pairs) ==
    \A p \in pairs : \/ p[2] < table.slots[p[1]].generation
                     \/ table.slots[p[1]].retired

(* A decoded slot index is one of the table's. *)
LEMMA HandleSlotInTable ==
    ASSUME NEW raw \in Handles
    PROVE  HandleSlot(raw) \in SlotIndex
BY CapabilityAssumption DEF Handles, HandleSlot, SlotIndex

(* remove_entry empties the slot and moves its generation on or retires it. *)
LEMMA RemoveEntryMovesOn ==
    ASSUME NEW slot \in Slots
    PROVE  /\ RemoveEntry(slot) \in Slots
           /\ RemoveEntry(slot).entry = NoEntry
           /\ slot.generation <= RemoveEntry(slot).generation
           /\ slot.retired => RemoveEntry(slot).retired
           /\ \/ slot.generation < RemoveEntry(slot).generation
              \/ RemoveEntry(slot).retired
<1>1. /\ slot.generation \in 1 .. GenerationMax
      /\ slot.retired \in BOOLEAN
  BY DEF Slots
<1>2. RemoveEntry(slot).entry = NoEntry
  BY DEF RemoveEntry
<1>3. CASE slot.generation = GenerationMax
  <2>1. RemoveEntry(slot) =
           [generation |-> slot.generation, retired |-> TRUE, entry |-> NoEntry]
    BY <1>3, Zenon DEF RemoveEntry
  <2> QED
    BY <1>1, <2>1 DEF Slots
<1>4. CASE slot.generation # GenerationMax
  <2>1. RemoveEntry(slot) =
           [generation |-> slot.generation + 1, retired |-> slot.retired, entry |-> NoEntry]
    BY <1>4, Zenon DEF RemoveEntry
  <2>2. slot.generation + 1 \in 1 .. GenerationMax
    BY <1>1, <1>4, CapabilityAssumption
  <2> QED
    BY <1>1, <2>1, <2>2 DEF Slots
<1> QED
  BY <1>3, <1>4

(* What a table with one slot replaced looks like. *)
LEMMA WithSlotChangesOneSlot ==
    ASSUME NEW table \in Tables, NEW i \in SlotIndex, NEW slot \in Slots
    PROVE  /\ WithSlot(table, i, slot) \in Tables
           /\ WithSlot(table, i, slot).state = table.state
           /\ WithSlot(table, i, slot).slots[i] = slot
           /\ \A j \in SlotIndex \ {i} : WithSlot(table, i, slot).slots[j] = table.slots[j]
BY DEF WithSlot, Tables

(* A slot validate accepts. *)
SlotOK(slot) ==
    /\ slot \in Slots
    /\ slot.entry # NoEntry =>
          /\ ~slot.retired
          /\ slot.entry.type \in ObjectTypes
          /\ slot.entry.rights \in ValidRights[slot.entry.type]

(* Replacing a slot by a valid one keeps what validate checks of the table. *)
LEMMA WithSlotIsOK ==
    ASSUME NEW table, TableOK(table), table.state \in {"Building", "Live"},
           NEW i \in SlotIndex, NEW slot, SlotOK(slot)
    PROVE  TableOK(WithSlot(table, i, slot))
<1> DEFINE new == WithSlot(table, i, slot)
<1>1. /\ new \in Tables
      /\ new.state = table.state
      /\ new.slots[i] = slot
      /\ \A j \in SlotIndex \ {i} : new.slots[j] = table.slots[j]
  BY WithSlotChangesOneSlot, Zenon DEF TableOK, SlotOK
<1>2. new.state # "Dead" /\ new.state # "Closing"
  BY <1>1
<1> HIDE DEF new
<1>3. \A j \in SlotIndex : SlotOK(table.slots[j])
  BY DEF TableOK, TableValid, SlotOK, Tables
<1>4. \A j \in SlotIndex : SlotOK(new.slots[j])
  BY <1>1, <1>3
<1>5. \A s : SlotOK(s) => s.generation \in 1 .. GenerationMax
  BY DEF SlotOK, Slots
<1> QED
  BY <1>1, <1>2, <1>4, <1>5, Zenon DEF TableOK, TableValid, SlotOK, new

(* The empty entry carries no right and is no capability entry. *)
LEMMA NoEntryFacts ==
    /\ NoEntry.rights = {}
    /\ \A e \in Entries : e # NoEntry
BY DEF NoEntry, Entries, ObjectTypes

(* close: the table stays valid, gains no right, and the removed           *)
(* generation is buried with the earlier ones.                             *)
LEMMA CloseHandleBuries ==
    ASSUME NEW table, TableOK(table), NEW raw \in Handles, Selects(table, raw),
           NEW rights, ConfinedTo(table, rights),
           NEW pairs \in SUBSET (SlotIndex \X (1 .. GenerationMax)), Buried(table, pairs)
    PROVE  LET pair == <<HandleSlot(raw), HandleGeneration(raw)>>
               new  == CloseHandle(table, raw)
           IN  /\ TableOK(new)
               /\ new.state = "Live"
               /\ ConfinedTo(new, rights)
               /\ pair \in SlotIndex \X (1 .. GenerationMax)
               /\ Buried(new, pairs \cup {pair})
<1> DEFINE i == HandleSlot(raw)
           old == table.slots[i]
           new == CloseHandle(table, raw)
<1>1. i \in SlotIndex
  BY HandleSlotInTable
<1>2. table.state = "Live" /\ old.generation = HandleGeneration(raw)
  BY DEF Selects
<1>3. table \in Tables /\ old \in Slots
  BY <1>1 DEF TableOK, Tables
<1>4. /\ RemoveEntry(old) \in Slots
      /\ RemoveEntry(old).entry = NoEntry
      /\ old.generation <= RemoveEntry(old).generation
      /\ old.retired => RemoveEntry(old).retired
      /\ old.generation < RemoveEntry(old).generation \/ RemoveEntry(old).retired
  BY <1>3, RemoveEntryMovesOn, Zenon
<1>5. new = WithSlot(table, i, RemoveEntry(old))
  BY DEF CloseHandle
<1>6. /\ new.state = table.state
      /\ new.slots[i] = RemoveEntry(old)
      /\ \A j \in SlotIndex \ {i} : new.slots[j] = table.slots[j]
  <2> HIDE DEF i, old, new
  <2> QED
    BY <1>1, <1>3, <1>4, <1>5, WithSlotChangesOneSlot
<1>7. TableOK(new)
  <2>1. SlotOK(RemoveEntry(old))
    BY <1>4, Zenon DEF SlotOK
  <2> QED
    BY <1>1, <1>2, <1>5, <2>1, WithSlotIsOK
<1>8. ConfinedTo(new, rights)
  BY <1>4, <1>6, NoEntryFacts DEF ConfinedTo
<1>9. HandleGeneration(raw) \in 1 .. GenerationMax
  BY <1>2, <1>3 DEF Slots
<1>10. Buried(new, pairs \cup {<<i, HandleGeneration(raw)>>})
  <2> HIDE DEF i, old, new
  <2> SUFFICES ASSUME NEW p \in pairs \cup {<<i, HandleGeneration(raw)>>}
               PROVE  p[2] < new.slots[p[1]].generation \/ new.slots[p[1]].retired
    BY DEF Buried
  <2>1. CASE p = <<i, HandleGeneration(raw)>>
    <3>1. p[1] = i /\ p[2] = HandleGeneration(raw)
      BY <2>1
    <3> QED
      BY <3>1, <1>2, <1>4, <1>6, Zenon DEF old
  <2>2. CASE p \in pairs
    <3>1. p[1] \in SlotIndex /\ p[2] \in 1 .. GenerationMax
      BY <2>2
    <3>2. p[2] < table.slots[p[1]].generation \/ table.slots[p[1]].retired
      BY <2>2, Zenon DEF Buried
    <3>3. CASE p[1] = i
      <4>1. p[2] < old.generation => p[2] < RemoveEntry(old).generation
        BY <1>3, <1>4, <3>1 DEF Slots
      <4> QED
        BY <1>4, <1>6, <3>2, <3>3, <4>1, Zenon DEF old
    <3>4. CASE p[1] # i
      BY <1>6, <3>1, <3>2, <3>4, Zenon
    <3> QED
      BY <3>3, <3>4
  <2> QED
    BY <2>1, <2>2
<1> QED
  BY <1>1, <1>2, <1>6, <1>7, <1>8, <1>9, <1>10

(* The pairs of the entries a table holds. *)
HeldPairs(table) ==
    {<<i, table.slots[i].generation>> : i \in {j \in SlotIndex : table.slots[j].entry # NoEntry}}

(* mark_closing and close_all: nothing is held any more, and every held    *)
(* generation is buried with the earlier ones.                             *)
LEMMA CloseAllBuries ==
    ASSUME NEW table, TableOK(table),
           NEW pairs \in SUBSET (SlotIndex \X (1 .. GenerationMax)), Buried(table, pairs)
    PROVE  LET new == CloseAll(table)
           IN  /\ TableOK(new)
               /\ new.state = "Closing"
               /\ NoEntries(new)
               /\ HeldPairs(table) \subseteq SlotIndex \X (1 .. GenerationMax)
               /\ Buried(new, pairs \cup HeldPairs(table))
<1> DEFINE new == CloseAll(table)
<1>1. \A i \in SlotIndex : table.slots[i] \in Slots /\ SlotOK(table.slots[i])
  BY DEF TableOK, TableValid, SlotOK, Tables
<1>2. \A i \in SlotIndex :
         /\ RemoveEntry(table.slots[i]) \in Slots
         /\ RemoveEntry(table.slots[i]).entry = NoEntry
         /\ table.slots[i].generation <= RemoveEntry(table.slots[i]).generation
         /\ table.slots[i].retired => RemoveEntry(table.slots[i]).retired
         /\ \/ table.slots[i].generation < RemoveEntry(table.slots[i]).generation
            \/ RemoveEntry(table.slots[i]).retired
  BY <1>1, RemoveEntryMovesOn
<1>3. /\ new.state = "Closing"
      /\ \A i \in SlotIndex : new.slots[i] = IF table.slots[i].entry # NoEntry
                                             THEN RemoveEntry(table.slots[i])
                                             ELSE table.slots[i]
      /\ new.slots \in [SlotIndex -> Slots]
      /\ new \in Tables
  BY <1>1, <1>2 DEF CloseAll, Tables, TableStates
<1> HIDE DEF new
<1>4. \A i \in SlotIndex : new.slots[i].entry = NoEntry
  BY <1>2, <1>3
<1>5. TableOK(new)
  <2>1. \A i \in SlotIndex : new.slots[i].generation \in 1 .. GenerationMax
    BY <1>3 DEF Slots
  <2>2. new.state # "Dead"
    BY <1>3
  <2> QED
    BY <1>3, <1>4, <2>1, <2>2, Zenon DEF TableOK, TableValid, NoEntries
<1>6. HeldPairs(table) \subseteq SlotIndex \X (1 .. GenerationMax)
  BY <1>1 DEF HeldPairs, Slots
<1>7. Buried(new, pairs \cup HeldPairs(table))
  <2> SUFFICES ASSUME NEW p \in pairs \cup HeldPairs(table)
               PROVE  p[2] < new.slots[p[1]].generation \/ new.slots[p[1]].retired
    BY DEF Buried
  <2>1. p[1] \in SlotIndex /\ p[2] \in 1 .. GenerationMax
    BY <1>6
  <2> DEFINE old == table.slots[p[1]]
  <2>2. CASE p \in pairs
    <3>1. p[2] < old.generation \/ old.retired
      BY <2>2, Zenon DEF Buried
    <3>2. old \in Slots /\ RemoveEntry(old) \in Slots
      BY <1>1, <1>2, <2>1
    <3>3. p[2] < old.generation => p[2] < RemoveEntry(old).generation
      BY <1>2, <2>1, <3>2 DEF Slots
    <3> QED
      BY <1>2, <1>3, <2>1, <3>1, <3>3, Zenon
  <2>3. CASE p \in HeldPairs(table)
    <3>1. p[2] = old.generation /\ old.entry # NoEntry
      BY <2>3 DEF HeldPairs
    <3> QED
      BY <1>2, <1>3, <2>1, <3>1, Zenon
  <2> QED
    BY <2>2, <2>3
<1> QED
  BY <1>3, <1>4, <1>5, <1>6, <1>7, Zenon DEF NoEntries, new

(* allocate fills a free slot: the table stays valid and within the rights *)
(* of the entry, and no generation changes.                                *)
LEMMA AllocateKeeps ==
    ASSUME NEW table, TableOK(table), table.state \in {"Building", "Live"},
           LowestFree(table) \in FreeSlots(table),
           NEW entry \in Entries, entry.rights \in ValidRights[entry.type],
           NEW rights, ConfinedTo(table, rights), entry.rights \subseteq rights,
           NEW pairs \in SUBSET (SlotIndex \X (1 .. GenerationMax)), Buried(table, pairs)
    PROVE  /\ TableOK(Allocate(table, entry))
           /\ Allocate(table, entry).state = table.state
           /\ ConfinedTo(Allocate(table, entry), rights)
           /\ Buried(Allocate(table, entry), pairs)
<1> DEFINE i == LowestFree(table)
           old == table.slots[i]
           slot == [old EXCEPT !.entry = entry]
           new == Allocate(table, entry)
<1>1. i \in SlotIndex /\ ~old.retired
  BY DEF FreeSlots
<1>2. table \in Tables /\ old \in Slots
  BY <1>1 DEF TableOK, Tables
<1>3. /\ slot \in Slots
      /\ slot.entry = entry
      /\ slot.generation = old.generation
      /\ slot.retired = old.retired
  BY <1>2 DEF Slots
<1>4. SlotOK(slot)
  <2>1. entry.type \in ObjectTypes
    BY DEF Entries
  <2> QED
    BY <1>1, <1>3, <2>1, Zenon DEF SlotOK
<1>5. new = WithSlot(table, i, slot)
  BY DEF Allocate
<1>6. /\ new.state = table.state
      /\ new.slots[i] = slot
      /\ \A j \in SlotIndex \ {i} : new.slots[j] = table.slots[j]
  <2> HIDE DEF i, old, slot, new
  <2> QED
    BY <1>1, <1>2, <1>3, <1>5, WithSlotChangesOneSlot
<1>7. TableOK(new)
  BY <1>1, <1>4, <1>5, WithSlotIsOK
<1>8. ConfinedTo(new, rights)
  BY <1>3, <1>6, Zenon DEF ConfinedTo
<1>9. \A j \in SlotIndex : /\ new.slots[j].generation = table.slots[j].generation
                           /\ new.slots[j].retired = table.slots[j].retired
  <2> HIDE DEF i, slot, new
  <2> QED
    BY <1>3, <1>6, Zenon
<1>10. Buried(new, pairs)
  <2>1. \A p \in pairs : p[1] \in SlotIndex
    OBVIOUS
  <2> HIDE DEF new
  <2> QED
    BY <1>9, <2>1, Zenon DEF Buried
<1> QED
  BY <1>6, <1>7, <1>8, <1>10

(* A resolved handle selects an entry of the type that carries the right. *)
LEMMA ResolvedEntry ==
    ASSUME NEW table, NEW raw, NEW type, NEW right,
           ResolveTyped(table, raw, type, right) = "Ok"
    PROVE  /\ Selects(table, raw)
           /\ SelectedEntry(table, raw).type = type
           /\ right \in SelectedEntry(table, raw).rights
BY DEF ResolveTyped

(* The tables tasks start from: one or more installed entries, published. *)
LEMMA BuildingTableIsOK ==
    /\ TableOK(BuildingTable)
    /\ BuildingTable.state = "Building"
    /\ NoEntries(BuildingTable)
    /\ LowestFree(BuildingTable) \in FreeSlots(BuildingTable)
    /\ \A rights : ConfinedTo(BuildingTable, rights)
    /\ Buried(BuildingTable, {})
<1>1. EmptySlot \in Slots /\ EmptySlot.entry = NoEntry /\ ~EmptySlot.retired
  BY CapabilityAssumption DEF EmptySlot, Slots
<1>2. /\ BuildingTable.state = "Building"
      /\ \A i \in SlotIndex : BuildingTable.slots[i] = EmptySlot
      /\ BuildingTable \in Tables
  BY <1>1 DEF BuildingTable, Tables, TableStates
<1>3. 0 \in SlotIndex
  BY CapabilityAssumption DEF SlotIndex
<1>4. EmptySlot.generation \in 1 .. GenerationMax
  BY <1>1 DEF Slots
<1>5. BuildingTable.state # "Dead" /\ BuildingTable.state # "Closing"
  BY <1>2
<1>6. TableOK(BuildingTable)
  BY <1>1, <1>2, <1>4, <1>5, Zenon DEF TableOK, TableValid
<1>7. LowestFree(BuildingTable) \in FreeSlots(BuildingTable)
  <2>1. 0 \in FreeSlots(BuildingTable)
    BY <1>1, <1>2, <1>3, Zenon DEF FreeSlots
  <2>2. \A j \in FreeSlots(BuildingTable) : 0 <= j
    BY CapabilityAssumption DEF FreeSlots, SlotIndex
  <2> QED
    BY <2>1, <2>2, LowestFreeIsLeast, Zenon
<1>8. \A rights : ConfinedTo(BuildingTable, rights)
  BY <1>1, <1>2, NoEntryFacts DEF ConfinedTo
<1> QED
  BY <1>1, <1>2, <1>6, <1>7, <1>8 DEF NoEntries, Buried

(* The table finish_dead leaves is valid and holds no entry. *)
LEMMA DeadTableIsOK ==
    /\ TableOK(DeadTable)
    /\ DeadTable.state = "Dead"
    /\ NoEntries(DeadTable)
<1>1. EmptySlot \in Slots /\ EmptySlot.entry = NoEntry
  BY CapabilityAssumption DEF EmptySlot, Slots
<1>2. /\ DeadTable.state = "Dead"
      /\ \A i \in SlotIndex : DeadTable.slots[i] = EmptySlot
      /\ DeadTable \in Tables
  BY <1>1 DEF DeadTable, Tables, TableStates
<1>3. EmptySlot.generation \in 1 .. GenerationMax
  BY <1>1 DEF Slots
<1>4. DeadTable.state # "Closing"
  BY <1>2
<1> QED
  BY <1>1, <1>2, <1>3, <1>4, Zenon DEF TableOK, TableValid, NoEntries

(* publish changes only the state of the table. *)
LEMMA PublishKeeps ==
    ASSUME NEW table, TableOK(table), table.state = "Building",
           NEW rights, ConfinedTo(table, rights), NEW pairs, Buried(table, pairs)
    PROVE  /\ TableOK(Publish(table))
           /\ Publish(table).state = "Live"
           /\ ConfinedTo(Publish(table), rights)
           /\ Buried(Publish(table), pairs)
<1>1. /\ Publish(table) \in Tables
      /\ Publish(table).state = "Live"
      /\ Publish(table).slots = table.slots
  BY DEF Publish, TableOK, Tables, TableStates
<1>2. Publish(table).state # "Dead" /\ Publish(table).state # "Closing"
  BY <1>1
<1>3. TableOK(Publish(table))
  BY <1>1, <1>2, Zenon DEF TableOK, TableValid
<1> QED
  BY <1>1, <1>3, Zenon DEF ConfinedTo, Buried

(* A buried pair selects nothing, whatever word decodes to it. *)
LEMMA BuriedNotSelected ==
    ASSUME NEW table \in Tables, NEW raw \in Handles, NEW pairs, Buried(table, pairs),
           <<HandleSlot(raw), HandleGeneration(raw)>> \in pairs
    PROVE  ~Selects(table, raw)
<1>1. table.slots[HandleSlot(raw)] \in Slots
  BY HandleSlotInTable DEF Tables
<1>2. table.slots[HandleSlot(raw)].generation \in Int
  BY <1>1 DEF Slots
<1>3. \/ HandleGeneration(raw) < table.slots[HandleSlot(raw)].generation
      \/ table.slots[HandleSlot(raw)].retired
  BY DEF Buried
<1>4. HandleGeneration(raw) < table.slots[HandleSlot(raw)].generation
      => HandleGeneration(raw) # table.slots[HandleSlot(raw)].generation
  BY <1>2
<1> QED
  BY <1>3, <1>4, Zenon DEF Selects
-----------------------------------------------------------------------------
(* The run queue, the schedule and the common traps. *)

(* A run queue Runtime::validate accepts. *)
QueueOK(q) ==
    /\ q \in Seq(Tasks)
    /\ Len(q) <= TaskCount
    /\ \A i, j \in DOMAIN q : q[i] = q[j] => i = j

(* A task that is not queued always finds room: RunQueue::push succeeds. *)
LEMMA UnqueuedCanPush ==
    ASSUME NEW q, QueueOK(q), NEW t \in Tasks, t \notin Queued(q)
    PROVE  CanPush(q, t)
<1>1. Len(q) \in Nat /\ DOMAIN q = 1 .. Len(q)
  BY DEF QueueOK
<1>2. ASSUME Len(q) = 2 PROVE FALSE
  <2> 1 \in DOMAIN q /\ 2 \in DOMAIN q
    BY <1>1, <1>2
  <2>1. q[1] \in Tasks /\ q[2] \in Tasks /\ q[1] # q[2]
    <3>1. q[1] = q[2] => 1 = 2
      BY Zenon DEF QueueOK
    <3>2. q \in Seq(Tasks)
      BY DEF QueueOK
    <3>3. q[1] \in Tasks /\ q[2] \in Tasks
      BY <1>1, <1>2, <3>2
    <3> QED
      BY <3>1, <3>3
  <2>2. q[1] \in Queued(q) /\ q[2] \in Queued(q)
    BY <1>1, <1>2 DEF Queued
  <2> QED
    BY <2>1, <2>2 DEF Tasks, Sender, Receiver
<1>3. Len(q) # 2 /\ Len(q) <= 2
  BY <1>2 DEF QueueOK, TaskCount
<1> QED
  BY <1>1, <1>3 DEF CanPush, TaskCount

(* RunQueue::push adds its task at the tail and keeps members distinct. *)
LEMMA PushKeepsQueue ==
    ASSUME NEW q, QueueOK(q), NEW t \in Tasks, t \notin Queued(q)
    PROVE  /\ QueueOK(Append(q, t))
           /\ Queued(Append(q, t)) = Queued(q) \cup {t}
           /\ Append(q, t) # <<>>
           /\ Head(Append(q, t)) = IF q = <<>> THEN t ELSE Head(q)
<1> DEFINE p == Append(q, t)
<1>1. Len(q) \in Nat /\ DOMAIN q = 1 .. Len(q) /\ q \in Seq(Tasks)
  BY DEF QueueOK
<1>2. /\ p \in Seq(Tasks)
      /\ Len(p) = Len(q) + 1
      /\ DOMAIN p = 1 .. Len(q) + 1
      /\ \A i \in 1 .. Len(q) : p[i] = q[i]
      /\ p[Len(q) + 1] = t
  BY <1>1
<1>3. Len(q) < TaskCount
  BY UnqueuedCanPush DEF CanPush
<1>4. \A i \in 1 .. Len(q) : q[i] # t
  BY <1>1 DEF Queued
<1>5. QueueOK(p)
  <2> HIDE DEF p
  <2> QED
    BY <1>1, <1>2, <1>3, <1>4 DEF QueueOK, TaskCount
<1>6. Queued(p) = Queued(q) \cup {t}
  <2> HIDE DEF p
  <2> QED
    BY <1>1, <1>2 DEF Queued
<1>7. p # <<>> /\ Head(p) = IF q = <<>> THEN t ELSE Head(q)
  <2> HIDE DEF p
  <2>1. p # <<>> /\ Head(p) = p[1]
    BY <1>1, <1>2
  <2>2. CASE q = <<>>
    BY <1>1, <1>2, <2>1, <2>2
  <2>3. CASE q # <<>>
    <3>1. Len(q) # 0 /\ Head(q) = q[1]
      BY <1>1, <2>3
    <3> QED
      BY <1>1, <1>2, <2>1, <2>3, <3>1
  <2> QED
    BY <2>2, <2>3
<1> QED
  BY <1>5, <1>6, <1>7

(* RunQueue::pop removes the head and keeps members distinct. *)
LEMMA PopKeepsQueue ==
    ASSUME NEW q, QueueOK(q), q # <<>>
    PROVE  /\ QueueOK(Tail(q))
           /\ Head(q) \in Tasks
           /\ Head(q) \in Queued(q)
           /\ Queued(Tail(q)) = Queued(q) \ {Head(q)}
<1>1. Len(q) \in Nat /\ DOMAIN q = 1 .. Len(q) /\ q \in Seq(Tasks) /\ Len(q) # 0
  BY DEF QueueOK
<1>2. /\ Tail(q) \in Seq(Tasks)
      /\ Len(Tail(q)) = Len(q) - 1
      /\ DOMAIN Tail(q) = 1 .. Len(q) - 1
      /\ \A i \in 1 .. Len(q) - 1 : Tail(q)[i] = q[i + 1]
      /\ Head(q) = q[1]
  BY <1>1
<1>3. QueueOK(Tail(q))
  BY <1>1, <1>2 DEF QueueOK, TaskCount
<1>4. Head(q) \in Tasks /\ Head(q) \in Queued(q)
  BY <1>1, <1>2 DEF Queued
<1>5. Queued(Tail(q)) = Queued(q) \ {Head(q)}
  <2>1. ASSUME NEW x \in Queued(Tail(q)) PROVE x \in Queued(q) \ {Head(q)}
    <3>1. PICK i \in 1 .. Len(q) - 1 : x = q[i + 1]
      BY <1>1, <1>2, <2>1 DEF Queued
    <3> QED
      BY <1>1, <1>2, <3>1 DEF Queued, QueueOK
  <2>2. ASSUME NEW x \in Queued(q) \ {Head(q)} PROVE x \in Queued(Tail(q))
    <3>1. PICK i \in 1 .. Len(q) : x = q[i]
      BY <1>1, <2>2 DEF Queued
    <3>2. i # 1 /\ i - 1 \in 1 .. Len(q) - 1 /\ Tail(q)[i - 1] = x
      BY <1>1, <1>2, <2>2, <3>1
    <3> QED
      BY <1>2, <3>2, Zenon DEF Queued
  <2> QED
    BY <2>1, <2>2
<1> QED
  BY <1>3, <1>4, <1>5

(* A queue with an element is not empty, and one without is. *)
LEMMA QueueEmptiness ==
    ASSUME NEW q, QueueOK(q)
    PROVE  (q = <<>>) <=> (Queued(q) = {})
BY DEF QueueOK, Queued

(* The task states and the queue agree: exactly the ready tasks are        *)
(* queued, at most one task runs, and none runs while one is torn down.    *)
(* The last conjunct is the strengthening that makes dispatch succeed.     *)
ScheduleOK(st, q) ==
    /\ st \in [Tasks -> TaskStates]
    /\ QueueOK(q)
    /\ \A t \in Tasks : st[t] = "Ready" <=> t \in Queued(q)
    /\ \A t, u \in Tasks :
          st[t] \in {"Running", "Exited"} /\ st[u] \in {"Running", "Exited"} => t = u

(* A task that is not queued may leave the processor for a state in which  *)
(* it is neither queued nor running.                                       *)
LEMMA ParkKeepsSchedule ==
    ASSUME NEW st, NEW q, ScheduleOK(st, q), NEW t \in Tasks, st[t] # "Ready",
           NEW s \in TaskStates \ {"Ready", "Running", "Exited"}
    PROVE  ScheduleOK([st EXCEPT ![t] = s], q)
BY DEF ScheduleOK

(* A running task may exit. *)
LEMMA ExitKeepsSchedule ==
    ASSUME NEW st, NEW q, ScheduleOK(st, q), NEW t \in Tasks, st[t] = "Running"
    PROVE  ScheduleOK([st EXCEPT ![t] = "Exited"], q)
BY DEF ScheduleOK, TaskStates

(* A task that is not ready may be made ready and queued. *)
LEMMA EnqueueKeepsSchedule ==
    ASSUME NEW st, NEW q, ScheduleOK(st, q), NEW t \in Tasks, st[t] # "Ready"
    PROVE  /\ CanPush(q, t)
           /\ ScheduleOK([st EXCEPT ![t] = "Ready"], Append(q, t))
           /\ Append(q, t) # <<>>
<1>1. QueueOK(q) /\ t \notin Queued(q)
  BY DEF ScheduleOK
<1>2. CanPush(q, t)
  BY <1>1, UnqueuedCanPush
<1>3. /\ QueueOK(Append(q, t))
      /\ Queued(Append(q, t)) = Queued(q) \cup {t}
      /\ Append(q, t) # <<>>
  BY <1>1, PushKeepsQueue
<1> HIDE DEF QueueOK
<1>4. ScheduleOK([st EXCEPT ![t] = "Ready"], Append(q, t))
  BY <1>3 DEF ScheduleOK, TaskStates
<1> QED
  BY <1>2, <1>3, <1>4

(* With a queued task and an idle processor dispatch_next succeeds. *)
LEMMA DispatchKeepsSchedule ==
    ASSUME NEW st, NEW q, ScheduleOK(st, q), q # <<>>,
           \A t \in Tasks : st[t] \notin {"Running", "Exited"}
    PROVE  /\ Dispatchable(st, q)
           /\ Head(q) \in Tasks
           /\ st[Head(q)] = "Ready"
           /\ ScheduleOK(Dispatched(st, q), Tail(q))
           /\ \A t \in Tasks :
                 Dispatched(st, q)[t] = IF t = Head(q) THEN "Running" ELSE st[t]
<1>1. QueueOK(q)
  BY DEF ScheduleOK
<1>2. /\ QueueOK(Tail(q))
      /\ Head(q) \in Tasks
      /\ Head(q) \in Queued(q)
      /\ Queued(Tail(q)) = Queued(q) \ {Head(q)}
  BY <1>1, PopKeepsQueue
<1>3. st[Head(q)] = "Ready"
  BY <1>2 DEF ScheduleOK
<1>4. Dispatchable(st, q)
  BY <1>3 DEF Dispatchable
<1>5. \A t \in Tasks : Dispatched(st, q)[t] = IF t = Head(q) THEN "Running" ELSE st[t]
  BY <1>2 DEF Dispatched, ScheduleOK
<1>6. ScheduleOK(Dispatched(st, q), Tail(q))
  BY <1>2 DEF Dispatched, ScheduleOK, TaskStates
<1> QED
  BY <1>2, <1>3, <1>4, <1>5, <1>6

(* A ready task is queued, so the queue is not empty. *)
LEMMA ReadyIsQueued ==
    ASSUME NEW st, NEW q, ScheduleOK(st, q), NEW t \in Tasks, st[t] = "Ready"
    PROVE  q # <<>>
BY QueueEmptiness DEF ScheduleOK
-----------------------------------------------------------------------------
(* The two task identifiers are distinct. *)
LEMMA TaskFacts == Sender \in Tasks /\ Receiver \in Tasks /\ Sender # Receiver
BY DEF Tasks, Sender, Receiver

(* The table state validate expects in each task state. *)
LEMMA TableStateFacts ==
    /\ TableStateOf["Ready"] = {"Live"} /\ TableStateOf["Running"] = {"Live"}
    /\ TableStateOf["BlockedReceive"] = {"Live"}
    /\ TableStateOf["Exited"] = {"Live", "Closing"} /\ TableStateOf["Dead"] = {"Dead"}
BY DEF TableStateOf

(* set_result writes a status and one value. *)
LEMMA ReplyType ==
    ASSUME NEW status \in Statuses, NEW value \in Nat
    PROVE  /\ Reply(status, value) \in Replies
           /\ Reply(status, value).status = status
           /\ Reply(status, value).out[1] = value
<1>1. <<value>> \in Seq(Nat)
  OBVIOUS
<1> QED
  BY <1>1 DEF Reply, Replies

(* No result is due in registers that hold trap inputs. *)
LEMMA NoReplyType == NoReply \in Replies /\ NoReply.status = "None"
BY DEF NoReply, Replies

(* The statuses of the shared helpers. *)
LEMMA ResolveStatuses ==
    ASSUME NEW table, NEW raw, NEW type, NEW right
    PROVE  ResolveTyped(table, raw, type, right)
              \in {"Ok", "InvalidHandle", "WrongObject", "RightsDenied"}
BY DEF ResolveTyped

(* duplicate never answers PeerExited. *)
LEMMA DuplicateStatuses ==
    ASSUME NEW table, NEW raw, NEW requested
    PROVE  DuplicateStatus(table, raw, requested) \in Statuses \ {"PeerExited"}
<1>1. ResolveTyped(table, raw, "Endpoint", "Duplicate") \in Statuses \ {"PeerExited"}
  BY ResolveStatuses DEF Statuses
<1>2. AllocateStatus(table) \in Statuses \ {"PeerExited"}
  BY DEF AllocateStatus, Statuses
<1>3. "InvalidRights" \in Statuses \ {"PeerExited"}
  BY DEF Statuses
<1> QED
  BY <1>1, <1>2, <1>3, Zenon DEF DuplicateStatus

(* The <<slot, generation>> pairs of a table. *)
Pairs == SlotIndex \X (1 .. GenerationMax)

(* The first dispatch runs the head of the queue and changes nothing else. *)
LEMMA BootSteps ==
    ASSUME ScheduleOK(state, queue), FirstDispatch
    PROVE  /\ ScheduleOK(state', queue')
           /\ UNCHANGED <<caps, reply, spent, failed>>
           /\ \A t \in Tasks : \/ state'[t] = state[t]
                               \/ state[t] = "Ready" /\ state'[t] = "Running"
<1>1. queue # <<>> /\ \A t \in Tasks : state[t] \notin {"Running", "Exited"}
  BY DEF FirstDispatch
<1>2. /\ Dispatchable(state, queue)
      /\ Head(queue) \in Tasks
      /\ state[Head(queue)] = "Ready"
      /\ ScheduleOK(Dispatched(state, queue), Tail(queue))
      /\ \A t \in Tasks :
            Dispatched(state, queue)[t] = IF t = Head(queue) THEN "Running" ELSE state[t]
  BY <1>1, DispatchKeepsSchedule
<1> QED
  BY <1>2, Zenon DEF FirstDispatch

(* Yield never fails: it rotates the run queue and answers Ok. *)
LEMMA YieldSteps ==
    ASSUME ScheduleOK(state, queue), NEW t \in Tasks, YieldTrap(t)
    PROVE  /\ ScheduleOK(state', queue')
           /\ UNCHANGED <<caps, spent, failed>>
           /\ reply' = [reply EXCEPT ![t] = Reply("Ok", 0)]
           /\ \A u \in Tasks : \/ state'[u] = state[u]
                               \/ /\ state[u] \in {"Ready", "Running"}
                                  /\ state'[u] \in {"Ready", "Running"}
<1> DEFINE st == [state EXCEPT ![t] = "Ready"]
           q  == Append(queue, t)
<1>1. state[t] = "Running"
  BY DEF YieldTrap, Runs
<1>2. CanPush(queue, t) /\ ScheduleOK(st, q) /\ q # <<>>
  BY <1>1, EnqueueKeepsSchedule
<1>3. \A u \in Tasks : st[u] = IF u = t THEN "Ready" ELSE state[u]
  BY <1>1 DEF ScheduleOK
<1>4. \A u \in Tasks : st[u] \notin {"Running", "Exited"}
  BY <1>1, <1>3 DEF ScheduleOK
<1> HIDE DEF st, q
<1>5. /\ Dispatchable(st, q)
      /\ ScheduleOK(Dispatched(st, q), Tail(q))
      /\ \A u \in Tasks : Dispatched(st, q)[u] = IF u = Head(q) THEN "Running" ELSE st[u]
      /\ Head(q) \in Tasks /\ st[Head(q)] = "Ready"
  BY <1>2, <1>4, DispatchKeepsSchedule
<1>6. Switch(t, st, q, Reply("Ok", 0))
  BY <1>2, <1>5 DEF YieldTrap, st, q
<1>7. /\ state' = Dispatched(st, q) /\ queue' = Tail(q)
      /\ reply' = [reply EXCEPT ![t] = Reply("Ok", 0)]
      /\ UNCHANGED <<caps, spent, failed>>
  BY <1>6 DEF Switch
<1>8. \A u \in Tasks : \/ state'[u] = state[u]
                       \/ /\ state[u] \in {"Ready", "Running"}
                          /\ state'[u] \in {"Ready", "Running"}
  BY <1>1, <1>3, <1>5, <1>7
<1> QED
  BY <1>5, <1>7, <1>8

(* begin_teardown closes the exited task's table and buries what it held. *)
LEMMA CloseTableSteps ==
    ASSUME caps \in [Tasks -> Tables], spent \in [Tasks -> SUBSET Pairs],
           NEW t \in Tasks, TableOK(caps[t]), Buried(caps[t], spent[t]), CloseTable(t)
    PROVE  /\ caps' \in [Tasks -> Tables] /\ spent' \in [Tasks -> SUBSET Pairs]
           /\ TableOK(caps'[t]) /\ caps'[t].state = "Closing" /\ NoEntries(caps'[t])
           /\ Buried(caps'[t], spent'[t])
           /\ \A u \in Tasks \ {t} : caps'[u] = caps[u] /\ spent'[u] = spent[u]
<1> DEFINE new == CloseAll(caps[t])
           pairs == spent[t] \cup HeldPairs(caps[t])
<1>1. spent[t] \in SUBSET Pairs
  OBVIOUS
<1>2. /\ TableOK(new) /\ new.state = "Closing" /\ NoEntries(new)
      /\ HeldPairs(caps[t]) \subseteq Pairs /\ Buried(new, pairs)
  BY <1>1, CloseAllBuries DEF Pairs
<1>3. caps' = [caps EXCEPT ![t] = new] /\ spent' = [spent EXCEPT ![t] = pairs]
  BY DEF CloseTable, HeldPairs
<1> HIDE DEF new
<1>4. pairs \in SUBSET Pairs
  BY <1>1, <1>2
<1> HIDE DEF pairs
<1> QED
  BY <1>2, <1>3, <1>4 DEF TableOK

(* An exited task's teardown completes whenever the other task is ready or *)
(* dead; it runs the other task or finds none left.                        *)
LEMMA ReapSteps ==
    ASSUME ScheduleOK(state, queue), NEW t \in Tasks, state[t] = "Exited", NoEntries(caps[t]),
           \A u \in Tasks \ {t} : state[u] \in {"Ready", "Dead"}
    PROVE  /\ CanReap(t)
           /\ Reap(t) =>
                 /\ ScheduleOK(state', queue')
                 /\ state'[t] = "Dead"
                 /\ \A u \in Tasks \ {t} :
                       state'[u] = IF state[u] = "Ready" THEN "Running" ELSE "Dead"
<1> USE TaskFacts
<1>1. /\ ScheduleOK(Reaped(t), queue)
      /\ \A u \in Tasks : Reaped(t)[u] = IF u = t THEN "Dead" ELSE state[u]
  BY ParkKeepsSchedule DEF Reaped, TaskStates, ScheduleOK
<1> DEFINE last == \A u \in Tasks : Reaped(t)[u] = "Dead"
<1>2. CASE last
  <2>1. Queued(queue) \subseteq Tasks
    BY DEF ScheduleOK, QueueOK, Queued
  <2>2. Queued(queue) = {}
    BY <1>1, <1>2, <2>1 DEF ScheduleOK
  <2>3. LastReaped(t)
    BY <1>2, <2>2, QueueEmptiness DEF ScheduleOK, LastReaped
  <2>4. \A u \in Tasks \ {t} : state[u] = "Dead"
    BY <1>1, <1>2
  <2> QED
    BY <1>1, <2>3, <2>4 DEF CanReap, Reap
<1>3. CASE ~last
  <2>1. PICK v \in Tasks \ {t} : state[v] = "Ready"
    BY <1>1, <1>3
  <2>2. queue # <<>>
    BY <2>1, ReadyIsQueued
  <2>3. \A u \in Tasks : Reaped(t)[u] \notin {"Running", "Exited"}
    BY <1>1
  <2>4. /\ Dispatchable(Reaped(t), queue)
        /\ ScheduleOK(Dispatched(Reaped(t), queue), Tail(queue))
        /\ \A u \in Tasks : Dispatched(Reaped(t), queue)[u] =
                               IF u = Head(queue) THEN "Running" ELSE Reaped(t)[u]
        /\ Head(queue) \in Tasks /\ Reaped(t)[Head(queue)] = "Ready"
    BY <1>1, <2>2, <2>3, DispatchKeepsSchedule
  <2>5. ~LastReaped(t)
    BY <1>3 DEF LastReaped
  <2>6. Head(queue) = v /\ \A u \in Tasks \ {t} : u = v
    BY <1>1, <2>1, <2>4 DEF Tasks
  <2> QED
    BY <1>1, <2>1, <2>4, <2>5, <2>6, Zenon DEF CanReap, Reap
<1> QED
  BY <1>2, <1>3
=============================================================================

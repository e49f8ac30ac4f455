------------------------- MODULE KernelMemoryProofs -------------------------
(***************************************************************************)
(* Proofs about KernelMemory: the two address spaces over the frame        *)
(* allocator, for every page size, address width, table capacity and       *)
(* memory map, and whichever backend calls are refused.                    *)
(*                                                                         *)
(* The inductive invariant MemoryInv joins AllocatorInv with ControlInv    *)
(* and TablesInv of the address spaces and with FramesAccounted. OrderInv  *)
(* adds where the frames of each space lie, which is why the free table    *)
(* always has room for a frame that comes back.                            *)
(***************************************************************************)
EXTENDS KernelMemory, AddressSpaceProofs, FrameAllocatorProofs

MemoryInv == AllocatorInv /\ ControlInv /\ FramesAccounted /\ TablesInv

(* Frames accounted for are apart in the ledgers. *)
LEMMA ApartWhenAccounted ==
    ASSUME FramesAccounted
    PROVE  LedgersApart
BY DEF FramesAccounted, LedgersApart
-----------------------------------------------------------------------------
(* What a step does to the frames. *)

(* A frame goes from the allocator to the ledger of a space. *)
Takes(s) ==
    /\ free # <<>> /\ free' = WithoutFirst(free) /\ UNCHANGED managed
    /\ Records(owners[s], free[1].start, owners'[s])
    /\ \A t \in Spaces : t # s => owners'[t] = owners[t]

(* The last frame of a space goes back to the allocator. *)
Gives(s) ==
    /\ owners[s].ledger # <<>> /\ UNCHANGED managed
    /\ PagesIn(free') = PagesIn(free) \union {Last(owners[s].ledger).frame}
    /\ Returns(owners[s], owners'[s])
    /\ \A t \in Spaces : t # s => owners'[t] = owners[t]

(* No frame moves. *)
Keeps ==
    /\ UNCHANGED <<managed, free>>
    /\ \A t \in Spaces : owners'[t].ledger = owners[t].ledger
    /\ call'.op = "construct" =>
          call.op = "construct" \/ \A t \in Spaces : owners[t].ledger = <<>>

(* A step moves one frame or none, frames are taken by a construction and  *)
(* given back by an unwinding.                                             *)
Effects ==
    /\ AllocatorInv' /\ ControlInv' /\ TablesInv'
    /\ \/ Keeps
       \/ call.op = "construct" /\ call.space \in Spaces /\ Takes(call.space)
       \/ call'.op # "construct" /\ call.space \in Spaces /\ Gives(call.space)

(* KernelBackend::allocate_frame: the frame goes from the allocator to the *)
(* ledger, or the construction is rolled back.                             *)
LEMMA AllocateStep ==
    ASSUME MemoryInv, BackendAllocates
    PROVE  Effects
<1>1. /\ AllocatorInv /\ ControlInv /\ FramesAccounted /\ LedgersApart /\ TablesInv
      /\ AllocateFrame /\ UNCHANGED <<managed, map>>
  BY ApartWhenAccounted DEF MemoryInv, BackendAllocates, AllocateFrame
<1>2. AllocatorInv'
  <2>1. FrameNext
    BY <1>1 DEF FrameNext
  <2> QED
    BY <1>1, <2>1, AllocatorStep
<1>3. CASE /\ free # <<>> /\ free' = WithoutFirst(free)
           /\ result' = Returned("allocate", "Ok", free[1].start)
  <2>1. PICK frame : frame = free[1].start
    OBVIOUS
  <2>2. ReceiveFrame(frame)
    BY <1>3, <2>1 DEF BackendAllocates, Returned
  <2>3. frame \in PagesIn(free) /\ frame \in Nat
    BY <1>1, <1>3, <2>1, FirstFree
  <2>4. call # Idle /\ call.space \in Spaces /\ call.op = "construct"
    <3>1. call.step \in BuildingSteps
      BY DEF BackendAllocates, BuildingSteps
    <3> QED
      BY <1>1, <3>1, WhileBuilding
  <2>5. frame \notin LedgerFrames(owners[call.space])
    BY <1>1, <2>3, <2>4 DEF FramesAccounted, Unused
  <2>6. /\ ControlInv'
        /\ Records(owners[call.space], frame, owners'[call.space])
        /\ \A t \in Spaces : t # call.space => owners'[t] = owners[t]
    BY <1>1, <2>2, <2>3, <2>5, ReceiveMoves
  <2>7. Takes(call.space)
    BY <1>1, <1>3, <2>1, <2>6 DEF Takes
  <2>8. TablesInv'
    BY <1>1, <2>2, <2>3, <2>5, ReceiveTables
  <2> QED
    BY <1>2, <2>4, <2>6, <2>7, <2>8 DEF Effects
<1>4. CASE /\ free = <<>> /\ free' = free
           /\ result' = Returned("allocate", "Exhausted", 0)
  <2>1. ConstructFails
    BY <1>4 DEF BackendAllocates, Returned
  <2>2. ControlInv' /\ TablesInv' /\ UNCHANGED owners /\ call'.op # "construct"
    BY <1>1, <2>1, FailTables
  <2>3. Keeps
    BY <1>1, <1>4, <2>2 DEF Keeps
  <2> QED
    BY <1>2, <2>2, <2>3 DEF Effects
<1> QED
  BY <1>1, <1>3, <1>4, AllocateSteps

(* The last frame of a ledger is a managed one. *)
LEMMA LastIsManaged ==
    ASSUME AllocatorInv, ControlInv, FramesAccounted, NEW s \in Spaces, owners[s].ledger # <<>>
    PROVE  /\ Last(owners[s].ledger).frame \in LedgerFrames(owners[s])
           /\ Last(owners[s].ledger).frame \in PagesIn(managed)
           /\ Last(owners[s].ledger).frame \in 0 .. AddressMax
           /\ Last(owners[s].ledger).frame \in Nat
<1>1. PICK frame : frame = Last(owners[s].ledger).frame
  OBVIOUS
<1>2. frame \in LedgerFrames(owners[s])
  BY <1>1, LedgerAddresses DEF ControlInv, MemoryTypeOK
<1>3. frame \in PagesIn(managed)
  BY <1>2 DEF FramesAccounted, Spaces
<1>4. frame \in 0 .. AddressMax /\ frame \in Nat
  BY <1>3, PagesAreAddresses
<1> QED
  BY <1>1, <1>2, <1>3, <1>4

(* KernelBackend::return_frame: the frame goes back to the allocator, or   *)
(* the unwinding stops with the frame still in the ledger.                 *)
LEMMA ReturnStep ==
    ASSUME MemoryInv, BackendReturns
    PROVE  Effects
<1>1. /\ AllocatorInv /\ ControlInv /\ FramesAccounted /\ TablesInv
      /\ call.step = "return" /\ owners[call.space].ledger # <<>>
  BY DEF MemoryInv, BackendReturns
<1>2. PICK s \in Spaces : s = call.space /\ call.op # "construct"
  <2>1. call.step \in UnwindingSteps
    BY <1>1 DEF UnwindingSteps
  <2> QED
    BY <1>1, <2>1, WhileUnwinding
<1>3. PICK frame \in 0 .. AddressMax : frame = LastOwned /\ frame \in Nat
  BY <1>1, <1>2, LastIsManaged DEF LastOwned
<1>4. FreeFrame(frame) /\ UNCHANGED <<managed, map>> /\ result'.status = FreeStatus(frame)
  BY <1>3 DEF BackendReturns, FreeFrame, Returned
<1>5. AllocatorInv'
  <2>1. FrameNext
    BY <1>4 DEF FrameNext
  <2> QED
    BY <1>1, <2>1, AllocatorStep
<1>6. CASE FreeStatus(frame) = "Ok"
  <2>1. ReturnFrame
    BY <1>4, <1>6 DEF BackendReturns
  <2>2. PagesIn(free') = PagesIn(free) \union {frame}
    BY <1>1, <1>3, <1>4, <1>6, FreeSteps
  <2>3. /\ ControlInv' /\ Returns(owners[s], owners'[s])
        /\ \A t \in Spaces : t # s => owners'[t] = owners[t]
        /\ call' = call
    BY <1>1, <1>2, <2>1, ReturnMoves
  <2>4. frame = Last(owners[s].ledger).frame
    BY <1>2, <1>3 DEF LastOwned
  <2>5. Gives(s)
    BY <1>1, <1>2, <1>4, <2>2, <2>3, <2>4 DEF Gives
  <2>6. TablesInv'
    BY <1>1, <2>1, ReturnTables
  <2> QED
    BY <1>2, <1>5, <2>3, <2>5, <2>6 DEF Effects
<1>7. CASE FreeStatus(frame) # "Ok"
  <2>1. UnwindFails
    BY <1>4, <1>7 DEF BackendReturns
  <2>2. UNCHANGED free
    BY <1>4, <1>7 DEF FreeFrame
  <2>3. /\ ControlInv' /\ TablesInv' /\ call'.op # "construct"
        /\ \A t \in Spaces : owners'[t].ledger = owners[t].ledger
    BY <1>1, <2>1, UnwoundStep
  <2>4. Keeps
    BY <1>4, <2>2, <2>3 DEF Keeps
  <2> QED
    BY <1>5, <2>3, <2>4 DEF Effects
<1> QED
  BY <1>6, <1>7

(* The calls that only touch page tables move no frame. *)
LEMMA MapsStep ==
    ASSUME MemoryInv, BackendMaps
    PROVE  Effects
<1>1. /\ AllocatorInv /\ ControlInv /\ LedgersApart /\ TablesInv
      /\ UNCHANGED <<managed, free>> /\ AllocatorInv'
  BY ApartWhenAccounted DEF MemoryInv, BackendMaps, frameVars, AllocatorInv
<1>2. /\ ControlInv' /\ TablesInv'
      /\ \A t \in Spaces : owners'[t].ledger = owners[t].ledger
      /\ call'.op = "construct" => call.op = "construct"
  BY <1>1, TablesStep DEF BackendMaps
<1> QED
  BY <1>1, <1>2 DEF Effects, Keeps

(* The kernel's own steps leave the allocator alone. *)
LEMMA KernelStep ==
    ASSUME MemoryInv, Kernel
    PROVE  Effects
<1>1. /\ AllocatorInv /\ ControlInv /\ FramesAccounted /\ TablesInv
      /\ UNCHANGED <<managed, free>> /\ AllocatorInv'
  BY DEF MemoryInv, Kernel, frameVars, AllocatorInv
<1>2. /\ ControlInv' /\ TablesInv'
      /\ \A t \in Spaces : owners'[t].ledger = owners[t].ledger
      /\ call'.op = "construct" =>
            call.op = "construct" \/ \A t \in Spaces : owners[t].ledger = <<>>
  BY <1>1, KernelMoves DEF Kernel
<1> QED
  BY <1>1, <1>2 DEF Effects, Keeps

(* The kernel starts with an accepted map, both ledgers and all tables     *)
(* empty.                                                                  *)
LEMMA MemoryStarts ==
    ASSUME MemoryInit
    PROVE  MemoryInv
<1>1. AllocatorInv /\ free = managed
  BY MapsAssumption, AcceptedMapStarts DEF MemoryInit
<1>2. /\ ControlInv /\ TablesInv
      /\ owners[1].ledger = <<>> /\ owners[2].ledger = <<>>
  BY SpacesStart DEF MemoryInit
<1>3. LedgerFrames(owners[1]) = {} /\ LedgerFrames(owners[2]) = {}
  BY <1>2 DEF LedgerFrames
<1>4. FramesAccounted
  BY <1>1, <1>2, <1>3 DEF FramesAccounted, Unused, Spaces
<1> QED
  BY <1>1, <1>2, <1>4 DEF MemoryInv

(* However a step moves frames, they stay accounted for. *)
LEMMA EffectsKeep ==
    ASSUME MemoryInv, Effects
    PROVE  MemoryInv'
<1>1. AllocatorInv /\ ControlInv /\ FramesAccounted
  BY DEF MemoryInv
<1>2. Accounted(owners, PagesIn(free), PagesIn(managed))
  BY <1>1 DEF FramesAccounted, Unused, Accounted, Distinct
<1>3. ASSUME Keeps PROVE Accounted(owners', PagesIn(free'), PagesIn(managed'))
  <2>1. Accounted(owners', PagesIn(free), PagesIn(managed))
    BY <1>2, <1>3, AccountsKept DEF Keeps
  <2> QED
    BY <1>3, <2>1 DEF Keeps
<1>4. ASSUME NEW s \in Spaces, Takes(s)
      PROVE  Accounted(owners', PagesIn(free'), PagesIn(managed'))
  <2>1. PICK frame \in Nat : /\ frame = free[1].start /\ frame \in PagesIn(free)
                             /\ PagesIn(free') = PagesIn(free) \ {frame}
    BY <1>1, <1>4, FirstFree DEF Takes
  <2>2. /\ owners[s] \in OwnerType /\ Records(owners[s], frame, owners'[s])
        /\ \A t \in Spaces : t # s => owners'[t] = owners[t]
    BY <1>1, <1>4, <2>1 DEF Takes, ControlInv, MemoryTypeOK
  <2>3. Accounted(owners', PagesIn(free) \ {frame}, PagesIn(managed))
    BY <1>2, <2>1, <2>2, AccountsTake
  <2> QED
    BY <1>4, <2>1, <2>3 DEF Takes
<1>5. ASSUME NEW s \in Spaces, Gives(s)
      PROVE  Accounted(owners', PagesIn(free'), PagesIn(managed'))
  <2>1. Accounted(owners', PagesIn(free) \union {Last(owners[s].ledger).frame}, PagesIn(managed))
    BY <1>1, <1>2, <1>5, AccountsGive DEF Gives, ControlInv, MemoryTypeOK
  <2> QED
    BY <1>5, <2>1 DEF Gives
<1>6. AllocatorInv' /\ ControlInv' /\ TablesInv' /\ Accounted(owners', PagesIn(free'), PagesIn(managed'))
  BY <1>3, <1>4, <1>5 DEF Effects
<1>7. FramesAccounted'
  BY <1>6 DEF FramesAccounted, Unused, Accounted, Distinct
<1> QED
  BY <1>6, <1>7 DEF MemoryInv

(* Every step is one of these. *)
LEMMA StepEffects ==
    ASSUME MemoryInv, [Library \/ Kernel]_memoryVars
    PROVE  Effects
<1>1. CASE UNCHANGED memoryVars
  <2>1. UNCHANGED spaceVars /\ UNCHANGED <<managed, free, map>>
    BY <1>1 DEF memoryVars, frameVars
  <2>2. ControlInv' /\ TablesInv' /\ \A t \in Spaces : owners'[t].ledger = owners[t].ledger
    BY <2>1, StillMemory DEF MemoryInv
  <2>3. AllocatorInv' /\ call' = call
    BY <2>1 DEF MemoryInv, AllocatorInv, spaceVars
  <2> QED
    BY <2>1, <2>2, <2>3 DEF Effects, Keeps
<1> QED
  BY <1>1, AllocateStep, ReturnStep, MapsStep, KernelStep DEF Library

(* Through every construction, rollback, teardown and refused backend      *)
(* call, the library is where its call says, and ledgers, extents and      *)
(* page tables agree.                                                      *)
THEOREM MemoryInvariant == MemorySpec => []MemoryInv
<1>1. MemoryInit => MemoryInv
  BY MemoryStarts
<1>2. MemoryInv /\ [Library \/ Kernel]_memoryVars => MemoryInv'
  BY StepEffects, EffectsKeep
<1> QED
  BY <1>1, <1>2, PTL DEF MemorySpec

(* No frame is lost and none has two owners: whatever the backend refuses, *)
(* a managed frame is free or in exactly one ledger, once.                 *)
THEOREM FramesAreAccounted == MemorySpec => []FramesAccounted
<1>1. MemoryInv => FramesAccounted
  BY DEF MemoryInv
<1> QED
  BY <1>1, MemoryInvariant, PTL

(* return_frame never gives the allocator a frame that a page table still  *)
(* reaches or that still holds entries.                                    *)
THEOREM UnusedFramesUnreachable == MemorySpec => []UnusedIsUnreachable
<1>1. ASSUME MemoryInv PROVE UnusedIsUnreachable
  <2>1. ControlInv /\ FramesAccounted /\ TablesInv
    BY <1>1 DEF MemoryInv
  <2>2. \A s \in Spaces : \A f \in LedgerFrames(owners[s]) : f \notin Unused
    BY <2>1 DEF FramesAccounted
  <2>3. shared \intersect Unused = {}
    BY <2>1, <2>2, TablesReach
  <2>4. \A e \in entries : e.parent \notin Unused /\ e.child \notin Unused
    BY <2>1, <2>2, TablesReach
  <2> QED
    BY <2>3, <2>4 DEF UnusedIsUnreachable
<1> QED
  BY <1>1, MemoryInvariant, PTL

(* A published space is whole, and no entry leads from one space to the    *)
(* other.                                                                  *)
THEOREM PublishedSpacesAreWhole == MemorySpec => []PublishedIsWhole
<1>1. ASSUME MemoryInv PROVE PublishedIsWhole
  <2>1. ControlInv /\ TablesInv
    BY <1>1 DEF MemoryInv
  <2> QED
    BY <2>1, PublishedHasAll, TablesReach DEF PublishedIsWhole
<1> QED
  BY <1>1, MemoryInvariant, PTL

(* A pair is published as a whole or not at all; when nothing is retained  *)
(* its end leaves the allocator's extents exactly as the pair found them.  *)
THEOREM PairsAreAllOrNothing == MemorySpec => []PairIsAllOrNothing
<1>1. ASSUME MemoryInv PROVE PairIsAllOrNothing
  <2>1. AllocatorInv /\ FramesAccounted /\ PhaseInv
    BY <1>1 DEF MemoryInv, ControlInv
  <2>2. ASSUME phase = "buildFailed", NEW s \in Spaces
        PROVE  /\ ~(owners[s].live /\ owners[s].state \in {"Inactive", "Active"})
               /\ s \notin retained => owners[s].ledger = <<>>
    BY <2>1, <2>2 DEF PhaseInv, IsPublished
  <2>3. ASSUME phase \in {"buildFailed", "done"}, retained = {} PROVE free = managed
    <3>1. owners[1].ledger = <<>> /\ owners[2].ledger = <<>>
      BY <2>1, <2>2, <2>3 DEF PhaseInv, Spaces
    <3>2. LedgerFrames(owners[1]) = {} /\ LedgerFrames(owners[2]) = {}
      BY <3>1 DEF LedgerFrames
    <3>3. PagesIn(free) = PagesIn(managed)
      BY <2>1, <3>2 DEF FramesAccounted, Unused
    <3> QED
      BY <2>1, <3>3, SameTable DEF AllocatorInv
  <2> QED
    BY <2>2, <2>3 DEF PairIsAllOrNothing
<1> QED
  BY <1>1, MemoryInvariant, PTL

(* Where the frames lie: each ledger rises, the first space holds the      *)
(* bottom of the managed pages and the second a run above it, and while a  *)
(* pair is being built every free page lies above both.                    *)
OrderInv ==
    /\ \A s \in Spaces : Rising(owners[s].ledger)
    /\ Placed(LedgerFrames(owners[1]), LedgerFrames(owners[2]), PagesIn(managed))
    /\ call.op = "construct" =>
          \A s \in Spaces : \A f \in LedgerFrames(owners[s]) : \A p \in PagesIn(free) : f < p

(* The frames of the ledgers and the pages of the extents are addresses. *)
LEMMA PlacedTypes ==
    ASSUME AllocatorInv, ControlInv
    PROVE  /\ PagesIn(managed) \in SUBSET Nat /\ PagesIn(free) \in SUBSET Nat
           /\ \A s \in Spaces : owners[s] \in OwnerType /\ LedgerFrames(owners[s]) \in SUBSET Nat
<1>1. \A s \in Spaces : owners[s] \in OwnerType
  BY DEF ControlInv, MemoryTypeOK
<1> QED
  BY <1>1, PagesAreAddresses, LedgerAddresses

(* A step that moves no frame keeps their order. *)
LEMMA OrderKept ==
    ASSUME OrderInv, Keeps
    PROVE  OrderInv'
<1>1. \A s \in Spaces : LedgerFrames(owners'[s]) = LedgerFrames(owners[s])
  BY SameLedger DEF Keeps
<1>2. \A s \in Spaces : Rising(owners'[s].ledger)
  BY DEF OrderInv, Keeps
<1>3. Placed(LedgerFrames(owners'[1]), LedgerFrames(owners'[2]), PagesIn(managed'))
  <2>1. 1 \in Spaces /\ 2 \in Spaces
    BY DEF Spaces
  <2> QED
    BY <1>1, <2>1 DEF OrderInv, Keeps
<1>4. call'.op = "construct" =>
         \A s \in Spaces : \A f \in LedgerFrames(owners'[s]) : \A p \in PagesIn(free') : f < p
  <2>1. CASE call.op = "construct"
    BY <1>1, <2>1 DEF OrderInv, Keeps
  <2>2. CASE \A t \in Spaces : owners[t].ledger = <<>>
    <3>1. \A s \in Spaces : LedgerFrames(owners[s]) = {}
      BY <2>2 DEF LedgerFrames
    <3> QED
      BY <1>1, <3>1
  <2> QED
    BY <2>1, <2>2 DEF Keeps
<1> QED
  BY <1>2, <1>3, <1>4 DEF OrderInv, Rising

(* A taken frame is above all that is held and below all that is free. *)
LEMMA OrderTaken ==
    ASSUME MemoryInv, OrderInv, call.op = "construct", call.space \in Spaces, Takes(call.space)
    PROVE  OrderInv'
<1>1. AllocatorInv /\ ControlInv /\ FramesAccounted
  BY DEF MemoryInv
<1>2. PICK s \in Spaces : s = call.space /\ Takes(s)
  OBVIOUS
<1>3. PICK U, M, frame :
         /\ U \in SUBSET Nat /\ M \in SUBSET Nat
         /\ U = PagesIn(free) /\ M = PagesIn(managed) /\ frame = free[1].start
  BY <1>1, PlacedTypes
<1>4. /\ frame \in U /\ frame \in Nat /\ \A p \in U : frame <= p
      /\ PagesIn(free') = U \ {frame} /\ PagesIn(managed') = M
  BY <1>1, <1>2, <1>3, FirstFree DEF Takes
<1>5. /\ \A t \in Spaces : owners[t] \in OwnerType /\ LedgerFrames(owners[t]) \in SUBSET Nat
      /\ \A t \in Spaces : \A f \in LedgerFrames(owners[t]) : f < frame
  BY <1>1, <1>3, <1>4, PlacedTypes DEF OrderInv
<1>6. Records(owners[s], frame, owners'[s]) /\ \A t \in Spaces : t # s => owners'[t] = owners[t]
  BY <1>2, <1>3 DEF Takes
<1>7. LedgerFrames(owners'[s]) = LedgerFrames(owners[s]) \union {frame}
  BY <1>4, <1>5, <1>6, RecordsFrame, Zenon
<1>8. Rising(owners'[s].ledger)
  BY <1>4, <1>5, <1>6, RecordsOrder DEF OrderInv
<1>9. \A t \in Spaces : Rising(owners'[t].ledger)
  BY <1>6, <1>8 DEF OrderInv
<1>10. PICK A \in SUBSET Nat, B \in SUBSET Nat :
          A = LedgerFrames(owners[1]) /\ B = LedgerFrames(owners[2])
  BY <1>5 DEF Spaces
<1>11. /\ Placed(A, B, M) /\ U \union A \union B = M
       /\ \A f \in A \union B : f < frame
  BY <1>3, <1>5, <1>10 DEF OrderInv, FramesAccounted, MemoryInv, Unused, Spaces
<1>12. Placed(LedgerFrames(owners'[1]), LedgerFrames(owners'[2]), PagesIn(managed'))
  <2>1. CASE s = 1
    <3>1. B = {}
      <4>1. call.step \in BuildingSteps /\ call # Idle
        BY <1>1, <1>2, IdleCall DEF ControlInv, CallInv, CallOK
      <4>2. owners[2].state = "Absent"
        BY <1>1, <1>2, <2>1, <4>1, WhileBuilding
      <4>3. owners[2].ledger = <<>>
        BY <1>1, <4>2 DEF ControlInv, PhaseInv, Spaces
      <4> QED
        BY <1>10, <4>3 DEF LedgerFrames
    <3>2. U \union A = M /\ Placed(A, {}, M)
      BY <1>11, <3>1
    <3>3. Placed(A \union {frame}, {}, M)
      BY <1>3, <1>4, <3>2, PlacedTakeFirst
    <3>4. 2 \in Spaces /\ 2 # s
      BY <2>1 DEF Spaces
    <3>5. LedgerFrames(owners'[2]) = {} /\ LedgerFrames(owners'[1]) = A \union {frame}
      BY <1>6, <1>7, <1>10, <2>1, <3>1, <3>4, Zenon
    <3> QED
      BY <1>4, <3>3, <3>5
  <2>2. CASE s = 2
    <3>1. Placed(A, B \union {frame}, M)
      BY <1>3, <1>4, <1>11, PlacedTakeSecond
    <3>2. LedgerFrames(owners'[1]) = A /\ LedgerFrames(owners'[2]) = B \union {frame}
      BY <1>6, <1>7, <1>10, <2>2 DEF Spaces
    <3> QED
      BY <1>4, <3>1, <3>2
  <2> QED
    BY <2>1, <2>2 DEF Spaces
<1>13. \A t \in Spaces : \A f \in LedgerFrames(owners'[t]) : \A p \in PagesIn(free') : f < p
  <2>1. \A p \in U \ {frame} : frame < p
    BY <1>3, <1>4
  <2>2. \A t \in Spaces : \A f \in LedgerFrames(owners[t]) : \A p \in U : f < p
    BY <1>3 DEF OrderInv
  <2> QED
    BY <1>4, <1>6, <1>7, <2>1, <2>2, ZenonT(30)
<1> QED
  BY <1>9, <1>12, <1>13 DEF OrderInv, Rising

(* A frame given back was the highest of its ledger. *)
LEMMA OrderGiven ==
    ASSUME MemoryInv, OrderInv, call'.op # "construct", call.space \in Spaces, Gives(call.space)
    PROVE  OrderInv'
<1>1. AllocatorInv /\ ControlInv /\ FramesAccounted
  BY DEF MemoryInv
<1>2. PICK s \in Spaces : s = call.space /\ Gives(s)
  OBVIOUS
<1>3. PICK o \in OwnerType : o = owners[s] /\ LedgerFrames(o) \in SUBSET Nat
  BY <1>1, PlacedTypes
<1>4. PICK p : p = owners'[s]
  OBVIOUS
<1>5. /\ o.ledger # <<>> /\ Returns(o, p) /\ PagesIn(managed') = PagesIn(managed)
      /\ \A t \in Spaces : t # s => owners'[t] = owners[t]
  BY <1>2, <1>3, <1>4 DEF Gives
<1>6. \A i, j \in DOMAIN o.ledger : o.ledger[i].frame = o.ledger[j].frame => i = j
  BY <1>1, <1>3 DEF FramesAccounted
<1>7. PICK frame \in Nat : frame = Last(o.ledger).frame
  BY <1>5, <1>6, ReturnsFrame
<1>8. LedgerFrames(p) = LedgerFrames(o) \ {frame}
  BY <1>5, <1>6, <1>7, ReturnsFrame
<1>9. Rising(o.ledger)
  BY <1>3 DEF OrderInv
<1>10. \A f \in LedgerFrames(o) : f <= frame
  BY <1>5, <1>7, <1>9, RisingLast
<1>11. Rising(p.ledger)
  BY <1>5, <1>9, ReturnsOrder
<1>12. \A t \in Spaces : Rising(owners'[t].ledger)
  BY <1>4, <1>5, <1>11 DEF OrderInv
<1>13. Placed(LedgerFrames(owners'[1]), LedgerFrames(owners'[2]), PagesIn(managed'))
  <2>1. PICK A \in SUBSET Nat : A = LedgerFrames(owners[1])
    BY <1>1, PlacedTypes DEF Spaces
  <2>2. PICK B \in SUBSET Nat : B = LedgerFrames(owners[2])
    BY <1>1, PlacedTypes DEF Spaces
  <2>3. PICK M \in SUBSET Nat : M = PagesIn(managed)
    BY <1>1, PlacedTypes
  <2>4. Placed(A, B, M)
    BY <2>1, <2>2, <2>3 DEF OrderInv
  <2>5. CASE s = 1
    <3>1. Placed(A \ {frame}, B, M)
      BY <1>3, <1>10, <2>1, <2>4, <2>5, PlacedGive, ZenonT(30)
    <3>2. 2 \in Spaces /\ 2 # s
      BY <2>5 DEF Spaces
    <3>3. LedgerFrames(owners'[1]) = A \ {frame} /\ LedgerFrames(owners'[2]) = B
      BY <1>3, <1>4, <1>5, <1>8, <2>1, <2>2, <2>5, <3>2, Zenon
    <3> QED
      BY <1>5, <2>3, <3>1, <3>3
  <2>6. CASE s = 2
    <3>1. Placed(A, B \ {frame}, M)
      BY <1>3, <1>10, <2>2, <2>4, <2>6, PlacedGive, ZenonT(30)
    <3>2. 1 \in Spaces /\ 1 # s
      BY <2>6 DEF Spaces
    <3>3. LedgerFrames(owners'[1]) = A /\ LedgerFrames(owners'[2]) = B \ {frame}
      BY <1>3, <1>4, <1>5, <1>8, <2>1, <2>2, <2>6, <3>2, Zenon
    <3> QED
      BY <1>5, <2>3, <3>1, <3>3
  <2> QED
    BY <2>5, <2>6 DEF Spaces
<1> QED
  BY <1>12, <1>13 DEF OrderInv, Rising

(* The ledgers are empty at first. *)
LEMMA OrderStarts ==
    ASSUME MemoryInit
    PROVE  OrderInv
<1>1. owners[1].ledger = <<>> /\ owners[2].ledger = <<>>
  BY SpacesStart DEF MemoryInit
<1>2. \A s \in Spaces : owners[s].ledger = <<>>
  BY <1>1 DEF Spaces
<1>3. \A s \in Spaces : LedgerFrames(owners[s]) = {}
  BY <1>2 DEF LedgerFrames
<1>4. LedgerFrames(owners[1]) = {} /\ LedgerFrames(owners[2]) = {}
  BY <1>3 DEF Spaces
<1>5. \A s \in Spaces : Rising(owners[s].ledger)
  BY <1>2 DEF Rising
<1>6. Placed(LedgerFrames(owners[1]), LedgerFrames(owners[2]), PagesIn(managed))
  BY <1>4 DEF Placed
<1> QED
  BY <1>3, <1>5, <1>6 DEF OrderInv

(* The frames of the two spaces stay in the order construct takes them and *)
(* release_frames gives them back: the first space's frames are the lowest *)
(* managed ones, the second's a run above them, each ledger in rising order. *)
THEOREM OrderInvariant == MemorySpec => []OrderInv
<1>1. MemoryInit => OrderInv
  BY OrderStarts
<1>2. MemoryInv /\ OrderInv /\ [Library \/ Kernel]_memoryVars => OrderInv'
  BY StepEffects, OrderKept, OrderTaken, OrderGiven DEF Effects
<1> QED
  BY <1>1, <1>2, MemoryInvariant, PTL DEF MemorySpec
-----------------------------------------------------------------------------
(***************************************************************************)
(* Every return is accepted.  Frames are taken lowest first, the first     *)
(* space before the second, and a ledger gives them back last first: so    *)
(* the first space holds the lowest managed pages and the second a run of  *)
(* them.  Two runs, one of them at the bottom, split the managed extents   *)
(* into at most one free extent more than there are managed ones.          *)
(***************************************************************************)

(* The held frames are the bottom of the managed pages and one run above. *)
HeldInRuns(A, B) ==
    /\ A \in SUBSET Nat /\ B \in SUBSET Nat
    /\ HeldFrames = A \union B /\ Placed(A, B, PagesIn(managed))

(* The highest frame of a run. *)
Highest(p, run) == p \in run /\ \A f \in run : f <= p

(* A free extent that starts with no managed one follows a held frame,     *)
(* which is the highest of its run.                                        *)
LEMMA FollowsHighest ==
    ASSUME AllocatorInv, NEW A, NEW B, HeldInRuns(A, B),
           NEW i \in 1 .. Len(free),
           ~\E l \in 1 .. Len(managed) : managed[l].start = free[i].start
    PROVE  \E p \in Nat : /\ p + PageSize = free[i].start /\ JoinsRight(p)
                          /\ Highest(p, A) \/ Highest(p, B)
<1>1. PICK p \in HeldFrames : p + PageSize = free[i].start /\ JoinsRight(p)
  BY FreeStarts
<1>2. Canonical(managed) /\ Canonical(free) /\ PagesIn(free) \subseteq PagesIn(managed)
  BY DEF AllocatorInv
<1>3. p \in Nat /\ Aligned(p)
  BY <1>2, TablePages DEF HeldFrames
<1>4. PICK q \in Nat : q = free[i].start /\ q \in PagesIn(free) /\ Aligned(q)
  BY <1>2, StartsArePages
<1>5. p < q
  BY <1>1, <1>3, <1>4, ContractAssumption
<1>6. PICK M \in SUBSET Nat : M = PagesIn(managed) /\ \A f \in M : Aligned(f)
  BY <1>2, TablePages
<1>7. \A f \in M : p < f => q <= f
  BY <1>1, <1>3, <1>4, <1>6, AlignedGap
<1>8. /\ Placed(A, B, M) /\ A \subseteq M /\ B \subseteq M
      /\ q \in M /\ q \notin A /\ q \notin B /\ (p \in A \/ p \in B)
  BY <1>2, <1>4, <1>6 DEF HeldFrames, HeldInRuns
<1>9. A \in SUBSET Nat /\ B \in SUBSET Nat
  BY DEF HeldInRuns
<1>10. Highest(p, A) \/ Highest(p, B)
  BY <1>3, <1>5, <1>7, <1>8, <1>9, HighestBelow DEF Highest
<1> QED
  BY <1>1, <1>3, <1>10, Zenon

(* A held frame that is the highest of its run and joins no extent leaves  *)
(* at most one free extent, after the other run, that starts with no       *)
(* managed one.                                                            *)
LEMMA FreeIsFew ==
    ASSUME AllocatorInv, NEW A, NEW B, HeldInRuns(A, B),
           NEW h \in Nat, ~JoinsRight(h), Highest(h, A) \/ Highest(h, B)
    PROVE  Len(free) <= Len(managed)
<1> DEFINE Starts(i) == \E l \in 1 .. Len(managed) : managed[l].start = free[i].start
<1>1. PICK T \in SUBSET Nat : (T = B /\ Highest(h, A)) \/ (T = A /\ Highest(h, B))
  BY Zenon DEF HeldInRuns
<1>2. ASSUME NEW i \in 1 .. Len(free), ~Starts(i)
      PROVE  \E p \in Nat : p + PageSize = free[i].start /\ Highest(p, T)
  <2>1. PICK p \in Nat : /\ p + PageSize = free[i].start /\ JoinsRight(p)
                         /\ Highest(p, A) \/ Highest(p, B)
    BY <1>2, FollowsHighest, Zenon
  <2>2. p # h
    BY <2>1
  <2>3. Highest(p, T)
    BY <1>1, <2>1, <2>2 DEF Highest, HeldInRuns
  <2> QED
    BY <2>1, <2>3
<1>3. ASSUME NEW i \in 1 .. Len(free), NEW k \in 1 .. Len(free), ~Starts(i), ~Starts(k)
      PROVE  i = k
  <2>1. PICK p \in Nat : p + PageSize = free[i].start /\ Highest(p, T)
    BY <1>2, <1>3
  <2>2. PICK q \in Nat : q + PageSize = free[k].start /\ Highest(q, T)
    BY <1>2, <1>3
  <2>3. p <= q /\ q <= p
    BY <2>1, <2>2, Zenon DEF Highest
  <2>4. free[i].start = free[k].start
    BY <2>1, <2>2, <2>3
  <2> QED
    BY <1>3, <2>4, StartsDiffer DEF AllocatorInv
<1>4. CASE \A i \in 1 .. Len(free) : Starts(i)
  BY <1>4, NoneMoreFree
<1>5. CASE \E i \in 1 .. Len(free) : ~Starts(i)
  <2>1. PICK odd \in 1 .. Len(free) : ~Starts(odd)
    BY <1>5
  <2>2. \A i \in 1 .. Len(free) : i # odd => Starts(i)
    BY <1>3, <2>1, Zenon
  <2>3. A # {}
    BY <1>1, <1>2, <2>1 DEF Highest
  <2>4. A \in SUBSET HeldFrames /\ \A f \in A : \A p \in PagesIn(managed) : p < f => p \in A
    BY Zenon DEF HeldInRuns, Placed
  <2>5. /\ 1 \in 1 .. Len(managed)
        /\ \A i \in 1 .. Len(free) : free[i].start # managed[1].start
    BY <2>3, <2>4, FirstIsTaken
  <2>6. \A i \in 1 .. Len(free) :
           i # odd => \E l \in 1 .. Len(managed) : l # 1 /\ managed[l].start = free[i].start
    BY <2>2, <2>5
  <2>7. odd \in Nat
    OBVIOUS
  <2> QED
    BY <2>5, <2>6, <2>7, OneMoreFree, ZenonT(30)
<1> QED
  BY <1>4, <1>5

(* The allocator takes back every frame teardown and rollback return, in   *)
(* whichever order the tasks exit: one spare slot in the extent table is   *)
(* enough.                                                                 *)
THEOREM ReturnsAreAccepted == MemorySpec => []NoReturnRefused
<1>1. ASSUME MemoryInv, OrderInv PROVE NoReturnRefused
  <2>1. SUFFICES ASSUME call.step = "return", owners[call.space].ledger # <<>>,
                        Len(managed) < MaxExtents
                 PROVE  FreeStatus(LastOwned) = "Ok"
    BY DEF NoReturnRefused
  <2>2. AllocatorInv /\ ControlInv /\ FramesAccounted
    BY <1>1 DEF MemoryInv
  <2>3. PICK s \in Spaces : s = call.space
    BY <2>1, <2>2, WhileUnwinding DEF UnwindingSteps
  <2>4. PICK h \in Nat : /\ h = LastOwned /\ h \in LedgerFrames(owners[s])
                         /\ h \in PagesIn(managed) /\ h = Last(owners[s].ledger).frame
    BY <2>1, <2>2, <2>3, LastIsManaged DEF LastOwned
  <2>5. h \in HeldFrames
    BY <2>2, <2>4 DEF HeldFrames, FramesAccounted, Unused
  <2>6. \A f \in LedgerFrames(owners[s]) : f <= h
    <3>1. owners[s] \in OwnerType /\ Rising(owners[s].ledger)
      BY <1>1, <2>2 DEF ControlInv, MemoryTypeOK, OrderInv
    <3> QED
      BY <2>1, <2>3, <2>4, <3>1, RisingLast
  <2>7. CASE JoinsRight(h)
    BY <2>2, <2>4, <2>5, <2>7, ReturnAccepted
  <2>8. CASE ~JoinsRight(h)
    <3>1. Len(free) <= Len(managed)
      <4>1. PICK A, B : A = LedgerFrames(owners[1]) /\ B = LedgerFrames(owners[2])
        OBVIOUS
      <4>2. A \in SUBSET Nat /\ B \in SUBSET Nat
        BY <2>2, <4>1, PlacedTypes DEF Spaces
      <4>3. HeldFrames = A \union B
        BY <2>2, <4>1 DEF HeldFrames, FramesAccounted, Unused, Spaces
      <4>4. HeldInRuns(A, B)
        BY <1>1, <4>1, <4>2, <4>3 DEF HeldInRuns, OrderInv
      <4>5. Highest(h, A) \/ Highest(h, B)
        BY <2>4, <2>6, <4>1 DEF Highest, Spaces
      <4> QED
        BY <2>2, <2>8, <4>4, <4>5, FreeIsFew
    <3>2. Len(free) \in Nat /\ Len(managed) \in Nat /\ MaxExtents \in Nat
      BY <2>2, TableFacts, ContractAssumption DEF AllocatorInv, MaxExtents
    <3>3. Len(free) # MaxExtents
      BY <2>1, <3>1, <3>2
    <3> QED
      BY <2>2, <2>4, <2>5, <3>3, ReturnAccepted
  <2> QED
    BY <2>7, <2>8
<1> QED
  BY <1>1, MemoryInvariant, OrderInvariant, PTL
=============================================================================

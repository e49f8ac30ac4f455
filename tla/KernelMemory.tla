---------------------------- MODULE KernelMemory ----------------------------
(* The address-space library over the kernel's backend: KernelBackend takes every
   frame from the one frame allocator and returns it there, so a construction can
   run out of frames and a return can meet a full free table.                   *)
EXTENDS AddressSpace, FrameAllocator

CONSTANT Maps       \* the memory maps the kernel may have been handed

ASSUME MapsAssumption == Maps \subseteq Seq(MemoryRegions)

memoryVars == <<spaceVars, frameVars>>

LastOwned == Last(owners[call.space].ledger).frame

-----------------------------------------------------------------------------

\* KernelBackend::allocate_frame.
BackendAllocates ==
    /\ call.step = "allocate"
    /\ AllocateFrame
    /\ IF result'.status = "Ok" THEN ReceiveFrame(result'.frame) ELSE ConstructFails

\* Fault: the error of the allocator is dropped.
BackendReturnsIgnoresError ==
    /\ call.step = "return" /\ owners[call.space].ledger # <<>>
    /\ FreeFrame(LastOwned)
    /\ ReturnFrame

\* KernelBackend::return_frame.
BackendReturns ==
    /\ call.step = "return" /\ owners[call.space].ledger # <<>>
    /\ FreeFrame(LastOwned)
    /\ IF result'.status = "Ok" THEN ReturnFrame ELSE UnwindFails

\* The calls that only touch page tables and the temporary window.
BackendMaps ==
    /\ call.step # "allocate"
    /\ call.step = "return" => owners[call.space].ledger = <<>>
    /\ \/ PrepareFrame \/ InstallLink \/ Publish \/ ConstructFails
       \/ RemoveLink \/ ClearSharedEntries \/ ClearTemporaryWindow \/ VerifyUnreachable
       \/ FinishUnwinding \/ UnwindFails
    /\ UNCHANGED frameVars

Kernel ==
    /\ NextPair \/ Halt \/ \E s \in Spaces : ResumeTask(s) \/ Trap(s) \/ ExitTrap(s)
    /\ UNCHANGED frameVars

\* kernel_entry has initialized the allocator with a map the handoff check accepted.
MemoryInit ==
    /\ SpaceInit
    /\ map \in Maps /\ MapStatus(map) = "Ok"
    /\ managed = UsableExtents(map) /\ free = managed
    /\ result = Returned("initialize", "Ok", 0)

Library == BackendAllocates \/ BackendReturns \/ BackendMaps

\* A call into the library runs to its end: nothing preempts the kernel.
MemorySpec ==
    MemoryInit /\ [][Library \/ Kernel]_memoryVars /\ WF_memoryVars(Library)

-----------------------------------------------------------------------------
(* Properties *)

Unused == PagesIn(free)

\* No frame is lost and none has two owners: through construction, every
\* rollback and teardown, and every refused backend call, a managed frame is in
\* the allocator's free extents or in exactly one ledger, once.
FramesAccounted ==
    /\ Unused \union LedgerFrames(owners[1]) \union LedgerFrames(owners[2]) = PagesIn(managed)
    /\ LedgerFrames(owners[1]) \intersect LedgerFrames(owners[2]) = {}
    /\ \A s \in Spaces :
          /\ LedgerFrames(owners[s]) \intersect Unused = {}
          /\ \A i, j \in DOMAIN owners[s].ledger :
                owners[s].ledger[i].frame = owners[s].ledger[j].frame => i = j

\* return_frame never hands the allocator a frame that a page table still reaches,
\* or that still holds entries: what is unused is neither end of any entry.
UnusedIsUnreachable ==
    /\ shared \intersect Unused = {}
    /\ \A e \in entries : e.parent \notin Unused /\ e.child \notin Unused

\* A published owner is whole, and isolated: its root is its ledger's, all its
\* links are present, and no entry leads from one space's frames to the other's.
PublishedIsWhole ==
    /\ \A s \in Spaces :
          owners[s].live /\ owners[s].state \in {"Inactive", "Active"} =>
              /\ Len(owners[s].ledger) = Len(Roles)
              /\ owners[s].root = FrameFor(owners[s], "Root") /\ owners[s].root \in shared
              /\ \A k \in DOMAIN BuildLinks : Entry(owners[s], k) \in entries
    /\ \A e \in entries :
          \E s \in Spaces : {e.parent, e.child} \subseteq LedgerFrames(owners[s])

\* construct_address_space_pair publishes neither space unless both were built.
\* A failure whose unwinding reported no error, and the end of a stage, leave the
\* allocator's extent table exactly as the pair found it: nothing accumulates from
\* one stage to the next.
PairIsAllOrNothing ==
    /\ phase = "buildFailed" =>
          \A s \in Spaces :
              /\ ~(owners[s].live /\ owners[s].state \in {"Inactive", "Active"})
              /\ s \notin retained => owners[s].ledger = <<>>
    /\ phase \in {"buildFailed", "done"} /\ retained = {} => free = managed

\* The allocator takes back every frame teardown and rollback return, in whichever
\* order the tasks exit: one spare slot in the extent table is enough, although a
\* return may split a free extent in two. A handoff always leaves one, since the
\* kernel and the loader's own pages are regions that are not usable.
NoReturnRefused ==
    call.step = "return" /\ owners[call.space].ledger # <<>>
        /\ Len(managed) < MaxExtents =>
        FreeStatus(LastOwned) = "Ok"

\* Every construction, rollback and teardown ends, with a usable pair, with both
\* spaces gone or with a reported failure, whichever backend calls are refused.
CallEnds == (call # Idle) ~> (call = Idle)
=============================================================================

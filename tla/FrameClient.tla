----------------------------- MODULE FrameClient -----------------------------
(* The frame allocator under any client: it is initialized once, after that
   frames are taken and any address is handed back, in any order.             *)
EXTENDS FrameAllocator

CONSTANT Offered    \* the memory maps initialize may be called with

ASSUME OfferedAssumption == Offered \subseteq Seq(MemoryRegions)

FrameNext ==
    \/ map = <<>> /\ \E regions \in Offered : Initialize(regions)
    \/ AllocateFrame
    \/ \E frame \in 0..AddressMax : FreeFrame(frame)

FrameSpec == FrameInit /\ [][FrameNext]_frameVars

-----------------------------------------------------------------------------
(* Properties *)

\* Fragmentation never wedges the allocator: while any frame is held, free_frame
\* accepts at least one of the held frames, because the managed extents of an
\* accepted map already fit the free table.
SomeHeldFrameReturns ==
    HeldFrames # {} => \E frame \in HeldFrames : FreeStatus(frame) = "Ok"

Pool == INSTANCE FramePool WITH
            Frames <- {frame \in 0..AddressMax : frame % PageSize = 0},
            unused <- PagesIn(free),
            held <- HeldFrames,
            answer <- IF result.call = "allocate" /\ result.status = "Ok"
                      THEN {result.frame} ELSE {}

\* The extent tables implement a pool of frames: each allocate_frame hands out
\* the lowest frame nobody holds and returns its address, each accepted
\* free_frame takes back a held one, and a refused call of either leaves every
\* frame where it was.
ImplementsPool == Pool!PoolSpec
=============================================================================

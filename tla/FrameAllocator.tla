--------------------------- MODULE FrameAllocator ---------------------------
(* The bounded physical frame allocator: two tables of extents, the managed
   ranges copied from the boot memory map and the free ones among them.         *)
EXTENDS BootContract, Tables

MaxExtents == MaxRegions    \* MAX_FRAME_EXTENTS

VARIABLES
    managed, free,  \* managed[..managed_len], free[..free_len]
    map,            \* history: the accepted memory map
    result          \* what the last call returned

frameVars == <<managed, free, map, result>>

Returned(call, status, frame) == [call |-> call, status |-> status, frame |-> frame]

Extent(start, pages) == [start |-> start, pages |-> pages]

ContainsFrame(e, frame) ==
    ~Overflows(End(e)) /\ e.start <= frame /\ frame + PageSize <= End(e)

-----------------------------------------------------------------------------
(* initialize *)

\* MemoryRegionV1 as it arrives, before any check.
MemoryRegions ==
    [start : 0..AddressMax, pages : 0..AddressMax, kind : STRING, attributes : Nat]

OpensExtent(regions, i) ==
    /\ regions[i].kind = "usable"
    /\ \/ i = 1
       \/ regions[i - 1].kind # "usable"
       \/ End(regions[i - 1]) # regions[i].start

ExtentCount(regions, i) == Quantify(1..i, LAMBDA j : OpensExtent(regions, j))

\* Fault: one extent too many is accepted.
RegionStatusOneTooMany(regions, i) ==
    LET region == regions[i] IN
    FirstFailure(<< <<region.pages = 0, "ZeroPages">>,
                    <<region.start % PageSize # 0, "Unaligned">>,
                    <<region.kind \notin MemoryKinds, "UnknownKind">>,
                    <<region.attributes # 0, "Attributes">>,
                    <<Overflows(End(region)), "RangeOverflow">>,
                    <<i > 1 /\ region.start < regions[i - 1].start, "OutOfOrder">>,
                    <<i > 1 /\ region.start < End(regions[i - 1]), "Overlap">>,
                    <<ExtentCount(regions, i) > MaxExtents + 1, "CapacityExceeded">> >>)

RegionStatus(regions, i) ==
    LET region == regions[i] IN
    FirstFailure(<< <<region.pages = 0, "ZeroPages">>,
                    <<region.start % PageSize # 0, "Unaligned">>,
                    <<region.kind \notin MemoryKinds, "UnknownKind">>,
                    <<region.attributes # 0, "Attributes">>,
                    <<Overflows(End(region)), "RangeOverflow">>,
                    <<i > 1 /\ region.start < regions[i - 1].start, "OutOfOrder">>,
                    <<i > 1 /\ region.start < End(regions[i - 1]), "Overlap">>,
                    <<ExtentCount(regions, i) > MaxExtents, "CapacityExceeded">> >>)

MapStatus(regions) == FirstFailing(regions, LAMBDA i : RegionStatus(regions, i))

AddRegion(extents, region) ==
    CASE region.kind # "usable" -> extents
      [] region.kind = "usable" /\ extents # <<>> /\ End(Last(extents)) = region.start ->
           [extents EXCEPT ![Len(extents)].pages = @ + region.pages]
      [] OTHER -> Append(extents, Extent(region.start, region.pages))

\* The loop over the accepted regions.
UsableExtents(regions) ==
    LET upto[n \in 0..Len(regions)] ==
            IF n = 0 THEN <<>> ELSE AddRegion(upto[n - 1], regions[n])
    IN  upto[Len(regions)]

\* kernel_entry initializes its one allocator once, before any other call.
Initialize(regions) ==
    /\ map = <<>>
    /\ result' = Returned("initialize", MapStatus(regions), 0)
    /\ IF MapStatus(regions) = "Ok"
       THEN /\ map' = regions
            /\ managed' = UsableExtents(regions)
            /\ free' = managed'
       ELSE UNCHANGED <<managed, free, map>>

-----------------------------------------------------------------------------
(* allocate_frame and free_frame *)

AllocateStatus ==
    FirstFailure(<< <<free = <<>>, "Exhausted">>,
                    <<free # <<>> /\ free[1].pages # 1 /\ Overflows(free[1].start + PageSize),
                      "InvariantOverflow">> >>)

\* Fault: the frame is taken from the last free extent.
AllocateFrameFromLast ==
    /\ UNCHANGED <<managed, map>>
    /\ IF AllocateStatus # "Ok"
       THEN result' = Returned("allocate", AllocateStatus, 0) /\ UNCHANGED free
       ELSE /\ result' = Returned("allocate", "Ok", Last(free).start)
            /\ free' = IF Last(free).pages = 1
                       THEN Front(free)
                       ELSE [free EXCEPT ![Len(free)] = Extent(@.start + PageSize, @.pages - 1)]

AllocateFrame ==
    /\ UNCHANGED <<managed, map>>
    /\ IF AllocateStatus # "Ok"
       THEN result' = Returned("allocate", AllocateStatus, 0) /\ UNCHANGED free
       ELSE /\ result' = Returned("allocate", "Ok", free[1].start)
            /\ free' = IF free[1].pages = 1
                       THEN Tail(free)
                       ELSE [free EXCEPT ![1] = Extent(@.start + PageSize, @.pages - 1)]

\* How many free extents the loop passes before it stops.
Insertion(frame) ==
    Quantify(DOMAIN free, LAMBDA i : \A j \in 1..i : free[j].start < frame)

JoinsLeft(frame) ==
    Insertion(frame) > 0 /\ End(free[Insertion(frame)]) = frame

JoinsRight(frame) ==
    Insertion(frame) < Len(free) /\ free[Insertion(frame) + 1].start = frame + PageSize

MergedPages(frame) ==
    1 + (IF JoinsLeft(frame) THEN free[Insertion(frame)].pages ELSE 0)
      + (IF JoinsRight(frame) THEN free[Insertion(frame) + 1].pages ELSE 0)

\* Fault: the last slot of the free table is never used.
FreeStatusOneSlotShort(frame) ==
    LET at == Insertion(frame) IN
    FirstFailure(<< <<frame % PageSize # 0, "Unaligned">>,
                    <<Overflows(frame + PageSize), "AddressOverflow">>,
                    <<\A i \in DOMAIN managed : ~ContainsFrame(managed[i], frame), "Unmanaged">>,
                    <<\E i \in 1..(at + 1) \intersect DOMAIN free : ContainsFrame(free[i], frame),
                      "Duplicate">>,
                    <<at > 0 /\ Overflows(End(free[at])), "AddressOverflow">>,
                    <<Overflows(MergedPages(frame)), "AddressOverflow">>,
                    <<~JoinsLeft(frame) /\ ~JoinsRight(frame) /\ Len(free) >= MaxExtents - 1,
                      "CapacityExceeded">> >>)

FreeStatus(frame) ==
    LET at == Insertion(frame) IN
    FirstFailure(<< <<frame % PageSize # 0, "Unaligned">>,
                    <<Overflows(frame + PageSize), "AddressOverflow">>,
                    <<\A i \in DOMAIN managed : ~ContainsFrame(managed[i], frame), "Unmanaged">>,
                    <<\E i \in 1..(at + 1) \intersect DOMAIN free : ContainsFrame(free[i], frame),
                      "Duplicate">>,
                    <<at > 0 /\ Overflows(End(free[at])), "AddressOverflow">>,
                    <<Overflows(MergedPages(frame)), "AddressOverflow">>,
                    <<~JoinsLeft(frame) /\ ~JoinsRight(frame) /\ Len(free) = MaxExtents,
                      "CapacityExceeded">> >>)

FreeFrame(frame) ==
    LET at     == Insertion(frame)
        pages  == MergedPages(frame)
    IN  /\ UNCHANGED <<managed, map>>
        /\ result' = Returned("free", FreeStatus(frame), frame)
        /\ free' =
             CASE FreeStatus(frame) # "Ok" -> free
               [] FreeStatus(frame) = "Ok" /\ JoinsLeft(frame) /\ JoinsRight(frame) ->
                    RemoveAt([free EXCEPT ![at].pages = pages], at + 1)
               [] FreeStatus(frame) = "Ok" /\ JoinsLeft(frame) /\ ~JoinsRight(frame) ->
                    [free EXCEPT ![at].pages = pages]
               [] FreeStatus(frame) = "Ok" /\ ~JoinsLeft(frame) /\ JoinsRight(frame) ->
                    [free EXCEPT ![at + 1] = Extent(frame, pages)]
               [] OTHER -> InsertAt(free, at + 1, Extent(frame, 1))

-----------------------------------------------------------------------------

FrameInit ==
    managed = <<>> /\ free = <<>> /\ map = <<>> /\ result = Returned("new", "Ok", 0)

-----------------------------------------------------------------------------
(* Properties *)

HeldFrames == PagesIn(managed) \ PagesIn(free)
=============================================================================

-------------------------------- MODULE Boot --------------------------------
(* From the firmware to the first allocated frame: the UEFI loader reads, checks
   and places the kernel, describes memory to it and enters it; the kernel checks
   the handoff, gives its frame allocator the usable memory and probes it.
   The firmware is outside the repository: it lists its pages truthfully, refuses
   what it cannot allocate, and never hands out page zero or the framebuffer.   *)
EXTENDS Normalizer, KernelImage, FrameAllocator, TLC

CONSTANTS
    Memories, Images, Displays,     \* the machines and kernel files considered
    MaxImageSize                    \* MAX_KERNEL_IMAGE_SIZE

VARIABLES
    stage,              \* the next statement of the loader or the kernel, or how it ended
    image, display,     \* the kernel file; what the graphics protocol reports
    memory,             \* firmware: the type of each page
    contents,           \* what was last written to each page
    loaded,             \* how many segments are in place
    replacements,       \* the loader's override table
    framebuffer, handoffAt, regionsAt,
    probe               \* the frames the kernel's probe was given

machineVars == <<image, display>>

loaderVars == <<memory, contents, loaded, replacements, framebuffer, handoffAt, regionsAt>>

bootVars == <<stage, machineVars, loaderVars, probe, normalizerVars, frameVars>>

RegionStoragePages == (MaxRegions + PageSize - 1) \div PageSize

PageOf(address) == (address \div PageSize) * PageSize

DisplayPages == {page \in Pages : PageOf(display.start) <= page
                                    /\ page < display.start + display.bytes}

Available(pages) == pages \subseteq {page \in Pages : memory[page] = "conventional"}

Take(pages) == memory' = [page \in Pages |-> IF page \in pages THEN "loaderData" ELSE memory[page]]

Write(pages, what) == contents' = [page \in Pages |-> IF page \in pages THEN what ELSE contents[page]]

BootInit ==
    /\ stage = "read"
    /\ image \in Images /\ display \in Displays /\ memory \in Memories
    /\ contents = [page \in Pages |-> <<"other">>]
    /\ loaded = 0 /\ replacements = <<>> /\ framebuffer = NoFramebuffer
    /\ handoffAt = 0 /\ regionsAt = 0 /\ probe = <<>>
    /\ NormalizerInit /\ FrameInit

\* The loader returns a status to the firmware; nothing it allocated is undone.
ReturnStatus == stage' = "returned" /\ UNCHANGED <<loaderVars, normalizerVars>>

-----------------------------------------------------------------------------
(* load_and_enter_kernel; each step leaves machineVars, probe and frameVars alone *)

\* collect_kernel_overrides
KernelOverrides ==
    [i \in DOMAIN Segments(image) |->
        [start |-> Segments(image)[i].start, pages |-> PageCount(Segments(image)[i]),
         kind |-> "reserved", required |-> TRUE]]

ReadKernel ==
    /\ stage = "read"
    /\ IF image.size \notin 1..MaxImageSize \/ ImageStatus(image) # "Ok"
       THEN ReturnStatus
       ELSE /\ replacements' = KernelOverrides /\ stage' = "load"
            /\ UNCHANGED <<memory, contents, loaded, framebuffer, handoffAt, regionsAt,
                           normalizerVars>>

\* Fault: the segments are filled in without reserving their pages.
LoadSegmentUnreserved ==
    /\ stage = "load" /\ loaded < Len(Segments(image))
    /\ Write(SegmentPages(Segments(image)[loaded + 1]), <<"segment", loaded + 1>>)
    /\ loaded' = loaded + 1
    /\ UNCHANGED <<memory, stage, replacements, framebuffer, handoffAt, regionsAt, normalizerVars>>

\* load_segments: the pages are taken at their address, zeroed and filled.
LoadSegment ==
    /\ stage = "load" /\ loaded < Len(Segments(image))
    /\ LET pages == SegmentPages(Segments(image)[loaded + 1]) IN
       IF ~Available(pages)
       THEN ReturnStatus
       ELSE /\ Take(pages) /\ Write(pages, <<"segment", loaded + 1>>)
            /\ loaded' = loaded + 1
            /\ UNCHANGED <<stage, replacements, framebuffer, handoffAt, regionsAt, normalizerVars>>

\* capture_framebuffer: no usable display is not an error, a broken one is.
DisplayBroken ==
    \/ display.width = 0 \/ display.height = 0 \/ display.stride < display.width
    \/ display.start = 0 \/ display.bytes < display.stride * display.height
    \/ Overflows(display.start + display.bytes)

\* Fault: the end of the framebuffer is rounded down.
FramebufferEndTruncated == PageOf(display.start + display.bytes)

\* add_framebuffer_override: from the page of the first byte past the page of the last.
FramebufferEnd == PageOf(display.start + display.bytes + PageSize - 1)

FramebufferOverride ==
    [start |-> PageOf(display.start), kind |-> "mmio", required |-> FALSE,
     pages |-> (FramebufferEnd - PageOf(display.start)) \div PageSize]

\* Fault: the overrides stay in the order of the program headers.
SortedNot(table) == table

Sorted(table) == SortSeq(table, LAMBDA left, right : left.start < right.start)

CaptureFramebuffer ==
    /\ stage = "load" /\ loaded = Len(Segments(image))
    /\ IF ~display.linear
       THEN /\ stage' = "handoff" /\ replacements' = Sorted(replacements)
            /\ UNCHANGED framebuffer
       ELSE IF DisplayBroken \/ Overflows(display.start + display.bytes + PageSize - 1)
       THEN stage' = "returned" /\ UNCHANGED <<replacements, framebuffer>>
       ELSE /\ stage' = "handoff"
            /\ replacements' = Sorted(Append(replacements, FramebufferOverride))
            /\ framebuffer' = [start |-> display.start, bytes |-> display.bytes,
                               height |-> display.height, width |-> display.width,
                               stride |-> display.stride]
    /\ UNCHANGED <<memory, contents, loaded, handoffAt, regionsAt, normalizerVars>>

\* allocate_loader_pages: the firmware picks the pages, or has none.
RunsOf(count) ==
    {start \in Pages \ {0} :
        LET run == {start + k * PageSize : k \in 0..(count - 1)}
        IN  run \subseteq Pages \ DisplayPages /\ Available(run)}

AllocateHandoff ==
    /\ stage = "handoff"
    /\ \/ RunsOf(1) = {} /\ ReturnStatus
       \/ \E start \in RunsOf(1) :
             /\ handoffAt' = start /\ stage' = "regions"
             /\ Take({start})
             /\ UNCHANGED <<contents, loaded, replacements, framebuffer, regionsAt, normalizerVars>>

RegionStorage(start) == PagesOf([start |-> start, pages |-> RegionStoragePages])

\* The pages of the array of MaxRegions records the storage is used as.
RegionArray(start) == {page \in Pages : start <= page /\ page < start + MaxRegions}

AllocateRegions ==
    /\ stage = "regions"
    /\ \/ RunsOf(RegionStoragePages) = {} /\ ReturnStatus
       \/ \E start \in RunsOf(RegionStoragePages) :
             /\ regionsAt' = start /\ stage' = "exit"
             /\ Take(RegionStorage(start))
             /\ UNCHANGED <<contents, loaded, replacements, framebuffer, handoffAt, normalizerVars>>

\* Fault: the firmware's own pages are free as soon as it has gone.
MemoryKindReclaims ==
    [conventional |-> "usable", loaderData |-> "loader", bootServices |-> "usable",
     acpiReclaim |-> "acpi", acpiNonVolatile |-> "nvs", mmio |-> "mmio", runtime |-> "reserved"]

MemoryKind ==
    [conventional |-> "usable", loaderData |-> "loader", bootServices |-> "loader",
     acpiReclaim |-> "acpi", acpiNonVolatile |-> "nvs", mmio |-> "mmio", runtime |-> "reserved"]

\* The firmware's sorted memory map: page by page, or in runs of one type.
Descriptors(split) ==
    LET listed == {page \in Pages : memory[page] # "absent"}
        starts == {page \in listed : split \/ page = 0 \/ memory[page - PageSize] # memory[page]}
        run(start) == {page \in listed : start <= page /\ ~\E other \in starts :
                                            start < other /\ other <= page}
        nth(i) == CHOOSE start \in starts : Quantify(starts, LAMBDA other : other < start) = i - 1
    IN  [i \in 1..Cardinality(starts) |->
           Region(nth(i), Cardinality(run(nth(i))), MemoryKind[memory[nth(i)]])]

\* The region array is zeroed before the map is normalized into it.
ExitBootServices ==
    /\ stage = "exit"
    /\ \E split \in BOOLEAN : Normalize(Descriptors(split), replacements, MaxRegions)
    /\ Write(RegionStorage(regionsAt) \union RegionArray(regionsAt), <<"regions">>)
    /\ stage' = "normalize"
    /\ UNCHANGED <<memory, loaded, replacements, framebuffer, handoffAt, regionsAt>>

NormalizeMap ==
    /\ stage = "normalize" /\ NormalizerStep
    /\ UNCHANGED <<stage, loaderVars>>

\* After ExitBootServices there is nobody to return to: post_exit_failure halts.
EnterKernel ==
    /\ stage = "normalize" /\ status \notin Running
    /\ IF status = "Ok"
       THEN stage' = "validate" /\ Write({handoffAt}, <<"handoff">>)
       ELSE stage' = "halted" /\ UNCHANGED contents
    /\ UNCHANGED <<memory, loaded, replacements, framebuffer, handoffAt, regionsAt, normalizerVars>>

LoaderStep ==
    /\ \/ ReadKernel \/ LoadSegment \/ CaptureFramebuffer
       \/ AllocateHandoff \/ AllocateRegions \/ ExitBootServices
       \/ NormalizeMap \/ EnterKernel
    /\ UNCHANGED <<machineVars, probe, frameVars>>

-----------------------------------------------------------------------------
(* kernel_entry *)

Handoff ==
    [version |-> "v1", hasFramebuffer |-> framebuffer # NoFramebuffer, framebuffer |-> framebuffer,
     regions |-> regionsAt, count |-> Len(output)]

Proceed(ok, next) == stage' = IF ok THEN next ELSE "kernelFailed"

ValidateHandoff ==
    /\ stage = "validate"
    /\ Proceed(handoffAt # 0 /\ HandoffStatus(Handoff, handoffAt, output) = "Ok", "initialize")
    /\ UNCHANGED <<probe, frameVars>>

InitializeFrames ==
    /\ stage = "initialize" /\ Initialize(output)
    /\ Proceed(result'.status = "Ok", "probe")
    /\ UNCHANGED probe

\* The probe takes two frames, returns the first, is given it again, and returns both.
ProbeTakes ==
    /\ stage = "probe" /\ AllocateFrame
    /\ probe' = Append(probe, result'.frame)
    /\ Proceed(/\ result'.status = "Ok"
               /\ Len(probe) = 1 => result'.frame # probe[1]
               /\ Len(probe) = 2 => result'.frame = probe[1],
               IF probe = <<>> THEN "probe" ELSE "recycle")

ProbeReturns ==
    LET frame == IF stage = "recycle" /\ Len(probe) = 3 THEN probe[2] ELSE probe[1] IN
    /\ stage \in {"recycle", "restore"} /\ FreeFrame(frame)
    /\ Proceed(result'.status = "Ok",
               CASE stage = "recycle" /\ Len(probe) = 2 -> "probe"
                 [] stage = "recycle" /\ Len(probe) = 3 -> "restore"
                 [] OTHER -> "ready")
    /\ UNCHANGED probe

KernelStep ==
    /\ ValidateHandoff \/ InitializeFrames \/ ProbeTakes \/ ProbeReturns
    /\ UNCHANGED <<machineVars, loaderVars, normalizerVars>>

Ended == stage \in {"returned", "halted", "kernelFailed", "ready"}

BootNext == LoaderStep \/ KernelStep \/ (Ended /\ UNCHANGED bootVars)

BootSpec == BootInit /\ [][BootNext]_bootVars

-----------------------------------------------------------------------------
(* Properties *)

ImagePages == UNION {SegmentPages(Segments(image)[i]) : i \in DOMAIN Segments(image)}

FramebufferPages == IF framebuffer = NoFramebuffer THEN {} ELSE DisplayPages

Entered == stage \in {"validate", "initialize", "probe", "recycle", "restore", "ready", "kernelFailed"}

\* The kernel finds what the loader put in memory: no segment was zeroed or
\* overwritten by a later segment, the region array or the handoff, although the
\* image checks compare byte ranges and the loader clears whole pages.
LoadedWhole ==
    Entered =>
        /\ \A i \in DOMAIN Segments(image) :
              \A page \in SegmentPages(Segments(image)[i]) : contents[page] = <<"segment", i>>
        /\ contents[handoffAt] = <<"handoff">>
        /\ \A page \in RegionArray(regionsAt) : contents[page] = <<"regions">>

\* The kernel accepts whatever handoff its own loader builds, its allocator accepts
\* the map, and its probe finds room to give every frame back: it stops only on a
\* machine with fewer than two usable frames.
KernelAcceptsLoader ==
    stage = "kernelFailed" => map # <<>> /\ Cardinality(PagesIn(managed)) < 2

\* Past ExitBootServices an error can only halt the machine. With an image the
\* parser accepted, the sorted overrides are always a table the normalizer takes
\* and the map always covers them: it halts only when the merged map has too many
\* regions, or the display lies over the kernel.
HaltsOnlyForCause ==
    stage = "halted" =>
        \/ status = "CapacityExceeded"
        \/ status = "OverrideOverlap" /\ ImagePages \intersect FramebufferPages # {}

\* What the allocator hands out is exactly the memory the firmware calls free at
\* the end: nothing of the kernel image, the handoff, the region array or the
\* framebuffer, and no free page is lost on the way.
ManagedIsSpare ==
    map # <<>> =>
        /\ PagesIn(managed) = {page \in Pages : memory[page] = "conventional"} \ FramebufferPages
        /\ PagesIn(managed)
             \intersect (ImagePages \union {handoffAt} \union RegionArray(regionsAt)) = {}
=============================================================================

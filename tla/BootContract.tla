---------------------------- MODULE BootContract ----------------------------
(* What the loader and the kernel agree on: physical memory regions, their kinds,
   and the handoff record the kernel accepts. Addresses are the bytes
   0..AddressMax, AddressMax standing for u64::MAX, so that misaligned addresses
   and ends past the last address remain.                                       *)
EXTENDS Checks

CONSTANTS
    PageSize,       \* PAGE_SIZE
    AddressMax,     \* u64::MAX
    MaxRegions      \* MAX_MEMORY_REGIONS

ASSUME ContractAssumption ==
    PageSize \in Nat \ {0} /\ AddressMax \in Nat /\ MaxRegions \in Nat \ {0}

MemoryKinds == {"reserved", "usable", "loader", "acpi", "nvs", "mmio"}

Overflows(n) == n > AddressMax

End(region) == region.start + region.pages * PageSize

PagesOf(region) == {region.start + k * PageSize : k \in 0..(region.pages - 1)}

PagesIn(regions) == UNION {PagesOf(regions[i]) : i \in DOMAIN regions}

-----------------------------------------------------------------------------
(* validate_handoff. The header words and entry size that BootHandoffHeaderV1::new
   fixes are one version; the handoff and a region each fill one byte.            *)

NoFramebuffer == [start |-> 0, bytes |-> 0, height |-> 0, width |-> 0, stride |-> 0]

FramebufferStatus(handoff) ==
    LET fb == handoff.framebuffer IN
    IF ~handoff.hasFramebuffer
    THEN IF fb = NoFramebuffer THEN "Ok" ELSE "FramebufferFlag"
    ELSE FirstFailure(<< <<0 \in {fb.start, fb.bytes, fb.width, fb.height, fb.stride},
                           "FramebufferFields">>,
                         <<fb.stride < fb.width, "FramebufferStride">>,
                         <<Overflows(fb.stride * fb.height), "FramebufferOverflow">>,
                         <<fb.stride * fb.height > fb.bytes, "FramebufferLength">>,
                         <<Overflows(fb.start + fb.bytes), "FramebufferOverflow">> >>)

\* validate_header: magic, version, sizes, flags and reserved word.
HeaderValid(handoff) == handoff.version = "v1"

HandoffHeaderStatus(handoff) ==
    LET shape == FramebufferStatus(handoff) IN
    FirstFailure(<< <<~HeaderValid(handoff), "Header">>,
                    <<handoff.count \notin 1..MaxRegions, "RegionCount">>,
                    <<handoff.regions = 0, "RegionAddress">>,
                    <<Overflows(handoff.regions + handoff.count), "RegionOverflow">>,
                    <<shape # "Ok", shape>> >>)

HandoffRegionStatus(regions, i) ==
    LET region == regions[i] IN
    FirstFailure(<< <<region.pages = 0, "RegionZeroPages">>,
                    <<region.start % PageSize # 0, "RegionAlignment">>,
                    <<region.kind \notin MemoryKinds, "RegionKind">>,
                    <<region.attributes # 0, "RegionAttributes">>,
                    <<Overflows(End(region)), "RegionOverflow">>,
                    <<i > 1 /\ region.start < regions[i - 1].start, "RegionOrder">>,
                    <<i > 1 /\ region.start < End(regions[i - 1]), "RegionOverlap">> >>)

OverlapsUsable(start, end, regions) ==
    \E i \in DOMAIN regions :
        regions[i].kind = "usable" /\ start < End(regions[i]) /\ regions[i].start < end

HandoffStatus(handoff, address, regions) ==
    LET header == HandoffHeaderStatus(handoff)
        listed == FirstFailing(regions, LAMBDA i : HandoffRegionStatus(regions, i))
        fb     == handoff.framebuffer
    IN  FirstFailure(<< <<header # "Ok", header>>,
                        <<address = 0 \/ Overflows(address + 1), "HandoffAddress">>,
                        <<Len(regions) # handoff.count, "RegionSlice">>,
                        <<listed # "Ok", listed>>,
                        <<OverlapsUsable(address, address + 1, regions), "HandoffInUsableMemory">>,
                        <<OverlapsUsable(handoff.regions, handoff.regions + handoff.count, regions),
                          "RegionArrayInUsableMemory">>,
                        <<handoff.hasFramebuffer
                            /\ OverlapsUsable(fb.start, fb.start + fb.bytes, regions),
                          "FramebufferInUsableMemory">> >>)
=============================================================================

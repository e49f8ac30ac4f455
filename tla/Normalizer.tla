----------------------------- MODULE Normalizer -----------------------------
(* normalize_memory_regions: one pass over the firmware's memory map, in which
   override ranges replace the kinds of the pages they cover. A step is one
   iteration of the loop over sources or of the loop over overrides within it. *)
EXTENDS BootContract, Tables

VARIABLES
    sources, overrides,     \* the arguments
    room,                   \* output.len()
    output,                 \* writer.output[..writer.len]
    taken,                  \* how many sources the outer loop has begun
    overrideIndex, cursor,
    status                  \* where the call is, or what it returned

Seqs == INSTANCE SequencesExt

normalizerVars == <<sources, overrides, room, output, taken, overrideIndex, cursor, status>>

Running == {"sources", "overrides", "tail"}

Region(start, pages, kind) == [start |-> start, pages |-> pages, kind |-> kind, attributes |-> 0]

RegionEndStatus(start, pages) ==
    FirstFailure(<< <<pages = 0, "ZeroPages">>,
                    <<start % PageSize # 0, "UnalignedStart">>,
                    <<Overflows(pages * PageSize) \/ Overflows(start + pages * PageSize),
                      "RangeOverflow">> >>)

CheckedRegionEnd(region) ==
    IF region.kind \notin MemoryKinds THEN "UnknownKind"
    ELSE RegionEndStatus(region.start, region.pages)

OverrideStatus(table, i) ==
    LET end == CheckedRegionEnd(table[i]) IN
    FirstFailure(<< <<end # "Ok", end>>,
                    <<i > 1 /\ table[i].start < table[i - 1].start, "OverrideOutOfOrder">>,
                    <<i > 1 /\ table[i].start < End(table[i - 1]), "OverrideOverlap">> >>)

\* Fault: regions of one kind are merged over a gap.
EmitOverGap(regions, start, end, kind) ==
    LET pages == (end - start) \div PageSize IN
    IF start = end THEN regions
    ELSE IF regions # <<>> /\ Last(regions).kind = kind
    THEN [regions EXCEPT ![Len(regions)].pages = @ + pages]
    ELSE Append(regions, Region(start, pages, kind))

\* RegionWriter::emit, before its capacity check.
Emit(regions, start, end, kind) ==
    LET pages == (end - start) \div PageSize IN
    IF start = end THEN regions
    ELSE IF regions # <<>> /\ Last(regions).kind = kind /\ End(Last(regions)) = start
    THEN [regions EXCEPT ![Len(regions)].pages = @ + pages]
    ELSE Append(regions, Region(start, pages, kind))

\* A region that does not fit stops the call; what follows if all of them do.
Written(regions, next) ==
    IF Len(regions) > room
    THEN status' = "CapacityExceeded" /\ UNCHANGED output
    ELSE status' = next /\ output' = regions

-----------------------------------------------------------------------------

NormalizerInit ==
    /\ sources = <<>> /\ overrides = <<>> /\ room = 0 /\ output = <<>>
    /\ taken = 0 /\ overrideIndex = 1 /\ cursor = 0 /\ status = "idle"

Normalize(memory, replacements, length) ==
    LET refused == FirstFailing(replacements, LAMBDA i : OverrideStatus(replacements, i)) IN
    /\ status = "idle"
    /\ sources' = memory /\ overrides' = replacements /\ room' = length
    /\ status' = FirstFailure(<< <<length > MaxRegions, "CapacityExceeded">>,
                                 <<refused # "Ok", refused>>,
                                 <<TRUE, "sources">> >>)
    /\ UNCHANGED <<output, taken, overrideIndex, cursor>>

SourceStatus(i) ==
    LET end == CheckedRegionEnd(sources[i]) IN
    FirstFailure(<< <<end # "Ok", end>>,
                    <<i > 1 /\ sources[i].start < sources[i - 1].start, "SourceOutOfOrder">>,
                    <<i > 1 /\ sources[i].start < End(sources[i - 1]), "SourceOverlap">> >>)

NextSource ==
    /\ status = "sources" /\ taken < Len(sources)
    /\ IF SourceStatus(taken + 1) # "Ok"
       THEN status' = SourceStatus(taken + 1) /\ UNCHANGED <<taken, cursor>>
       ELSE status' = "overrides" /\ taken' = taken + 1 /\ cursor' = sources[taken + 1].start
    /\ UNCHANGED <<sources, overrides, room, output, overrideIndex>>

Source == sources[taken]

Replacement == overrides[overrideIndex]

OverrideBehind == overrideIndex <= Len(overrides) /\ End(Replacement) <= cursor

OverrideAhead == overrideIndex <= Len(overrides) => Replacement.start >= End(Source)

SkipOverride ==
    /\ status = "overrides" /\ OverrideBehind
    /\ overrideIndex' = overrideIndex + 1
    /\ UNCHANGED <<sources, overrides, room, output, taken, cursor, status>>

ApplyOverride ==
    LET start == Max({Replacement.start, cursor})
        end   == Min({End(Replacement), End(Source)})
    IN  /\ status = "overrides" /\ ~OverrideBehind /\ ~OverrideAhead
        /\ Written(Emit(Emit(output, cursor, start, Source.kind), start, end, Replacement.kind),
                   IF end = End(Replacement) THEN "overrides" ELSE "tail")
        /\ cursor' = end
        /\ overrideIndex' = IF end = End(Replacement) THEN overrideIndex + 1 ELSE overrideIndex
        /\ UNCHANGED <<sources, overrides, room, taken>>

FinishSource ==
    /\ status \in {"tail", "overrides"}
    /\ status = "overrides" => ~OverrideBehind /\ OverrideAhead
    /\ Written(Emit(output, cursor, End(Source), Source.kind), "sources")
    /\ UNCHANGED <<sources, overrides, room, taken, overrideIndex, cursor>>

-----------------------------------------------------------------------------
(* validate_required_overrides *)

\* Fault: the walk steps over a gap in the map.
ReachOverGaps(replacement) ==
    LET step(at, region) ==
          IF at.done \/ End(region) <= at.cursor THEN at
          ELSE IF region.kind # replacement.kind
          THEN [at EXCEPT !.done = TRUE]
          ELSE LET end == Min({End(region), End(replacement)})
               IN  [cursor |-> end, done |-> end = End(replacement)]
    IN  Seqs!FoldLeft(step, [cursor |-> replacement.start, done |-> FALSE], output).cursor

\* The inner loop: how far the regions of the override's kind reach from its start.
Reach(replacement) ==
    LET step(at, region) ==
          IF at.done \/ End(region) <= at.cursor THEN at
          ELSE IF region.start > at.cursor \/ region.kind # replacement.kind
          THEN [at EXCEPT !.done = TRUE]
          ELSE LET end == Min({End(region), End(replacement)})
               IN  [cursor |-> end, done |-> end = End(replacement)]
    IN  Seqs!FoldLeft(step, [cursor |-> replacement.start, done |-> FALSE], output).cursor

Uncovered(replacement) == replacement.required /\ Reach(replacement) # End(replacement)

Complete ==
    /\ status = "sources" /\ taken = Len(sources)
    /\ status' = FirstFailure(<< <<output = <<>>, "EmptySource">>,
                                 <<\E i \in DOMAIN overrides : Uncovered(overrides[i]),
                                   "OverrideOutsideSource">> >>)
    /\ UNCHANGED <<sources, overrides, room, output, taken, overrideIndex, cursor>>

NormalizerStep == NextSource \/ SkipOverride \/ ApplyOverride \/ FinishSource \/ Complete

-----------------------------------------------------------------------------
(* What the call should return, page by page *)

Pages == {page \in 0..AddressMax : page % PageSize = 0}

KindAt(table, page) ==
    table[CHOOSE i \in DOMAIN table : page \in PagesOf(table[i])].kind

\* An override decides the kind of the pages it covers, if the map has them at all.
PageKind(page) ==
    CASE page \notin PagesIn(sources)   -> "absent"
      [] page \in PagesIn(sources) \intersect PagesIn(overrides) -> KindAt(overrides, page)
      [] OTHER                          -> KindAt(sources, page)

RunStarts ==
    {page \in PagesIn(sources) : page = 0 \/ PageKind(page - PageSize) # PageKind(page)}

WellFormed(table) ==
    \A i \in DOMAIN table :
        /\ table[i].kind \in MemoryKinds /\ table[i].pages > 0
        /\ table[i].start % PageSize = 0 /\ End(table[i]) <= AddressMax
        /\ i > 1 => End(table[i - 1]) <= table[i].start

Acceptable ==
    /\ room <= MaxRegions /\ sources # <<>>
    /\ WellFormed(sources) /\ WellFormed(overrides)
    /\ \A i \in DOMAIN overrides :
          overrides[i].required => PagesOf(overrides[i]) \subseteq PagesIn(sources)
    /\ Cardinality(RunStarts) <= room

\* The one-pass merge with its shared override index and cursor gives every page
\* of the map its kind, invents no page, and leaves no two regions that one
\* region could describe, however overrides and sources straddle each other.
NormalizedFaithful ==
    status = "Ok" =>
        /\ \A page \in Pages :
              PageKind(page) = IF page \in PagesIn(output) THEN KindAt(output, page) ELSE "absent"
        /\ \A i \in DOMAIN output :
              i > 1 =>
                  \/ End(output[i - 1]) < output[i].start
                  \/ End(output[i - 1]) = output[i].start /\ output[i - 1].kind # output[i].kind

\* The call succeeds exactly when both tables are well formed, the map covers each
\* required override and the merged regions fit: no legal map is refused on the
\* way because of how it happens to be cut into descriptors.
RejectsOnlyForCause ==
    status \notin Running \union {"idle"} => (status = "Ok" <=> Acceptable)
=============================================================================

---------------------------- MODULE MCNormalizer ----------------------------
(* Every ordered map of up to two descriptors, with or without a third at the end,
   under up to two ordered overrides, and malformed tables the call must refuse. *)
EXTENDS Normalizer

MCRegions(kinds) ==
    {Region(PageSize * n, pages, kind) : n \in 0..4, pages \in 1..3, kind \in kinds}

Ordered(regions) ==
    {<<>>} \union {<<r>> : r \in regions}
      \union {<<p[1], p[2]>> : p \in {q \in regions \X regions : End(q[1]) <= q[2].start}}

Tables(regions) == {table \in Ordered(regions) : WellFormed(table)}

MCPairs == Tables(MCRegions({"usable", "loader"}))

MCSources ==
    MCPairs \union {Append(pair, Region(PageSize * 4, 1, "usable")) :
                       pair \in {p \in MCPairs : p # <<>> /\ End(Last(p)) <= PageSize * 4}}

MCOverride(region, required) ==
    [start |-> region.start, pages |-> region.pages, kind |-> region.kind, required |-> required]

MCOverrides ==
    Tables({MCOverride(region, region.kind = "reserved") :
               region \in MCRegions({"reserved", "usable"})})

Malformed ==
    Seqs!BoundedSeq(MCRegions({"usable"})
                 \union {Region(0, 0, "usable"), Region(1, 1, "usable"), Region(2, 1, "unknown"),
                         Region(2 * AddressMax, 1, "usable")}, 2)

MCCall(map, replacements, length) ==
    [sources |-> map, overrides |-> replacements, room |-> length]

MCCalls ==
    {MCCall(map, replacements, length) :
        map \in MCSources, replacements \in MCOverrides, length \in {2, MaxRegions}}
      \union {MCCall(map, <<>>, MaxRegions) : map \in Malformed}
      \union {MCCall(<<Region(0, 3, "loader")>>,
                     [i \in DOMAIN table |-> MCOverride(table[i], FALSE)],
                     MaxRegions) : table \in Malformed}
      \union {MCCall(<<Region(0, 1, "usable")>>, <<>>, MaxRegions + 1)}

MCNext ==
    \/ status = "idle" /\ \E call \in MCCalls : Normalize(call.sources, call.overrides, call.room)
    \/ NormalizerStep
    \/ status \notin Running \union {"idle"} /\ UNCHANGED normalizerVars

MCSpec == NormalizerInit /\ [][MCNext]_normalizerVars
=============================================================================

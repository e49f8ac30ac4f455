------------------------------ MODULE MCFrames ------------------------------
(* All memory maps of up to three regions over seven pages, and the malformed
   regions that initialize must refuse.                                       *)
EXTENDS FrameClient

Region(start, pages, kind, attributes) ==
    [start |-> start, pages |-> pages, kind |-> kind, attributes |-> attributes]

MCRegions ==
    {Region(2 * n, pages, "usable", 0) : n \in 0..5, pages \in {1, 2}}
      \union {Region(2 * n, 1, "reserved", 0) : n \in 1..4}
      \union {Region(0, 0, "usable", 0), Region(3, 1, "usable", 0), Region(2, 1, "unknown", 0),
              Region(4, 1, "usable", 1), Region(12, 1, "usable", 0), Region(0, 6, "usable", 0)}

Seqs == INSTANCE SequencesExt

MCMaps == Seqs!BoundedSeq(MCRegions, 3)
=============================================================================

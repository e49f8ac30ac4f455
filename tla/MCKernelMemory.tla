--------------------------- MODULE MCKernelMemory ---------------------------
(* Pages are single addresses. The maps: too little memory for one space and for
   two, all of it in one extent, and extents that the spaces straddle, with and
   without a spare slot in the table of three.                                  *)
EXTENDS KernelMemory

Region(start, pages, kind) ==
    [start |-> start, pages |-> pages, kind |-> kind, attributes |-> 0]

Usable(start, pages) == Region(start, pages, "usable")

MCMaps == { <<Region(1, 1, "loader"), Usable(2, 5)>>,
            <<Usable(1, 9), Region(10, 1, "loader"), Region(12, 1, "reserved")>>,
            <<Usable(1, 3), Region(4, 1, "loader"), Usable(5, 14)>>,
            <<Usable(1, 10), Region(11, 1, "loader"), Usable(12, 5)>>,
            <<Usable(1, 2), Usable(4, 3), Usable(8, 16)>> }
=============================================================================

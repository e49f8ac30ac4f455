------------------------------- MODULE Tables -------------------------------
(* Operations on the arrays with a length that the frame allocator and an  *)
(* address space keep, as SequencesExt defines them.  A module with proofs *)
(* does not extend SequencesExt, which reaches the theorems on bags: the   *)
(* proof manager would carry all of them into every obligation.            *)
EXTENDS Integers, Sequences

(* The last entry in use. *)
Last(table) == table[Len(table)]

(* FrameLedger::pop leaves the entries before the last. *)
Front(table) == SubSeq(table, 1, Len(table) - 1)

(* free_frame moves the later extents up and writes the new one. *)
InsertAt(table, i, entry) ==
    SubSeq(table, 1, i - 1) \o <<entry>> \o SubSeq(table, i, Len(table))

(* remove_free_extent moves the later extents down. *)
RemoveAt(table, i) == SubSeq(table, 1, i - 1) \o SubSeq(table, i + 1, Len(table))
=============================================================================

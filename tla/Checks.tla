------------------------------- MODULE Checks -------------------------------
(* The order of error checks, which decides what a call reports. *)
EXTENDS Integers, Sequences, FiniteSetsExt

\* The code tests conditions in order and returns the error of the first that holds.
FirstFailure(checks) ==
    LET failed == {i \in 1..Len(checks) : checks[i][1]}
    IN IF failed = {} THEN "Ok" ELSE checks[Min(failed)][2]

\* A loop over a table stops at the first entry that fails.
FirstFailing(table, Status(_)) ==
    LET wrong == {i \in DOMAIN table : Status(i) # "Ok"}
    IN IF wrong = {} THEN "Ok" ELSE Status(Min(wrong))
=============================================================================

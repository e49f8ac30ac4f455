---------------------------- MODULE MCJournaled ----------------------------
(* Values of the constants of JournaledRuntime for TLC. *)
EXTENDS JournaledRuntime, SupervisedScheduling

(* Two arguments: the zero word, which an empty cell also holds, and another. *)
MCArguments == {0, 1}

MCOneArgument == {1}

MCTriplets == {}

(* The last triplet of a record and one past it. *)
MCLastTriplets == {5, 6}
=============================================================================

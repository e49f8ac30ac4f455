---------------------------- MODULE MCSupervised ----------------------------
(* Values of the constants of SupervisedRuntime for TLC. *)
EXTENDS SupervisedHistory

(* Two arguments: the zero word, which an empty cell also holds, and another. *)
MCArguments == {0, 1}
=============================================================================

--------------------------- MODULE MCCooperative ---------------------------
(* Values of the constants of CooperativeRuntime for TLC. *)
EXTENDS CooperativeScheduling

(* Two payloads: the zero word, which is also the empty slot, and another. *)
MCMessages == {0, 1}

(* Every endpoint request, and one with a right endpoints do not have. *)
MCRightsRequests == SUBSET {"Send", "Receive", "Duplicate"} \cup {{"Send", "Start"}}
=============================================================================

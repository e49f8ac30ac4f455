------------------------- MODULE SupervisedHistory -------------------------
(* The supervised profile with a history variable: the request that the    *)
(* supervisor was last shown, by the sequence and the argument that        *)
(* inspect_approval put into its result registers. The supervisor decides  *)
(* on what it was shown, in a later call, when the request may be gone.    *)
EXTENDS SupervisedScheduling

VARIABLE shown

historyVars == <<supervisedVars, shown>>

(* Only an inspection that succeeds returns three words. *)
Inspection(r) == r.status = "Ok" /\ Len(r.out) = 3

HistoryInit == Init /\ shown = <<>>

HistoryNext ==
    /\ Next
    /\ LET r == reply'[Supervisor]
       IN  shown' = IF Inspection(r) THEN <<r.out[1], r.out[3]>> ELSE shown

HistorySpec == HistoryInit /\ [][HistoryNext]_historyVars /\ WF_supervisedVars(KernelStep)

(* A decision that decide_approval takes under the sequence the supervisor *)
(* was shown falls on the request it was shown, with the argument it was   *)
(* shown: not on a request submitted after that one ended, however many    *)
(* calls lie between the inspection and the decision.                      *)
DecisionFitsShown ==
    [][\A raw \in Handles, decision \in Decisions :
          /\ shown # <<>> /\ broker' # broker
          /\ DecideTrap(Supervisor, raw, shown[1], decision)
          => shown = <<broker.sequence, broker.argument>>]_historyVars
=============================================================================

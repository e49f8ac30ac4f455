---------------------------- MODULE EffectLedger ----------------------------
(***************************************************************************)
(* What the effect journal promises, without tasks, handles, epochs or     *)
(* reservations: one ledger line per accepted transition of one request at *)
(* a time, a cell that is written only together with the line that says    *)
(* so, and nothing after the ledger is sealed.                             *)
(***************************************************************************)
EXTENDS Integers, Sequences

VARIABLES
    lines,    \* the ledger: <<event, request number>> pairs
    open,     \* lines may still be added
    written   \* the cell holds a committed value

ledgerVars == <<lines, open, written>>

LedgerInit == lines = <<>> /\ open = TRUE /\ written = FALSE

LastLine == IF lines = <<>> THEN <<"None", 0>> ELSE lines[Len(lines)]

(* No request is open: the ledger is empty or its last request has ended. *)
Idle == LastLine[1] \notin {"Requested", "Approved"}

Line(event, request) == lines' = Append(lines, <<event, request>>)

Request == open /\ Idle /\ Line("Requested", LastLine[2] + 1) /\ UNCHANGED <<open, written>>

(* A decision on the open request: approved or refused once, or expired. *)
Decide ==
    /\ open
    /\ \/ LastLine[1] = "Requested" /\ \E e \in {"Approved", "Denied"} : Line(e, LastLine[2])
       \/ ~Idle /\ Line("Expired", LastLine[2])
    /\ UNCHANGED <<open, written>>

(* Only an approved request takes effect, and only into an unwritten cell. *)
Complete ==
    /\ open /\ LastLine[1] = "Approved" /\ ~written
    /\ Line("Completed", LastLine[2])
    /\ written' = TRUE
    /\ UNCHANGED open

FailEffect ==
    /\ open /\ LastLine[1] = "Approved" /\ written
    /\ Line("Failed", LastLine[2])
    /\ UNCHANGED <<open, written>>

(* Sealing ends an open request in the same step; the cell may go with it. *)
SealLedger ==
    /\ open
    /\ \/ Idle /\ UNCHANGED lines
       \/ LastLine[1] = "Requested" /\ Line("Denied", LastLine[2])
       \/ LastLine[1] = "Approved" /\ Line("Expired", LastLine[2])
    /\ open' = FALSE
    /\ written' \in {written, FALSE}

(* A sealed ledger is kept while the cell is reclaimed, then discarded. *)
Reclaim ==
    /\ ~open
    /\ lines' \in {lines, <<>>}
    /\ written' \in {written, FALSE}
    /\ UNCHANGED open

LedgerNext == Request \/ Decide \/ Complete \/ FailEffect \/ SealLedger \/ Reclaim

LedgerSpec == LedgerInit /\ [][LedgerNext]_ledgerVars
=============================================================================

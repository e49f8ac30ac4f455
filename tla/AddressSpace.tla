---------------------------- MODULE AddressSpace ----------------------------
(* The two task address spaces: built as a pair frame by frame and link by link,
   activated and recovered by the scheduler, and torn down after an exit. Every
   call to the backend is one step and any of them may be refused; the page
   tables and the shared recovery entries are the backend's. The allocator that
   gives and takes the frames is composed with this module in KernelMemory.     *)
EXTENDS Tables

VARIABLES
    owners,     \* the AddressSpaceOwner of each space
    call,       \* the library call in progress and its next backend call
    phase,      \* what the kernel is doing with the pair
    retained,   \* the spaces whose rollback or teardown reported an error
    entries,    \* backend: the present user page-table entries
    shared      \* backend: the roots that hold the shared recovery entries

spaceVars == <<owners, call, phase, retained, entries, shared>>

Spaces == {1, 2}

Roles == <<"Root", "UserPml3", "UserPml2", "TextPml1", "StackPml1", "Text", "Stack">>

Tables == {"Root", "UserPml3", "UserPml2", "TextPml1", "StackPml1"}

\* BUILD_LINKS: parent and child; the two links of UserPml2 use different entries.
BuildLinks == << <<"Root", "UserPml3">>, <<"UserPml3", "UserPml2">>, <<"UserPml2", "TextPml1">>,
                 <<"UserPml2", "StackPml1">>, <<"TextPml1", "Text">>, <<"StackPml1", "Stack">> >>

NoFrame == 0

NoOwner == [state |-> "Absent", live |-> FALSE, root |-> NoFrame, ledger |-> <<>>]

\* AddressSpaceOwner::begin; the kernel's generations are non-zero constants.
NewOwner == [state |-> "Building", live |-> TRUE, root |-> NoFrame, ledger |-> <<>>]

Idle == [op |-> "idle", space |-> 0, step |-> "idle", links |-> 0]

Constructing(s) == [op |-> "construct", space |-> s, step |-> "allocate", links |-> 0]

-----------------------------------------------------------------------------
(* The frame ledger *)

LedgerFrames(owner) == {owner.ledger[i].frame : i \in DOMAIN owner.ledger}

OwnsRole(owner, role) == \E i \in DOMAIN owner.ledger : owner.ledger[i].role = role

FrameFor(owner, role) ==
    owner.ledger[CHOOSE i \in DOMAIN owner.ledger : owner.ledger[i].role = role].frame

Entry(owner, k) ==
    [parent |-> FrameFor(owner, BuildLinks[k][1]), link |-> k,
     child |-> FrameFor(owner, BuildLinks[k][2])]

RecordFrame(owner, role, frame) ==
    [owner EXCEPT !.ledger = Append(@, [role |-> role, frame |-> frame])]

\* record_frame's validate_latest, after the frame is already in the ledger.
LatestAccepted(ledger) ==
    \A i \in 1..(Len(ledger) - 1) :
        ledger[i].frame # Last(ledger).frame /\ ledger[i].role # Last(ledger).role

-----------------------------------------------------------------------------
(* Unwinding: rollback_owned_frames and teardown_inactive make the same calls *)

\* Fault: the frames are returned before they are unlinked.
UnwindStepReturnsFirst(owner, links) == "return"

UnwindStep(owner, links) ==
    CASE links > 0 -> "unlink"
      [] links = 0 /\ OwnsRole(owner, "Root") -> "shared"
      [] OTHER -> "window"

Unwinding(op, s, owner, links) ==
    [op |-> op, space |-> s, step |-> UnwindStep(owner, links), links |-> links]

\* teardown_checked has accepted the owner: its generation dies first.
Condemned(owner) == [owner EXCEPT !.live = FALSE]

\* construct_address_space gives up: the rollback starts with what is installed.
Rollback ==
    call' = Unwinding("rollback", call.space, owners'[call.space], call.links)

Reaped(owner) == [owner EXCEPT !.live = FALSE, !.root = NoFrame, !.state = "Dead"]

\* Fault: a failed rollback of the second space leaves the first one standing.
UnwoundForgetsFirst(after, failed) ==
    LET s == call.space
        first == call.op = "rollback" /\ s = 2 /\ ~failed
    IN  /\ retained' = IF failed THEN retained \union {s} ELSE retained
        /\ owners' = IF first THEN [after EXCEPT ![1] = Condemned(@)] ELSE after
        /\ call' = IF first THEN Unwinding("teardown", 1, after[1], Len(BuildLinks)) ELSE Idle
        /\ phase' = CASE first -> "building"
                      [] ~first /\ phase = "building" -> "buildFailed"
                      [] ~first /\ phase = "running" /\ failed -> "teardownFailed"
                      [] OTHER -> IF \A t \in Spaces : after[t].state = "Dead"
                                  THEN "done" ELSE "running"

\* After the unwinding of one space ended with the owners given: a failed second
\* construction tears the first space down whatever its own rollback reported.
Unwound(after, failed) ==
    LET s == call.space
        first == call.op = "rollback" /\ s = 2
    IN  /\ retained' = IF failed THEN retained \union {s} ELSE retained
        /\ owners' = IF first THEN [after EXCEPT ![1] = Condemned(@)] ELSE after
        /\ call' = IF first THEN Unwinding("teardown", 1, after[1], Len(BuildLinks)) ELSE Idle
        /\ phase' = CASE first -> "building"
                      [] ~first /\ phase = "building" -> "buildFailed"
                      [] ~first /\ phase = "running" /\ failed -> "teardownFailed"
                      [] OTHER -> IF \A t \in Spaces : after[t].state = "Dead"
                                  THEN "done" ELSE "running"

-----------------------------------------------------------------------------
(* Construction: construct_address_space_pair *)

\* The allocator answered with a frame.
ReceiveFrame(frame) ==
    /\ call.step = "allocate"
    /\ LET s == call.space
       IN  /\ owners' = [owners EXCEPT ![s] = RecordFrame(@, Roles[Len(@.ledger) + 1], frame)]
           /\ IF LatestAccepted(owners'[s].ledger)
              THEN call' = [call EXCEPT !.step = "prepare"]
              ELSE Rollback
    /\ UNCHANGED <<phase, retained, entries, shared>>

\* The frame is filled with zeroes; the root then receives the shared entries.
PrepareFrame ==
    /\ call.step = "prepare"
    /\ LET ledger == owners[call.space].ledger
           frame == Last(ledger).frame
       IN  /\ entries' = {e \in entries : e.parent # frame}
           /\ shared' = IF Last(ledger).role = "Root"
                        THEN shared \union {frame} ELSE shared \ {frame}
           /\ call' = [call EXCEPT !.step = IF Len(ledger) = Len(Roles) THEN "link" ELSE "allocate"]
    /\ UNCHANGED <<owners, phase, retained>>

\* Fault: the space is published one link early.
InstallLinkStopsEarly ==
    /\ call.step = "link"
    /\ LET entry == Entry(owners[call.space], call.links + 1)
       IN  /\ entries' = entries \union {entry}
           /\ call' = [call EXCEPT !.links = @ + 1,
                                   !.step = IF entry.link = Len(BuildLinks) - 1 THEN "publish" ELSE @]
    /\ UNCHANGED <<owners, phase, retained, shared>>

InstallLink ==
    /\ call.step = "link"
    /\ LET entry == Entry(owners[call.space], call.links + 1)
       IN  /\ \A e \in entries : e.parent # entry.parent \/ e.link # entry.link
           /\ entries' = entries \union {entry}
           /\ call' = [call EXCEPT !.links = @ + 1,
                                   !.step = IF entry.link = Len(BuildLinks) THEN "publish" ELSE @]
    /\ UNCHANGED <<owners, phase, retained, shared>>

Published(owner) == [owner EXCEPT !.root = FrameFor(owner, "Root"), !.state = "Inactive"]

\* The second space is begun only once the first is published.
Publish ==
    /\ call.step = "publish"
    /\ LET s == call.space
           whole == owners[s].state = "Building" /\ owners[s].live
                      /\ Len(owners[s].ledger) = Len(Roles)
           published == [owners EXCEPT ![s] = Published(@)]
       IN  IF ~whole
           THEN Rollback /\ UNCHANGED <<owners, phase>>
           ELSE IF s = 1
                THEN /\ owners' = [published EXCEPT ![2] = NewOwner]
                     /\ call' = Constructing(2)
                     /\ UNCHANGED phase
                ELSE owners' = published /\ call' = Idle /\ phase' = "running"
    /\ UNCHANGED <<retained, entries, shared>>

\* Any backend call of a construction may be refused. A refused prepare_frame may
\* already have filled the frame.
ConstructFails ==
    /\ call.step \in {"allocate", "prepare", "link"}
    /\ UNCHANGED owners
    /\ Rollback
    /\ \/ UNCHANGED entries
       \/ /\ call.step = "prepare"
          /\ entries' = {e \in entries : e.parent # Last(owners[call.space].ledger).frame}
    /\ UNCHANGED <<phase, retained, shared>>

-----------------------------------------------------------------------------
(* Rollback and teardown *)

RemoveLink ==
    /\ call.step = "unlink"
    /\ LET owner == owners[call.space]
       IN  /\ Entry(owner, call.links) \in entries
           /\ entries' = entries \ {Entry(owner, call.links)}
           /\ call' = Unwinding(call.op, call.space, owner, call.links - 1)
    /\ UNCHANGED <<owners, phase, retained, shared>>

ClearSharedEntries ==
    /\ call.step = "shared"
    /\ shared' = shared \ {FrameFor(owners[call.space], "Root")}
    /\ call' = [call EXCEPT !.step = "window"]
    /\ UNCHANGED <<owners, phase, retained, entries>>

ClearTemporaryWindow ==
    /\ call.step = "window"
    /\ call' = [call EXCEPT !.step = "verify"]
    /\ UNCHANGED <<owners, phase, retained, entries, shared>>

\* Every table of the ledger must be empty.
VerifyUnreachable ==
    /\ call.step = "verify"
    /\ \A i \in DOMAIN owners[call.space].ledger :
          LET owned == owners[call.space].ledger[i] IN
          owned.role \in Tables =>
              owned.frame \notin shared /\ \A e \in entries : e.parent # owned.frame
    /\ call' = [call EXCEPT !.step = "return"]
    /\ UNCHANGED <<owners, phase, retained, entries, shared>>

\* A frame leaves the ledger only after the allocator took it back.
ReturnFrame ==
    /\ call.step = "return"
    /\ owners[call.space].ledger # <<>>
    /\ owners' = [owners EXCEPT ![call.space].ledger = Front(@)]
    /\ UNCHANGED <<call, phase, retained, entries, shared>>

FinishUnwinding ==
    /\ call.step = "return"
    /\ owners[call.space].ledger = <<>>
    /\ Unwound([owners EXCEPT ![call.space] = Reaped(@)], FALSE)
    /\ UNCHANGED <<entries, shared>>

\* Fault: a refused call starts the unwinding over.
UnwindFailsRetries ==
    /\ call.step \in {"unlink", "shared", "window", "verify", "return"}
    /\ call' = Unwinding(call.op, call.space, owners[call.space], call.links)
    /\ UNCHANGED <<owners, phase, retained, entries, shared>>

\* A refused call stops the unwinding; the ledger keeps what was not returned.
UnwindFails ==
    /\ call.step \in {"unlink", "shared", "window", "verify", "return"}
    /\ call.step = "return" => owners[call.space].ledger # <<>>
    /\ Unwound(owners, TRUE)
    /\ UNCHANGED <<entries, shared>>

-----------------------------------------------------------------------------
(* The kernel between construction and the end *)

\* resume_scheduled_task: the owner must be inactive, then CR3 is loaded.
ResumeTask(s) ==
    /\ phase = "running" /\ call = Idle
    /\ \A t \in Spaces : owners[t].state # "Active"
    /\ owners[s].state = "Inactive" /\ owners[s].live
    /\ owners' = [owners EXCEPT ![s].state = "Active"]
    /\ UNCHANGED <<call, phase, retained, entries, shared>>

\* makopa_task_trap_dispatch: the owner is recovered before anything else.
Trap(s) ==
    /\ phase = "running" /\ owners[s].state = "Active" /\ owners[s].live
    /\ owners' = [owners EXCEPT ![s].state = "Inactive"]
    /\ UNCHANGED <<call, phase, retained, entries, shared>>

\* The same for an exit trap, followed by teardown_exited_task.
ExitTrap(s) ==
    /\ phase = "running" /\ owners[s].state = "Active" /\ owners[s].live
    /\ owners' = [owners EXCEPT ![s] = Condemned([@ EXCEPT !.state = "Inactive"])]
    /\ call' = Unwinding("teardown", s, owners[s], Len(BuildLinks))
    /\ UNCHANGED <<phase, retained, entries, shared>>

\* The next stage's scheduler constructs a new pair once both spaces are gone.
NextPair ==
    /\ phase = "done"
    /\ owners' = <<NewOwner, NoOwner>>
    /\ call' = Constructing(1)
    /\ phase' = "building"
    /\ UNCHANGED <<retained, entries, shared>>

Halt == phase \in {"buildFailed", "teardownFailed"} /\ UNCHANGED spaceVars

SpaceInit ==
    /\ owners = <<NewOwner, NoOwner>>
    /\ call = Constructing(1)
    /\ phase = "building" /\ retained = {}
    /\ entries = {} /\ shared = {}
=============================================================================

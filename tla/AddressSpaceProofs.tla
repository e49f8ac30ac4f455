------------------------- MODULE AddressSpaceProofs -------------------------
(***************************************************************************)
(* Proofs about AddressSpace: what every call of the library and every     *)
(* move of the kernel keeps of the two owners, the call in progress and    *)
(* the page tables, whatever gives and takes the frames.                   *)
(*                                                                         *)
(* ControlInv is the shape of the call in progress and what each phase     *)
(* leaves of the two owners. TablesInv is whose the present page-table     *)
(* entries and the shared recovery entries are; it needs the frames of     *)
(* the ledgers apart, which the composition with the allocator provides.   *)
(***************************************************************************)
EXTENDS AddressSpace, TLAPS


OwnerStates == {"Absent", "Building", "Inactive", "Active", "Dead"}

UnwindingSteps == {"unlink", "shared", "window", "verify", "return"}

BuildingSteps == {"allocate", "prepare", "link", "publish"}

RoleNames == {Roles[i] : i \in 1 .. 7}

OwnedFrame == [role : RoleNames, frame : Nat]

(* A ledger is filled in the order of the roles. *)
Ledgers ==
    {ledger \in Seq(OwnedFrame) :
        Len(ledger) <= 7 /\ \A i \in 1 .. Len(ledger) : ledger[i].role = Roles[i]}

OwnerType == [state : OwnerStates, live : BOOLEAN, root : Nat, ledger : Ledgers]

CallType ==
    [op : {"idle", "construct", "rollback", "teardown"}, space : 0 .. 2,
     step : {"idle"} \union BuildingSteps \union UnwindingSteps, links : 0 .. 6]

MemoryTypeOK ==
    /\ owners \in [Spaces -> OwnerType]
    /\ call \in CallType
    /\ phase \in {"building", "running", "done", "buildFailed", "teardownFailed"}

IsPublished(owner) == owner.live /\ owner.state \in {"Inactive", "Active"}

InCall(s) == call # Idle /\ call.space = s

(* How far a call has come on a space that holds so many frames. *)
CallOK(c, held) ==
    /\ c.space \in Spaces /\ c.op # "idle" /\ c.step # "idle"
    /\ c.op = "construct" <=> c.step \in BuildingSteps
    /\ c.step \notin {"link", "publish", "unlink"} => c.links = 0
    /\ c.step = "allocate" => held < 7
    /\ c.step \in {"prepare", "shared"} => held > 0
    /\ c.step \in {"link", "publish", "unlink"} => held = 7
    /\ c.step = "link" => c.links < 6
    /\ c.step = "publish" => c.links = 6
    /\ c.step = "unlink" => c.links > 0

CallInv == call # Idle => CallOK(call, Len(owners[call.space].ledger))

BuildsUp(s) ==
    /\ call.space = s /\ call.op \in {"construct", "rollback"}
    /\ owners[s].state = "Building" /\ owners[s].live

TearsDown(s) ==
    /\ call.space = s /\ call.op = "teardown"
    /\ owners[s].state = "Inactive" /\ ~owners[s].live

(* What each phase of the kernel leaves of the two owners. *)
PhaseInv ==
    /\ phase = "building" =>
          /\ call # Idle
          /\ \/ BuildsUp(1) /\ owners[2].state = "Absent" /\ retained = {}
             \/ BuildsUp(2) /\ owners[1].live /\ owners[1].state = "Inactive" /\ retained = {}
             \/ TearsDown(1) /\ owners[2].state = "Dead" /\ retained = {}
             \/ TearsDown(1) /\ owners[2].state = "Building" /\ retained = {2}
    /\ phase = "running" =>
          /\ retained = {}
          /\ call # Idle => TearsDown(call.space)
          /\ \A s \in Spaces : owners[s].state = "Active" =>
                call = Idle /\ \A t \in Spaces : owners[t].state = "Active" => t = s
          /\ \A s \in Spaces :
                IsPublished(owners[s]) \/ InCall(s) \/ owners[s].state = "Dead"
    /\ phase \in {"done", "buildFailed", "teardownFailed"} => call = Idle
    /\ phase = "done" => retained = {} /\ \A s \in Spaces : owners[s].state = "Dead"
    /\ phase = "buildFailed" =>
          \A s \in Spaces :
              /\ ~IsPublished(owners[s])
              /\ s \in retained \/ owners[s].state \in {"Absent", "Dead"}
    /\ phase = "teardownFailed" => retained # {}
    /\ \A s \in Spaces :
          /\ owners[s].state \in {"Absent", "Dead"} => owners[s].ledger = <<>>
          /\ IsPublished(owners[s]) => Len(owners[s].ledger) = 7

ControlInv == MemoryTypeOK /\ CallInv /\ PhaseInv

(* Every present entry is a link of one space with a full ledger; of the   *)
(* space the call works on, only the links counted are present.            *)
EntriesInv ==
    \A e \in entries : \E s \in Spaces :
        /\ Len(owners[s].ledger) = 7
        /\ \E k \in 1 .. 6 : e = Entry(owners[s], k) /\ (InCall(s) => k <= call.links)

(* The recovery entries are shared with the roots only, and no longer with *)
(* the root of a space whose unwinding has cleared them.                   *)
SharedInv ==
    \A frame \in shared : \E s \in Spaces :
        /\ Len(owners[s].ledger) > 0 /\ frame = owners[s].ledger[1].frame
        /\ InCall(s) => call.step \notin {"window", "verify", "return"}

(* What a published space has. *)
PublishedInv ==
    \A s \in Spaces : IsPublished(owners[s]) =>
        /\ owners[s].root = owners[s].ledger[1].frame /\ owners[s].root \in shared
        /\ \A k \in 1 .. 6 : Entry(owners[s], k) \in entries

(* What a space under construction has so far. *)
ProgressInv ==
    call.op = "construct" =>
        /\ \A k \in 1 .. call.links : Entry(owners[call.space], k) \in entries
        /\ Len(owners[call.space].ledger) > (IF call.step = "prepare" THEN 1 ELSE 0) =>
              owners[call.space].ledger[1].frame \in shared

TablesInv == EntriesInv /\ SharedInv /\ PublishedInv /\ ProgressInv

(* No frame is in two places of the ledgers. *)
LedgersApart ==
    /\ LedgerFrames(owners[1]) \intersect LedgerFrames(owners[2]) = {}
    /\ \A s \in Spaces : \A i, j \in DOMAIN owners[s].ledger :
          owners[s].ledger[i].frame = owners[s].ledger[j].frame => i = j
-----------------------------------------------------------------------------
(* The ledger and the links. *)

(* Seven frames and six links make a space. *)
LEMMA Sizes ==
    /\ Len(Roles) = 7 /\ DOMAIN Roles = 1 .. 7
    /\ Len(BuildLinks) = 6 /\ DOMAIN BuildLinks = 1 .. 6
<1> QED
  BY DEF Roles, BuildLinks

(* No two places of a ledger have the same role. *)
LEMMA RolesDiffer == \A i, j \in 1 .. 7 : Roles[i] = Roles[j] => i = j
<1> QED
  BY DEF Roles

(* A ledger is a sequence of frames, each with the role of its place. *)
LEMMA LedgerFacts ==
    ASSUME NEW o \in OwnerType
    PROVE  /\ Len(o.ledger) \in 0 .. 7 /\ DOMAIN o.ledger = 1 .. Len(o.ledger)
           /\ o.ledger \in Seq(OwnedFrame)
           /\ \A i \in 1 .. Len(o.ledger) :
                 o.ledger[i].role = Roles[i] /\ o.ledger[i].frame \in Nat
<1>1. o.ledger \in Ledgers
  BY DEF OwnerType
<1>2. PICK l : l = o.ledger
  OBVIOUS
<1>3. /\ l \in Seq(OwnedFrame) /\ Len(l) <= 7
      /\ \A i \in 1 .. Len(l) : l[i].role = Roles[i]
  BY <1>1, <1>2 DEF Ledgers
<1>4. l \in Seq(OwnedFrame)
  BY <1>3
<1>5. Len(l) \in Nat /\ DOMAIN l = 1 .. Len(l) /\ \A i \in 1 .. Len(l) : l[i] \in OwnedFrame
  BY <1>4
<1>6. Len(l) <= 7
  BY <1>3
<1>7. \A n \in Nat : n <= 7 => n \in 0 .. 7
  OBVIOUS
<1>8. Len(l) \in 0 .. 7
  BY <1>5, <1>6, <1>7, Zenon
<1>9. \A i \in 1 .. Len(l) : l[i].frame \in Nat
  BY <1>5 DEF OwnedFrame
<1> QED
  BY <1>2, <1>3, <1>5, <1>8, <1>9

(* frame_for finds the frame of a role at the place of that role. *)
LEMMA FrameOfRole ==
    ASSUME NEW o \in OwnerType, NEW i \in 1 .. Len(o.ledger)
    PROVE  FrameFor(o, Roles[i]) = o.ledger[i].frame
<1> DEFINE c == CHOOSE j \in DOMAIN o.ledger : o.ledger[j].role = Roles[i]
<1>1. c \in DOMAIN o.ledger /\ o.ledger[c].role = Roles[i]
  BY LedgerFacts
<1>2. c \in 1 .. Len(o.ledger) /\ Len(o.ledger) \in 0 .. 7 /\ o.ledger[c].role = Roles[c]
  BY <1>1, LedgerFacts
<1> HIDE DEF c
<1>3. Roles[c] = Roles[i]
  BY <1>1, <1>2
<1>4. \A n \in 0 .. 7 : \A j \in 1 .. n : j \in 1 .. 7
  OBVIOUS
<1>5. c \in 1 .. 7 /\ i \in 1 .. 7
  BY <1>2, <1>4, Zenon
<1>6. c = i
  BY <1>3, <1>5, RolesDiffer
<1> QED
  BY <1>6, Zenon DEF FrameFor, c

(* The root is the first frame of a ledger that is not empty. *)
LEMMA RootPlace ==
    ASSUME NEW o \in OwnerType
    PROVE  /\ Len(o.ledger) > 0 => FrameFor(o, "Root") = o.ledger[1].frame
           /\ OwnsRole(o, "Root") <=> Len(o.ledger) > 0
<1>1. Roles[1] = "Root"
  BY DEF Roles
<1>2. ASSUME Len(o.ledger) > 0
      PROVE  FrameFor(o, "Root") = o.ledger[1].frame /\ OwnsRole(o, "Root")
  <2>1. 1 \in 1 .. Len(o.ledger)
    BY <1>2, LedgerFacts
  <2> QED
    BY <1>1, <2>1, FrameOfRole, LedgerFacts DEF OwnsRole
<1>3. ASSUME OwnsRole(o, "Root") PROVE Len(o.ledger) > 0
  BY <1>3, LedgerFacts DEF OwnsRole
<1> QED
  BY <1>2, <1>3

(* Both ends of a link are roles of the ledger. *)
LEMMA LinkEnds ==
    ASSUME NEW k \in 1 .. 6
    PROVE  \E i, j \in 1 .. 7 : BuildLinks[k][1] = Roles[i] /\ BuildLinks[k][2] = Roles[j]
<1>1. /\ BuildLinks[1][1] = Roles[1] /\ BuildLinks[1][2] = Roles[2]
      /\ BuildLinks[2][1] = Roles[2] /\ BuildLinks[2][2] = Roles[3]
      /\ BuildLinks[3][1] = Roles[3] /\ BuildLinks[3][2] = Roles[4]
      /\ BuildLinks[4][1] = Roles[3] /\ BuildLinks[4][2] = Roles[5]
      /\ BuildLinks[5][1] = Roles[4] /\ BuildLinks[5][2] = Roles[6]
      /\ BuildLinks[6][1] = Roles[5] /\ BuildLinks[6][2] = Roles[7]
  BY DEF BuildLinks, Roles
<1>2. k = 1 \/ k = 2 \/ k = 3 \/ k = 4 \/ k = 5 \/ k = 6
  OBVIOUS
<1> QED
  BY <1>1, <1>2

(* An entry of a full ledger leads from one of its frames to another. *)
LEMMA EntryEnds ==
    ASSUME NEW o \in OwnerType, Len(o.ledger) = 7, NEW k \in 1 .. 6
    PROVE  /\ Entry(o, k).parent \in LedgerFrames(o) /\ Entry(o, k).child \in LedgerFrames(o)
           /\ Entry(o, k).link = k
<1>1. PICK i, j \in 1 .. 7 : BuildLinks[k][1] = Roles[i] /\ BuildLinks[k][2] = Roles[j]
  BY LinkEnds, Zenon
<1>2. FrameFor(o, Roles[i]) = o.ledger[i].frame /\ FrameFor(o, Roles[j]) = o.ledger[j].frame
  BY FrameOfRole
<1>3. o.ledger[i].frame \in LedgerFrames(o) /\ o.ledger[j].frame \in LedgerFrames(o)
  BY LedgerFacts DEF LedgerFrames
<1> QED
  BY <1>1, <1>2, <1>3 DEF Entry

(* The entries and the frames of an owner depend on its ledger only. *)
LEMMA SameLedger ==
    ASSUME NEW o, NEW p, o.ledger = p.ledger
    PROVE  /\ LedgerFrames(o) = LedgerFrames(p)
           /\ \A k : Entry(o, k) = Entry(p, k)
<1> QED
  BY DEF LedgerFrames, Entry, FrameFor
-----------------------------------------------------------------------------
(* Where the library is. *)

(* What holds while a space is under construction: the kernel is building  *)
(* the pair, and the other space is not begun or already published.        *)
LEMMA WhileBuilding ==
    ASSUME ControlInv, call.step \in BuildingSteps
    PROVE  /\ call # Idle /\ call.space \in Spaces /\ call.op = "construct"
           /\ phase = "building" /\ retained = {} /\ BuildsUp(call.space)
           /\ call.space = 1 => owners[2].state = "Absent"
           /\ call.space = 2 => owners[1].live /\ owners[1].state = "Inactive"
<1>1. call # Idle
  BY DEF Idle, BuildingSteps
<1>2. call.space \in Spaces /\ call.op = "construct"
  BY <1>1 DEF ControlInv, CallInv, CallOK
<1>3. phase = "building"
  <2>1. phase \notin {"done", "buildFailed", "teardownFailed"}
    BY <1>1 DEF ControlInv, PhaseInv
  <2>2. phase # "running"
    BY <1>1, <1>2 DEF ControlInv, PhaseInv, TearsDown
  <2> QED
    BY <2>1, <2>2 DEF ControlInv, MemoryTypeOK
<1> QED
  BY <1>1, <1>2, <1>3 DEF ControlInv, PhaseInv, BuildsUp, TearsDown

(* What holds while a space is taken apart. *)
LEMMA WhileUnwinding ==
    ASSUME ControlInv, call.step \in UnwindingSteps
    PROVE  /\ call # Idle /\ call.space \in Spaces /\ call.op \in {"rollback", "teardown"}
           /\ \/ /\ phase = "building" /\ call.op = "rollback" /\ retained = {}
                 /\ BuildsUp(call.space)
                 /\ call.space = 1 => owners[2].state = "Absent"
                 /\ call.space = 2 => owners[1].live /\ owners[1].state = "Inactive"
              \/ /\ phase = "building" /\ call.op = "teardown" /\ call.space = 1
                 /\ TearsDown(1)
                 /\ \/ owners[2].state = "Dead" /\ retained = {}
                    \/ owners[2].state = "Building" /\ retained = {2}
              \/ /\ phase = "running" /\ call.op = "teardown" /\ retained = {}
                 /\ TearsDown(call.space)
<1>1. call # Idle
  BY DEF Idle, UnwindingSteps
<1>2. call.space \in Spaces /\ call.op \in {"rollback", "teardown"}
  BY <1>1 DEF ControlInv, CallInv, CallOK, MemoryTypeOK, CallType, UnwindingSteps, BuildingSteps
<1>3. phase \in {"building", "running"}
  BY <1>1 DEF ControlInv, PhaseInv, MemoryTypeOK
<1>4. CASE phase = "building"
  BY <1>1, <1>2, <1>4 DEF ControlInv, PhaseInv, BuildsUp, TearsDown
<1>5. CASE phase = "running"
  BY <1>1, <1>2, <1>5 DEF ControlInv, PhaseInv, TearsDown
<1> QED
  BY <1>1, <1>2, <1>3, <1>4, <1>5

(* The next call of the same operation on the same space. *)
NextCall(c, d) ==
    /\ d \in CallType /\ d # Idle /\ d.space = c.space
    /\ d.op = "teardown" <=> c.op = "teardown"
    /\ d.op # "idle"

(* The owners keep their states and lives; what is not begun or is gone    *)
(* holds no frame, and what is published keeps its frames.                 *)
SameStanding ==
    /\ owners' \in [Spaces -> OwnerType]
    /\ \A s \in Spaces :
          /\ owners'[s].state = owners[s].state /\ owners'[s].live = owners[s].live
          /\ owners[s].state \in {"Absent", "Dead"} => owners'[s].ledger = <<>>
          /\ IsPublished(owners[s]) => owners'[s].ledger = owners[s].ledger

(* A step that moves the call on, or changes the ledger of the space it    *)
(* works on, leaves the phase what it says.                                *)
LEMMA LedgerMoves ==
    ASSUME ControlInv, call # Idle, NextCall(call, call'), CallInv', SameStanding,
           UNCHANGED <<phase, retained>>
    PROVE  ControlInv'
<1>1. MemoryTypeOK'
  BY DEF ControlInv, MemoryTypeOK, NextCall, SameStanding
<1>2. call.space \in Spaces /\ call.op \in {"construct", "rollback", "teardown"}
  BY DEF ControlInv, CallInv, CallOK, MemoryTypeOK, CallType
<1>3. call'.op \in {"construct", "rollback", "teardown"}
  BY DEF NextCall, CallType
<1>4. \A s \in Spaces : (BuildsUp(s) => BuildsUp(s)') /\ (TearsDown(s) => TearsDown(s)')
  BY <1>2, <1>3 DEF BuildsUp, TearsDown, NextCall, SameStanding
<1>5. \A s \in Spaces : InCall(s) <=> InCall(s)'
  BY DEF InCall, NextCall
<1>6. call' # Idle /\ call'.space = call.space
  BY DEF NextCall
<1>7. \A s \in Spaces : IsPublished(owners[s]) <=> IsPublished(owners'[s])
  BY DEF IsPublished, SameStanding
<1>8. PhaseInv'
  <2>a. \A s \in Spaces :
           /\ owners'[s].state \in {"Absent", "Dead"} => owners'[s].ledger = <<>>
           /\ IsPublished(owners'[s]) => Len(owners'[s].ledger) = 7
    BY <1>7 DEF ControlInv, PhaseInv, SameStanding
  <2>1. CASE phase = "building"
    BY <1>4, <1>6, <2>1, <2>a DEF ControlInv, PhaseInv, Spaces, SameStanding
  <2>2. CASE phase = "running"
    <3>1. \A s \in Spaces : owners[s].state # "Active"
      BY <2>2 DEF ControlInv, PhaseInv
    <3> QED
      BY <1>2, <1>4, <1>5, <1>6, <1>7, <2>2, <2>a, <3>1 DEF ControlInv, PhaseInv, SameStanding
  <2> QED
    BY <2>1, <2>2 DEF ControlInv, PhaseInv, MemoryTypeOK
<1> QED
  BY <1>1, <1>8 DEF ControlInv

(* A step that only moves the call on. *)
LEMMA CallMoves ==
    ASSUME ControlInv, call # Idle, NextCall(call, call'), CallInv',
           UNCHANGED <<owners, phase, retained>>
    PROVE  ControlInv'
<1>1. SameStanding
  BY DEF ControlInv, MemoryTypeOK, PhaseInv, SameStanding
<1> QED
  BY <1>1, LedgerMoves

(* The first call of the unwinding of a space. *)
StartsUnwinding(d, op, s, o, links) ==
    /\ d \in CallType /\ d # Idle /\ CallOK(d, Len(o.ledger))
    /\ d.op = op /\ d.space = s /\ d.links = links
    /\ d.step = "window" => Len(o.ledger) = 0
    /\ d.step \notin {"verify", "return"}

(* An unwinding starts with the links, then the shared entries of a root   *)
(* that is owned, and goes to the temporary window at once when nothing    *)
(* is owned.                                                               *)
LEMMA UnwindStart ==
    ASSUME NEW op \in {"rollback", "teardown"}, NEW s \in Spaces, NEW o \in OwnerType,
           NEW links \in 0 .. 6, links > 0 => Len(o.ledger) = 7
    PROVE  StartsUnwinding(Unwinding(op, s, o, links), op, s, o, links)
<1> DEFINE n == Len(o.ledger)
           step == UnwindStep(o, links)
<1>1. n \in 0 .. 7
  BY LedgerFacts
<1>2. OwnsRole(o, "Root") <=> n > 0
  BY RootPlace
<1>3. /\ links > 0 => step = "unlink"
      /\ links = 0 /\ n > 0 => step = "shared"
      /\ links = 0 /\ n = 0 => step = "window"
  BY <1>1, <1>2 DEF UnwindStep
<1>4. step \in {"unlink", "shared", "window"}
  BY <1>1, <1>3
<1> HIDE DEF n, step
<1>5. [op |-> op, space |-> s, step |-> step, links |-> links] \in CallType
  BY <1>4 DEF CallType, UnwindingSteps, Spaces
<1>6. Unwinding(op, s, o, links) = [op |-> op, space |-> s, step |-> step, links |-> links]
  BY DEF Unwinding, step
<1>7. CallOK([op |-> op, space |-> s, step |-> step, links |-> links], n)
  BY <1>1, <1>3, <1>4 DEF CallOK, BuildingSteps, n
<1>8. [op |-> op, space |-> s, step |-> step, links |-> links] # Idle
  BY DEF Idle
<1>9. (step = "window" => n = 0) /\ step \notin {"verify", "return"}
  BY <1>1, <1>3, <1>4
<1> QED
  BY <1>5, <1>6, <1>7, <1>8, <1>9 DEF n, StartsUnwinding

(* A construction that gives up is rolled back from what is installed. *)
LEMMA RollbackMoves ==
    ASSUME ControlInv, call.step \in BuildingSteps, Rollback,
           UNCHANGED <<owners, phase, retained>>
    PROVE  /\ ControlInv' /\ call'.op = "rollback" /\ call'.links = call.links
           /\ call'.space = call.space /\ call' # Idle
           /\ call'.step = "window" => Len(owners[call.space].ledger) = 0
           /\ call'.step \notin {"verify", "return"}
<1>1. call # Idle /\ call.space \in Spaces /\ call.op = "construct"
  BY WhileBuilding
<1>2. owners[call.space] \in OwnerType /\ call.links \in 0 .. 6
  BY <1>1 DEF ControlInv, MemoryTypeOK, CallType
<1>3. call.links > 0 => Len(owners[call.space].ledger) = 7
  BY <1>1, <1>2 DEF ControlInv, CallInv, CallOK
<1>4. call' = Unwinding("rollback", call.space, owners[call.space], call.links)
  BY DEF Rollback
<1>5. /\ call' \in CallType /\ call' # Idle /\ CallOK(call', Len(owners[call.space].ledger))
      /\ call'.op = "rollback" /\ call'.space = call.space /\ call'.links = call.links
      /\ call'.step = "window" => Len(owners[call.space].ledger) = 0
      /\ call'.step \notin {"verify", "return"}
  BY <1>1, <1>2, <1>3, <1>4, UnwindStart, SMTT(30) DEF StartsUnwinding
<1>6. CallInv'
  BY <1>5 DEF CallInv
<1>7. NextCall(call, call')
  BY <1>1, <1>5 DEF NextCall
<1> QED
  BY <1>1, <1>5, <1>6, <1>7, CallMoves

(* What the control invariant says of the space of the call. *)
LEMMA CalledSpace ==
    ASSUME ControlInv, call # Idle
    PROVE  /\ call \in CallType /\ call.space \in Spaces /\ call.links \in 0 .. 6
           /\ owners[call.space] \in OwnerType
           /\ Len(owners[call.space].ledger) \in 0 .. 7
           /\ CallOK(call, Len(owners[call.space].ledger))
<1>1. call \in CallType /\ call.space \in Spaces /\ CallOK(call, Len(owners[call.space].ledger))
  BY DEF ControlInv, MemoryTypeOK, CallInv, CallOK
<1>2. owners[call.space] \in OwnerType /\ call.links \in 0 .. 6
  BY <1>1 DEF ControlInv, MemoryTypeOK, CallType
<1> QED
  BY <1>1, <1>2, LedgerFacts

(* Preparing a frame is a step of a construction: the next frame is asked  *)
(* for, or the links begin.                                                *)
LEMMA PrepareMoves ==
    ASSUME ControlInv, PrepareFrame
    PROVE  /\ ControlInv' /\ call'.op = "construct" /\ call'.space = call.space
           /\ call' # Idle /\ call'.links = 0 /\ call'.step \in {"allocate", "link"}
<1> DEFINE n == Len(owners[call.space].ledger)
<1>1. call.step = "prepare" /\ UNCHANGED <<owners, phase, retained>>
  BY DEF PrepareFrame
<1>2. call # Idle /\ call.op = "construct"
  BY <1>1, WhileBuilding DEF BuildingSteps
<1>3. /\ call \in CallType /\ call.space \in Spaces /\ n \in 0 .. 7 /\ n > 0
      /\ call.links = 0
  BY <1>1, <1>2, CalledSpace DEF CallOK
<1>4. call' = [call EXCEPT !.step = IF n = 7 THEN "link" ELSE "allocate"]
  BY Sizes DEF PrepareFrame
<1>5. /\ call'.op = "construct" /\ call'.space = call.space /\ call'.links = 0
      /\ call'.step \in {"allocate", "link"} /\ (call'.step = "link" <=> n = 7)
      /\ call' \in CallType
  BY <1>2, <1>3, <1>4 DEF CallType, BuildingSteps
<1>6. call' # Idle
  BY <1>5 DEF Idle
<1> HIDE DEF n
<1>7. CallOK(call', n)
  <2>1. call'.step = "allocate" => n < 7
    BY <1>3, <1>5
  <2> QED
    BY <1>3, <1>5, <2>1 DEF CallOK, BuildingSteps
<1>8. CallInv'
  BY <1>1, <1>5, <1>7 DEF CallInv, n
<1>9. NextCall(call, call')
  BY <1>2, <1>5, <1>6 DEF NextCall
<1> QED
  BY <1>1, <1>2, <1>5, <1>6, <1>8, <1>9, CallMoves

(* The call after one more link. *)
LEMMA Counted ==
    ASSUME NEW c \in CallType, NEW k \in 0 .. 6, NEW step \in BuildingSteps
    PROVE  LET d == [c EXCEPT !.links = k, !.step = step]
           IN  /\ d.op = c.op /\ d.space = c.space /\ d.links = k /\ d.step = step
               /\ d \in CallType
<1> QED
  BY Zenon DEF CallType

(* Installing a link counts it; the ledger is full by then. *)
LEMMA InstallMoves ==
    ASSUME ControlInv, InstallLink
    PROVE  /\ ControlInv' /\ call'.op = "construct" /\ call'.space = call.space
           /\ call' # Idle /\ call'.links = call.links + 1 /\ call.links \in 0 .. 5
           /\ call'.step \in {"link", "publish"}
           /\ Len(owners[call.space].ledger) = 7
<1> DEFINE n == Len(owners[call.space].ledger)
<1>1. call.step = "link" /\ UNCHANGED <<owners, phase, retained>>
  BY DEF InstallLink
<1>2. call # Idle /\ call.op = "construct"
  BY <1>1, WhileBuilding DEF BuildingSteps
<1>3. /\ call \in CallType /\ call.space \in Spaces /\ n = 7
      /\ call.links \in 0 .. 5
  BY <1>1, <1>2, CalledSpace DEF CallOK
<1>4. call' = [call EXCEPT !.links = @ + 1,
                           !.step = IF call.links + 1 = 6 THEN "publish" ELSE @]
  BY Sizes DEF InstallLink, Entry
<1>5. /\ call'.op = "construct" /\ call'.space = call.space /\ call'.links = call.links + 1
      /\ call'.step = (IF call.links + 1 = 6 THEN "publish" ELSE "link")
      /\ call' \in CallType
  <2>1. PICK k \in 1 .. 6 : k = call.links + 1
    BY <1>3
  <2>2. PICK step \in {"publish", "link"} : step = IF k = 6 THEN "publish" ELSE call.step
    BY <1>1
  <2>3. call' = [call EXCEPT !.links = k, !.step = step]
    BY <1>4, <2>1, <2>2
  <2>4. step \in BuildingSteps /\ k \in 0 .. 6
    BY DEF BuildingSteps
  <2>a. LET d == [call EXCEPT !.links = k, !.step = step]
        IN  /\ d.op = call.op /\ d.space = call.space /\ d.links = k /\ d.step = step
            /\ d \in CallType
    BY <1>3, <2>4, Counted
  <2>5. /\ call'.op = call.op /\ call'.space = call.space /\ call'.links = k
        /\ call'.step = step /\ call' \in CallType
    BY <2>3, <2>a, Zenon
  <2> QED
    BY <1>1, <1>2, <2>1, <2>2, <2>5
<1>6. call' # Idle
  BY <1>5 DEF Idle
<1>7. CallOK(call', n)
  BY <1>3, <1>5 DEF CallOK, BuildingSteps
<1>8. CallInv'
  BY <1>1, <1>5, <1>7 DEF CallInv
<1>9. NextCall(call, call')
  BY <1>2, <1>5, <1>6 DEF NextCall
<1> QED
  BY <1>1, <1>2, <1>3, <1>5, <1>6, <1>8, <1>9, CallMoves

(* Removing a link is a step of an unwinding, before any frame is returned. *)
LEMMA RemoveMoves ==
    ASSUME ControlInv, RemoveLink
    PROVE  /\ ControlInv' /\ call'.op = call.op /\ call'.space = call.space /\ call.op # "construct"
           /\ call' # Idle /\ call'.links = call.links - 1 /\ call.links \in 1 .. 6
           /\ call'.step \notin {"window", "verify", "return"}
<1> DEFINE n == Len(owners[call.space].ledger)
<1>1. call.step = "unlink" /\ UNCHANGED <<owners, phase, retained>>
  BY DEF RemoveLink
<1>2. call # Idle /\ call.op \in {"rollback", "teardown"} /\ call.space \in Spaces
  BY <1>1, WhileUnwinding DEF UnwindingSteps
<1>3. n = 7 /\ call.links \in 1 .. 6 /\ owners[call.space] \in OwnerType
  BY <1>1, <1>2, CalledSpace DEF CallOK
<1>4. call' = Unwinding(call.op, call.space, owners[call.space], call.links - 1)
  BY DEF RemoveLink
<1>5. PICK k \in 0 .. 6 : k = call.links - 1
  BY <1>3
<1>6. /\ call' \in CallType /\ call' # Idle /\ CallOK(call', n)
      /\ call'.op = call.op /\ call'.space = call.space /\ call'.links = call.links - 1
      /\ call'.step = "window" => n = 0
      /\ call'.step \notin {"verify", "return"}
  <2>1. PICK op \in {"rollback", "teardown"}, s \in Spaces, o \in OwnerType :
             op = call.op /\ s = call.space /\ o = owners[call.space]
    BY <1>2, <1>3
  <2>2. Len(o.ledger) = 7 /\ n = 7
    BY <1>3, <2>1
  <2>3. StartsUnwinding(Unwinding(op, s, o, k), op, s, o, k)
    BY <2>2, UnwindStart
  <2>4. call' = Unwinding(op, s, o, k)
    BY <1>4, <1>5, <2>1
  <2>5. /\ call' \in CallType /\ call' # Idle /\ CallOK(call', 7)
        /\ call'.op = op /\ call'.space = s /\ call'.links = k
        /\ call'.step = "window" => Len(o.ledger) = 0
        /\ call'.step \notin {"verify", "return"}
    BY <2>2, <2>3, <2>4 DEF StartsUnwinding
  <2> QED
    BY <1>5, <2>1, <2>2, <2>5
<1>7. CallInv'
  BY <1>1, <1>6 DEF CallInv
<1>8. NextCall(call, call')
  BY <1>2, <1>6 DEF NextCall
<1> QED
  BY <1>1, <1>2, <1>3, <1>6, <1>7, <1>8, CallMoves

(* The three calls of an unwinding after the links. *)
LEMMA ClearMoves ==
    ASSUME ControlInv, ClearSharedEntries \/ ClearTemporaryWindow \/ VerifyUnreachable
    PROVE  /\ ControlInv' /\ call'.op = call.op /\ call'.space = call.space /\ call.op # "construct"
           /\ call # Idle /\ call' # Idle /\ call'.links = 0 /\ call.links = 0
           /\ call.step = "shared" => Len(owners[call.space].ledger) > 0
<1> DEFINE n == Len(owners[call.space].ledger)
<1>1. call.step \in {"shared", "window", "verify"} /\ UNCHANGED <<owners, phase, retained>>
  BY DEF ClearSharedEntries, ClearTemporaryWindow, VerifyUnreachable
<1>2. call # Idle /\ call.op \in {"rollback", "teardown"} /\ call.space \in Spaces
  BY <1>1, WhileUnwinding DEF UnwindingSteps
<1>3. /\ call \in CallType /\ n \in 0 .. 7 /\ call.links = 0
      /\ call.step = "shared" => n > 0
  BY <1>1, <1>2, CalledSpace DEF CallOK
<1>4. PICK step \in {"window", "verify", "return"} : call' = [call EXCEPT !.step = step]
  BY DEF ClearSharedEntries, ClearTemporaryWindow, VerifyUnreachable
<1>5. /\ call'.op = call.op /\ call'.space = call.space /\ call'.links = 0
      /\ call'.step = step /\ call' \in CallType
  BY <1>3, <1>4 DEF CallType, UnwindingSteps
<1>6. call' # Idle
  BY <1>5 DEF Idle
<1>7. CallOK(call', n)
  BY <1>2, <1>3, <1>5 DEF CallOK, BuildingSteps
<1>8. CallInv'
  BY <1>1, <1>5, <1>7 DEF CallInv
<1>9. NextCall(call, call')
  BY <1>2, <1>5, <1>6 DEF NextCall
<1> QED
  BY <1>1, <1>2, <1>3, <1>5, <1>6, <1>8, <1>9, CallMoves
-----------------------------------------------------------------------------
(* A ledger gains its next frame and loses its last one. *)

(* What record_frame makes of an owner. *)
Records(o, frame, p) ==
    /\ p \in OwnerType /\ p.state = o.state /\ p.live = o.live /\ p.root = o.root
    /\ Len(p.ledger) = Len(o.ledger) + 1
    /\ \A i \in 1 .. Len(o.ledger) : p.ledger[i] = o.ledger[i]
    /\ p.ledger[Len(o.ledger) + 1].frame = frame

(* FrameLedger::push_owned adds the frame under the next role. *)
LEMMA LedgerGrows ==
    ASSUME NEW o \in OwnerType, Len(o.ledger) < 7, NEW frame \in Nat
    PROVE  Records(o, frame, RecordFrame(o, Roles[Len(o.ledger) + 1], frame))
<1>1. PICK l \in Seq(OwnedFrame), n \in 0 .. 6 :
         /\ l = o.ledger /\ n = Len(l)
         /\ \A i \in 1 .. n : l[i].role = Roles[i]
  <2>1. Len(o.ledger) \in 0 .. 6
    <3>1. \A k \in 0 .. 7 : k < 7 => k \in 0 .. 6
      OBVIOUS
    <3> QED
      BY <3>1, LedgerFacts, Zenon
  <2>2. o.ledger \in Seq(OwnedFrame) /\ \A i \in 1 .. Len(o.ledger) : o.ledger[i].role = Roles[i]
    BY LedgerFacts
  <2> QED
    BY <2>1, <2>2, Zenon
<1>2. Roles[n + 1] \in RoleNames
  <2>1. n + 1 \in 1 .. 7
    OBVIOUS
  <2> QED
    BY <2>1 DEF RoleNames
<1>3. PICK role \in RoleNames : role = Roles[n + 1]
  BY <1>2
<1>4. PICK e \in OwnedFrame : e = [role |-> role, frame |-> frame]
  BY Zenon DEF OwnedFrame
<1>5. PICK m : m = Append(l, e)
  BY Zenon
<1>6. /\ m \in Seq(OwnedFrame) /\ Len(m) = n + 1 /\ m[n + 1] = e
      /\ \A i \in 1 .. n : m[i] = l[i]
  BY <1>1, <1>5
<1>7. e.role = Roles[n + 1] /\ e.frame = frame
  BY <1>3, <1>4
<1>8. \A i \in 1 .. (n + 1) : m[i].role = Roles[i]
  BY <1>1, <1>6, <1>7, SMTT(30)
<1>9. m \in Ledgers
  BY <1>6, <1>8 DEF Ledgers
<1>10. PICK p : p = [o EXCEPT !.ledger = m]
  BY Zenon
<1>11. /\ p \in OwnerType /\ p.state = o.state /\ p.live = o.live /\ p.root = o.root
       /\ p.ledger = m
  BY <1>9, <1>10 DEF OwnerType
<1>12. p = RecordFrame(o, Roles[Len(o.ledger) + 1], frame)
  BY <1>1, <1>3, <1>4, <1>5, <1>10 DEF RecordFrame, OwnerType
<1>13. Records(o, frame, p)
  BY <1>1, <1>6, <1>7, <1>11 DEF Records
<1> QED
  BY <1>12, <1>13

(* The frames of a ledger are those at its places. *)
LEMMA FramesAtPlaces ==
    ASSUME NEW o \in OwnerType
    PROVE  \A f : f \in LedgerFrames(o) <=> \E i \in 1 .. Len(o.ledger) : o.ledger[i].frame = f
<1> QED
  BY LedgerFacts DEF LedgerFrames

(* The recorded frame is one more of the ledger's. *)
LEMMA RecordsFrame ==
    ASSUME NEW o \in OwnerType, NEW frame \in Nat, NEW p, Records(o, frame, p)
    PROVE  LedgerFrames(p) = LedgerFrames(o) \union {frame}
<1>1. PICK n \in Nat : n = Len(o.ledger)
  BY LedgerFacts
<1>2. /\ p \in OwnerType /\ Len(p.ledger) = n + 1
      /\ \A i \in 1 .. n : p.ledger[i] = o.ledger[i]
      /\ p.ledger[n + 1].frame = frame
  BY <1>1 DEF Records
<1>3. \A f : f \in LedgerFrames(o) <=> \E i \in 1 .. n : o.ledger[i].frame = f
  BY <1>1, FramesAtPlaces
<1>4. \A f : f \in LedgerFrames(p) <=> \E i \in 1 .. (n + 1) : p.ledger[i].frame = f
  BY <1>2, FramesAtPlaces
<1>5. \A i \in 1 .. (n + 1) : i \in 1 .. n \/ i = n + 1
  OBVIOUS
<1>6. \A i \in 1 .. n : i \in 1 .. (n + 1)
  OBVIOUS
<1>7. n + 1 \in 1 .. (n + 1)
  OBVIOUS
<1>8. ASSUME NEW f PROVE f \in LedgerFrames(p) <=> f \in LedgerFrames(o) \union {frame}
  BY <1>2, <1>3, <1>4, <1>5, <1>6, <1>7, Zenon
<1> QED
  BY <1>8, Zenon

(* record_frame accepts a frame that the ledger does not hold: its role is *)
(* new too.                                                                *)
LEMMA FreshAccepted ==
    ASSUME NEW o \in OwnerType, NEW frame \in Nat, NEW p, Records(o, frame, p),
           frame \notin LedgerFrames(o)
    PROVE  LatestAccepted(p.ledger)
<1>1. PICK n \in 0 .. 7 : n = Len(o.ledger)
  BY LedgerFacts
<1>2. /\ p \in OwnerType /\ Len(p.ledger) = n + 1
      /\ \A i \in 1 .. n : p.ledger[i] = o.ledger[i]
      /\ p.ledger[n + 1].frame = frame
  BY <1>1 DEF Records
<1>3. PICK l : l = p.ledger
  OBVIOUS
<1>4. /\ Len(l) = n + 1 /\ l[n + 1].frame = frame /\ n + 1 \in 0 .. 7
      /\ \A i \in 1 .. (n + 1) : l[i].role = Roles[i]
  BY <1>2, <1>3, LedgerFacts, Zenon
<1>5. ASSUME NEW i \in 1 .. n PROVE l[i].frame # frame
  BY <1>1, <1>2, <1>3, <1>5, FramesAtPlaces
<1>6. ASSUME NEW i \in 1 .. n PROVE l[i].role # l[n + 1].role
  <2>1. i \in 1 .. (n + 1) /\ n + 1 \in 1 .. (n + 1) /\ i # n + 1
    OBVIOUS
  <2>2. l[i].role = Roles[i] /\ l[n + 1].role = Roles[n + 1]
    BY <1>4, <2>1
  <2>3. i \in 1 .. 7 /\ n + 1 \in 1 .. 7
    BY <1>4
  <2> QED
    BY <2>1, <2>2, <2>3, RolesDiffer
<1>7. Last(l) = l[n + 1] /\ Len(l) - 1 = n
  BY <1>4 DEF Last
<1>8. \A i \in 1 .. n : l[i].frame # Last(l).frame /\ l[i].role # Last(l).role
  BY <1>4, <1>5, <1>6, <1>7, Zenon
<1> QED
  BY <1>3, <1>7, <1>8, Zenon DEF LatestAccepted

(* What the return of the last frame makes of an owner. *)
Returns(o, p) ==
    /\ p \in OwnerType /\ p.state = o.state /\ p.live = o.live /\ p.root = o.root
    /\ Len(p.ledger) + 1 = Len(o.ledger)
    /\ \A i \in 1 .. Len(p.ledger) : p.ledger[i] = o.ledger[i]

(* FrameLedger::pop leaves every frame but the last where it was. *)
LEMMA LedgerShrinks ==
    ASSUME NEW o \in OwnerType, o.ledger # <<>>
    PROVE  Returns(o, [o EXCEPT !.ledger = Front(@)])
<1>1. PICK l \in Seq(OwnedFrame), n \in 0 .. 7 :
         /\ l = o.ledger /\ n = Len(l)
         /\ \A i \in 1 .. n : l[i].role = Roles[i]
  BY LedgerFacts, Zenon
<1>2. n # 0
  BY <1>1
<1>3. PICK k \in 0 .. 6 : k = n - 1
  BY <1>2
<1>4. PICK m : m = Front(l)
  OBVIOUS
<1>5. m = SubSeq(l, 1, k)
  BY <1>1, <1>3, <1>4 DEF Front
<1>6. /\ m \in Seq(OwnedFrame) /\ Len(m) = k
      /\ \A i \in 1 .. k : m[i] = l[i]
  BY <1>1, <1>3, <1>5
<1>7. \A i \in 1 .. k : m[i].role = Roles[i]
  BY <1>1, <1>3, <1>6
<1>8. m \in Ledgers
  BY <1>6, <1>7 DEF Ledgers
<1>9. PICK p : p = [o EXCEPT !.ledger = m]
  BY Zenon
<1>10. /\ p \in OwnerType /\ p.state = o.state /\ p.live = o.live /\ p.root = o.root
       /\ p.ledger = m
  BY <1>8, <1>9 DEF OwnerType
<1>11. p = [o EXCEPT !.ledger = Front(@)]
  BY <1>1, <1>4, <1>9 DEF OwnerType
<1>12. Returns(o, p)
  BY <1>1, <1>3, <1>6, <1>10 DEF Returns
<1> QED
  BY <1>11, <1>12

(* The returned frame is one fewer of the ledger's. *)
LEMMA ReturnsFrame ==
    ASSUME NEW o \in OwnerType, o.ledger # <<>>, NEW p, Returns(o, p),
           \A i, j \in DOMAIN o.ledger : o.ledger[i].frame = o.ledger[j].frame => i = j
    PROVE  /\ LedgerFrames(p) = LedgerFrames(o) \ {Last(o.ledger).frame}
           /\ Last(o.ledger).frame \in LedgerFrames(o)
           /\ Last(o.ledger).frame \in Nat
<1>1. PICK k \in Nat : k = Len(p.ledger)
  BY LedgerFacts DEF Returns
<1>2. p \in OwnerType /\ k + 1 = Len(o.ledger) /\ \A i \in 1 .. k : p.ledger[i] = o.ledger[i]
  BY <1>1 DEF Returns
<1>3. PICK frame : frame = o.ledger[k + 1].frame
  OBVIOUS
<1>4. Last(o.ledger).frame = frame
  BY <1>2, <1>3 DEF Last
<1>5. \A f : f \in LedgerFrames(p) <=> \E i \in 1 .. k : p.ledger[i].frame = f
  BY <1>1, <1>2, FramesAtPlaces
<1>6. \A f : f \in LedgerFrames(o) <=> \E i \in 1 .. (k + 1) : o.ledger[i].frame = f
  BY <1>2, FramesAtPlaces
<1>7. \A i \in 1 .. (k + 1) : i \in 1 .. k \/ i = k + 1
  OBVIOUS
<1>8. \A i \in 1 .. k : i \in 1 .. (k + 1) /\ i # k + 1
  OBVIOUS
<1>9. k + 1 \in 1 .. (k + 1)
  OBVIOUS
<1>10. \A i \in 1 .. k : o.ledger[i].frame # frame
  BY <1>2, <1>3, <1>8, <1>9, LedgerFacts
<1>11. ASSUME NEW f PROVE f \in LedgerFrames(p) <=> f \in LedgerFrames(o) \ {frame}
  <2>1. ASSUME f \in LedgerFrames(p) PROVE f \in LedgerFrames(o) /\ f # frame
    <3>1. PICK i \in 1 .. k : o.ledger[i].frame = f
      BY <1>2, <1>5, <2>1
    <3> QED
      BY <1>6, <1>8, <1>10, <3>1
  <2>2. ASSUME f \in LedgerFrames(o), f # frame PROVE f \in LedgerFrames(p)
    <3>1. PICK i \in 1 .. (k + 1) : o.ledger[i].frame = f
      BY <1>6, <2>2
    <3>2. i \in 1 .. k
      BY <1>3, <1>7, <2>2, <3>1
    <3> QED
      BY <1>2, <1>5, <3>1, <3>2
  <2> QED
    BY <2>1, <2>2, Zenon
<1>12. LedgerFrames(p) = LedgerFrames(o) \ {frame}
  BY <1>11, Zenon
<1>13. frame \in LedgerFrames(o) /\ frame \in Nat
  BY <1>2, <1>3, <1>6, <1>9, LedgerFacts
<1> QED
  BY <1>4, <1>12, <1>13, Zenon

(* The space a call works on is begun, not published and not gone. *)
LEMMA CalledIsBegun ==
    ASSUME ControlInv, call # Idle
    PROVE  owners[call.space].state \notin {"Absent", "Dead"} /\ ~IsPublished(owners[call.space])
<1>1. call.step \in BuildingSteps \/ call.step \in UnwindingSteps
  BY CalledSpace DEF CallOK, CallType
<1>2. CASE call.step \in BuildingSteps
  BY <1>2, WhileBuilding DEF BuildsUp, IsPublished
<1>3. CASE call.step \in UnwindingSteps
  BY <1>3, WhileUnwinding DEF BuildsUp, TearsDown, IsPublished
<1> QED
  BY <1>1, <1>2, <1>3

(* Only the ledger of the space of the call changes. *)
LEMMA LedgerStanding ==
    ASSUME ControlInv, call # Idle, NEW p \in OwnerType,
           p.state = owners[call.space].state, p.live = owners[call.space].live,
           owners' = [owners EXCEPT ![call.space] = p]
    PROVE  /\ SameStanding
           /\ owners'[call.space] = p
           /\ \A t \in Spaces : t # call.space => owners'[t] = owners[t]
<1>1. call.space \in Spaces
  BY CalledSpace
<1>2. owners \in [Spaces -> OwnerType]
  BY DEF ControlInv, MemoryTypeOK
<1>3. /\ owners' \in [Spaces -> OwnerType]
      /\ owners'[call.space] = p
      /\ \A t \in Spaces : t # call.space => owners'[t] = owners[t]
  BY <1>1, <1>2
<1>4. \A s \in Spaces : owners[s].state \in {"Absent", "Dead"} => owners[s].ledger = <<>>
  BY DEF ControlInv, PhaseInv
<1>5. owners[call.space].state \notin {"Absent", "Dead"} /\ ~IsPublished(owners[call.space])
  BY CalledIsBegun
<1>6. ASSUME NEW s \in Spaces
      PROVE  /\ owners'[s].state = owners[s].state /\ owners'[s].live = owners[s].live
             /\ owners[s].state \in {"Absent", "Dead"} => owners'[s].ledger = <<>>
             /\ IsPublished(owners[s]) => owners'[s].ledger = owners[s].ledger
  <2>1. CASE s = call.space
    BY <1>3, <1>5, <2>1, Zenon
  <2>2. CASE s # call.space
    BY <1>3, <1>4, <2>2, Zenon
  <2> QED
    BY <2>1, <2>2
<1> QED
  BY <1>3, <1>6 DEF SameStanding

(* A frame the allocator gives goes to the space being built, to be        *)
(* prepared next; the other space is left alone.                           *)
LEMMA ReceiveMoves ==
    ASSUME ControlInv, NEW frame \in Nat, frame \notin LedgerFrames(owners[call.space]),
           ReceiveFrame(frame)
    PROVE  /\ ControlInv' /\ call.space \in Spaces /\ call.op = "construct" /\ call # Idle
           /\ call'.op = "construct" /\ call'.space = call.space /\ call' # Idle
           /\ call'.links = 0 /\ call.links = 0 /\ call'.step = "prepare"
           /\ Records(owners[call.space], frame, owners'[call.space])
           /\ \A t \in Spaces : t # call.space => owners'[t] = owners[t]
<1> DEFINE s == call.space
           n == Len(owners[s].ledger)
<1>1. call.step = "allocate" /\ UNCHANGED <<phase, retained>>
  BY DEF ReceiveFrame
<1>2. call # Idle /\ call.op = "construct"
  BY <1>1, WhileBuilding DEF BuildingSteps
<1>3. /\ call \in CallType /\ s \in Spaces /\ n \in 0 .. 7 /\ n < 7
      /\ call.links = 0 /\ owners[s] \in OwnerType
  BY <1>1, <1>2, CalledSpace DEF CallOK
<1>4. PICK p : p = RecordFrame(owners[s], Roles[n + 1], frame)
  OBVIOUS
<1>5. Records(owners[s], frame, p)
  BY <1>3, <1>4, LedgerGrows
<1>6. p \in OwnerType /\ p.state = owners[s].state /\ p.live = owners[s].live
  BY <1>5 DEF Records
<1>7. owners' = [owners EXCEPT ![s] = p]
  BY <1>3, <1>4 DEF ReceiveFrame, ControlInv, MemoryTypeOK
<1>8. /\ SameStanding /\ owners'[s] = p
      /\ \A t \in Spaces : t # s => owners'[t] = owners[t]
  BY <1>2, <1>6, <1>7, LedgerStanding, Zenon
<1>9. LatestAccepted(owners'[s].ledger)
  BY <1>3, <1>5, <1>8, FreshAccepted
<1>10. call' = [call EXCEPT !.step = "prepare"]
  BY <1>9 DEF ReceiveFrame
<1>11. /\ call'.op = "construct" /\ call'.space = s /\ call'.links = 0
       /\ call'.step = "prepare" /\ call' \in CallType
  BY <1>2, <1>3, <1>10 DEF CallType, BuildingSteps
<1>12. call' # Idle
  BY <1>11 DEF Idle
<1>13. Len(p.ledger) = n + 1
  BY <1>5 DEF Records
<1>14. CallOK(call', n + 1)
  BY <1>3, <1>11 DEF CallOK, BuildingSteps
<1>15. CallInv'
  BY <1>8, <1>11, <1>13, <1>14 DEF CallInv
<1>16. NextCall(call, call')
  BY <1>2, <1>11, <1>12 DEF NextCall
<1>17. ControlInv'
  BY <1>1, <1>2, <1>8, <1>15, <1>16, LedgerMoves
<1> QED
  BY <1>2, <1>3, <1>5, <1>8, <1>11, <1>12, <1>17

(* return_frame is a step of an unwinding whose links are all gone; it takes *)
(* the last frame of the space and leaves the other space alone.           *)
LEMMA ReturnMoves ==
    ASSUME ControlInv, ReturnFrame
    PROVE  /\ ControlInv' /\ call.space \in Spaces /\ call.op # "construct" /\ call # Idle
           /\ call.links = 0 /\ call.step = "return" /\ call' = call
           /\ owners[call.space].ledger # <<>>
           /\ Returns(owners[call.space], owners'[call.space])
           /\ \A t \in Spaces : t # call.space => owners'[t] = owners[t]
<1> DEFINE s == call.space
           n == Len(owners[s].ledger)
<1>1. /\ call.step = "return" /\ UNCHANGED <<call, phase, retained>>
      /\ owners[s].ledger # <<>>
  BY DEF ReturnFrame
<1>2. call # Idle /\ call.op \in {"rollback", "teardown"}
  BY <1>1, WhileUnwinding DEF UnwindingSteps
<1>3. /\ call \in CallType /\ s \in Spaces /\ n \in 0 .. 7
      /\ call.links = 0 /\ owners[s] \in OwnerType
  BY <1>1, <1>2, CalledSpace DEF CallOK
<1>4. PICK p : p = [owners[s] EXCEPT !.ledger = Front(@)]
  BY Zenon
<1>5. Returns(owners[s], p)
  BY <1>1, <1>3, <1>4, LedgerShrinks
<1>6. p \in OwnerType /\ p.state = owners[s].state /\ p.live = owners[s].live
  BY <1>5 DEF Returns
<1>7. owners' = [owners EXCEPT ![s] = p]
  BY <1>3, <1>4 DEF ReturnFrame, ControlInv, MemoryTypeOK
<1>8. /\ SameStanding /\ owners'[s] = p
      /\ \A t \in Spaces : t # s => owners'[t] = owners[t]
  BY <1>2, <1>6, <1>7, LedgerStanding, Zenon
<1>9. CallOK(call, Len(p.ledger))
  BY <1>1, <1>2, <1>3 DEF CallOK, BuildingSteps
<1>10. CallInv'
  BY <1>1, <1>8, <1>9 DEF CallInv
<1>11. NextCall(call, call')
  BY <1>1, <1>2, <1>3 DEF NextCall
<1>12. ControlInv'
  BY <1>1, <1>2, <1>8, <1>10, <1>11, LedgerMoves
<1> QED
  BY <1>1, <1>2, <1>3, <1>5, <1>8, <1>12
-----------------------------------------------------------------------------
(* Owners begin, are published, condemned and reaped. *)

(* FrameLedger::new is a ledger. *)
LEMMA EmptyLedger == <<>> \in Ledgers /\ Len(<<>>) = 0
<1>1. <<>> \in Seq(OwnedFrame) /\ Len(<<>>) = 0
  OBVIOUS
<1> QED
  BY <1>1 DEF Ledgers

(* A new owner holds no frame. *)
LEMMA NewOwners ==
    /\ NewOwner \in OwnerType /\ NewOwner.ledger = <<>>
    /\ NewOwner.state = "Building" /\ NewOwner.live
    /\ NoOwner \in OwnerType /\ NoOwner.ledger = <<>> /\ NoOwner.state = "Absent"
<1> QED
  BY EmptyLedger DEF NewOwner, NoOwner, OwnerType, OwnerStates, NoFrame

(* Publication writes the root and the state, and no ledger. *)
LEMMA PublishedOwner ==
    ASSUME NEW o \in OwnerType, Len(o.ledger) = 7, o.live
    PROVE  /\ Published(o) \in OwnerType /\ Published(o).ledger = o.ledger
           /\ Published(o).live /\ Published(o).state = "Inactive"
           /\ Published(o).root = o.ledger[1].frame
<1>1. FrameFor(o, "Root") = o.ledger[1].frame
  BY RootPlace
<1>2. PICK root \in Nat : root = FrameFor(o, "Root")
  BY <1>1, LedgerFacts
<1> QED
  BY <1>1, <1>2, Zenon DEF Published, OwnerType, OwnerStates

(* A condemned owner keeps all but its life, a reaped one only its ledger. *)
LEMMA EndedOwners ==
    ASSUME NEW o \in OwnerType
    PROVE  /\ Condemned(o) \in OwnerType /\ Condemned(o).ledger = o.ledger
           /\ ~Condemned(o).live /\ Condemned(o).state = o.state
           /\ Reaped(o) \in OwnerType /\ Reaped(o).ledger = o.ledger
           /\ ~Reaped(o).live /\ Reaped(o).state = "Dead"
<1> QED
  BY Zenon DEF Condemned, Reaped, OwnerType, OwnerStates, NoFrame

(* Construction starts with a frame. *)
LEMMA ConstructingCall ==
    ASSUME NEW s \in Spaces
    PROVE  /\ Constructing(s) \in CallType /\ Constructing(s) # Idle
           /\ Constructing(s).space = s /\ Constructing(s).op = "construct"
           /\ Constructing(s).step = "allocate" /\ Constructing(s).links = 0
           /\ CallOK(Constructing(s), 0)
<1> QED
  BY DEF Constructing, CallType, Idle, Spaces, BuildingSteps, CallOK

(* No call in progress is a state of the call record. *)
LEMMA IdleCall == Idle \in CallType /\ Idle.op = "idle" /\ Idle.space = 0
<1> QED
  BY DEF Idle, CallType

(* Publishing the first space begins the second; publishing the second     *)
(* ends the call with both spaces ready.                                   *)
LEMMA PublishMoves ==
    ASSUME ControlInv, Publish
    PROVE  /\ ControlInv' /\ call # Idle /\ call.space \in Spaces /\ call.op = "construct"
           /\ call.links = 6 /\ Len(owners[call.space].ledger) = 7 /\ call.step = "publish"
           /\ owners'[call.space] = Published(owners[call.space])
           /\ call.space = 1 => /\ owners'[2] = NewOwner /\ owners[2].ledger = <<>>
                                /\ call' = Constructing(2)
           /\ call.space = 2 => owners'[1] = owners[1] /\ call' = Idle
<1> DEFINE s == call.space
<1>1. call.step = "publish"
  BY DEF Publish
<1>2. /\ call # Idle /\ call.op = "construct" /\ s \in Spaces /\ phase = "building"
      /\ retained = {} /\ BuildsUp(s)
      /\ s = 1 => owners[2].state = "Absent"
      /\ s = 2 => owners[1].live /\ owners[1].state = "Inactive"
  BY <1>1, WhileBuilding DEF BuildingSteps
<1>3. Len(owners[s].ledger) = 7 /\ call.links = 6 /\ owners[s] \in OwnerType
  BY <1>1, <1>2, CalledSpace DEF CallOK
<1>4. owners[s].state = "Building" /\ owners[s].live
  BY <1>2 DEF BuildsUp
<1>5. /\ Published(owners[s]) \in OwnerType /\ Published(owners[s]).ledger = owners[s].ledger
      /\ Published(owners[s]).live /\ Published(owners[s]).state = "Inactive"
  BY <1>3, <1>4, PublishedOwner
<1>6. owners \in [Spaces -> OwnerType] /\ 1 \in Spaces /\ 2 \in Spaces
  BY DEF ControlInv, MemoryTypeOK, Spaces
<1>7. owners[1] \in OwnerType /\ owners[2] \in OwnerType
  BY <1>6
<1>8. UNCHANGED retained
  BY DEF Publish
<1>9. CASE s = 1
  <2>1. /\ owners' = [[owners EXCEPT ![1] = Published(owners[1])] EXCEPT ![2] = NewOwner]
        /\ call' = Constructing(2) /\ phase' = phase
    BY <1>3, <1>4, <1>6, <1>9, Sizes DEF Publish
  <2>2. /\ owners' \in [Spaces -> OwnerType]
        /\ owners'[1] = Published(owners[1]) /\ owners'[2] = NewOwner
    BY <1>5, <1>6, <1>9, <2>1, NewOwners DEF Spaces
  <2>3. /\ call' \in CallType /\ call' # Idle /\ call'.space = 2 /\ call'.op = "construct"
        /\ CallOK(call', 0)
    BY <1>6, <2>1, ConstructingCall
  <2>4. MemoryTypeOK'
    BY <2>1, <2>2, <2>3 DEF ControlInv, MemoryTypeOK
  <2>5. CallInv'
    BY <2>2, <2>3, NewOwners, EmptyLedger DEF CallInv
  <2>6. BuildsUp(2)'
    BY <2>2, <2>3, NewOwners DEF BuildsUp
  <2>7. owners'[1].live /\ owners'[1].state = "Inactive"
    BY <1>5, <1>9, <2>2
  <2>8. PhaseInv'
    <3>1. Len(owners'[1].ledger) = 7 /\ owners'[2].ledger = <<>> /\ owners'[2].state = "Building"
      BY <1>3, <1>5, <1>9, <2>2, NewOwners
    <3> QED
      BY <1>2, <1>8, <2>1, <2>3, <2>6, <2>7, <3>1 DEF PhaseInv, Spaces, IsPublished
  <2>9. owners[2].ledger = <<>>
    BY <1>2, <1>6, <1>9 DEF ControlInv, PhaseInv
  <2> QED
    BY <1>1, <1>2, <1>3, <1>9, <2>1, <2>2, <2>4, <2>5, <2>8, <2>9 DEF ControlInv
<1>10. CASE s = 2
  <2>1. /\ owners' = [owners EXCEPT ![2] = Published(owners[2])]
        /\ call' = Idle /\ phase' = "running"
    BY <1>3, <1>4, <1>6, <1>10, Sizes DEF Publish
  <2>2. /\ owners' \in [Spaces -> OwnerType]
        /\ owners'[2] = Published(owners[2]) /\ owners'[1] = owners[1]
    BY <1>5, <1>6, <1>10, <2>1 DEF Spaces
  <2>3. MemoryTypeOK'
    BY <2>1, <2>2, IdleCall DEF ControlInv, MemoryTypeOK
  <2>4. CallInv'
    BY <2>1 DEF CallInv
  <2>5. /\ owners'[1].live /\ owners'[1].state = "Inactive"
        /\ owners'[2].live /\ owners'[2].state = "Inactive"
    BY <1>2, <1>5, <1>10, <2>2
  <2>6. PhaseInv'
    <3>1. Len(owners'[1].ledger) = 7 /\ Len(owners'[2].ledger) = 7
      BY <1>2, <1>3, <1>5, <1>6, <1>10, <2>2, SMTT(30) DEF ControlInv, PhaseInv, IsPublished
    <3> QED
      BY <1>2, <1>8, <2>1, <2>5, <3>1 DEF PhaseInv, Spaces, IsPublished
  <2> QED
    BY <1>1, <1>2, <1>3, <1>10, <2>1, <2>2, <2>3, <2>4, <2>6 DEF ControlInv
<1> QED
  BY <1>2, <1>9, <1>10 DEF Spaces
-----------------------------------------------------------------------------
(* An unwinding ends. *)

(* The owners when the unwinding of the space of the call has ended: as    *)
(* they were when it failed, with that space gone when it did not.         *)
Ended(after, failed) ==
    /\ after \in [Spaces -> OwnerType]
    /\ \A t \in Spaces : t # call.space \/ failed => after[t] = owners[t]
    /\ ~failed => /\ owners[call.space].ledger = <<>> /\ after[call.space].ledger = <<>>
                  /\ after[call.space].state = "Dead" /\ ~after[call.space].live

(* After the rollback of the second space the first one is torn down.      *)
LEMMA UnwoundFirst ==
    ASSUME ControlInv, call.step \in UnwindingSteps, call.op = "rollback", call.space = 2,
           NEW after, NEW failed \in BOOLEAN, Ended(after, failed), Unwound(after, failed)
    PROVE  /\ ControlInv'
           /\ StartsUnwinding(call', "teardown", 1, after[1], 6)
           /\ \A t \in Spaces : owners'[t].ledger = after[t].ledger
           /\ \A t \in Spaces : ~IsPublished(owners'[t])
           /\ owners'[2] = after[2] /\ owners[1] = after[1] /\ IsPublished(owners[1])
<1>1. /\ phase = "building" /\ retained = {} /\ owners[2].state = "Building"
      /\ owners[1].live /\ owners[1].state = "Inactive"
  BY WhileUnwinding DEF BuildsUp
<1>2. 1 \in Spaces /\ 2 \in Spaces /\ after \in [Spaces -> OwnerType]
  BY DEF Spaces, Ended
<1>3. after[1] = owners[1] /\ after[1] \in OwnerType /\ after[2] \in OwnerType
  BY <1>2 DEF Ended, Spaces
<1>4. IsPublished(owners[1]) /\ Len(owners[1].ledger) = 7
  BY <1>1, <1>2 DEF ControlInv, PhaseInv, IsPublished
<1>5. /\ owners' = [after EXCEPT ![1] = Condemned(after[1])]
      /\ call' = Unwinding("teardown", 1, after[1], 6)
      /\ phase' = "building"
      /\ retained' = IF failed THEN {2} ELSE {}
  BY <1>1, <1>2, Sizes DEF Unwound
<1>6. /\ owners' \in [Spaces -> OwnerType]
      /\ owners'[1] = Condemned(after[1]) /\ owners'[2] = after[2]
  BY <1>2, <1>3, <1>5, EndedOwners DEF Spaces
<1>7. /\ owners'[1].ledger = after[1].ledger /\ ~owners'[1].live
      /\ owners'[1].state = "Inactive"
  BY <1>1, <1>3, <1>6, EndedOwners
<1>8. StartsUnwinding(call', "teardown", 1, after[1], 6)
  BY <1>2, <1>3, <1>4, <1>5, UnwindStart
<1>9. /\ call' \in CallType /\ call' # Idle /\ CallOK(call', Len(after[1].ledger))
      /\ call'.op = "teardown" /\ call'.space = 1
  BY <1>8 DEF StartsUnwinding
<1>10. MemoryTypeOK'
  BY <1>5, <1>6, <1>9 DEF MemoryTypeOK
<1>11. CallInv'
  BY <1>7, <1>9 DEF CallInv
<1>12. TearsDown(1)'
  BY <1>7, <1>9 DEF TearsDown
<1>13. \/ owners'[2].state = "Dead" /\ retained' = {} /\ owners'[2].ledger = <<>>
       \/ owners'[2].state = "Building" /\ retained' = {2}
  BY <1>1, <1>2, <1>5, <1>6 DEF Ended
<1>14. ~IsPublished(owners'[1]) /\ ~IsPublished(owners'[2])
  BY <1>7, <1>13 DEF IsPublished
<1>15. PhaseInv'
  BY <1>5, <1>7, <1>9, <1>12, <1>13, <1>14 DEF PhaseInv, Spaces
<1> QED
  BY <1>3, <1>4, <1>6, <1>7, <1>8, <1>10, <1>11, <1>14, <1>15 DEF ControlInv, Spaces

(* Every other unwinding ends the call. *)
LEMMA UnwoundLast ==
    ASSUME ControlInv, call.step \in UnwindingSteps, ~(call.op = "rollback" /\ call.space = 2),
           NEW after, NEW failed \in BOOLEAN, Ended(after, failed), Unwound(after, failed)
    PROVE  /\ ControlInv' /\ call' = Idle /\ owners' = after
           /\ \A t \in Spaces : IsPublished(owners'[t]) => t # call.space
<1>1. /\ call # Idle /\ call.space \in Spaces
      /\ ~IsPublished(owners[call.space]) /\ owners[call.space].state # "Active"
      /\ owners[call.space].state \in {"Building", "Inactive"}
  BY WhileUnwinding DEF BuildsUp, TearsDown, IsPublished
<1>2. /\ after \in [Spaces -> OwnerType]
      /\ \A t \in Spaces : t # call.space => after[t] = owners[t]
      /\ failed => after[call.space] = owners[call.space]
      /\ ~failed => /\ after[call.space].ledger = <<>> /\ after[call.space].state = "Dead"
                    /\ ~after[call.space].live
  BY <1>1 DEF Ended
<1>3. /\ owners' = after /\ call' = Idle
      /\ retained' = IF failed THEN retained \union {call.space} ELSE retained
      /\ phase' = CASE phase = "building" -> "buildFailed"
                    [] phase = "running" /\ failed -> "teardownFailed"
                    [] OTHER -> IF \A t \in Spaces : after[t].state = "Dead"
                                THEN "done" ELSE "running"
  BY DEF Unwound
<1>4. ~IsPublished(after[call.space])
  BY <1>1, <1>2 DEF IsPublished
<1>5. phase \in {"building", "running"}
  BY WhileUnwinding
<1>6. /\ phase = "building" => phase' = "buildFailed"
      /\ phase = "running" /\ failed => phase' = "teardownFailed"
      /\ phase = "running" /\ ~failed =>
            phase' = IF \A t \in Spaces : after[t].state = "Dead" THEN "done" ELSE "running"
  BY <1>3
<1>7. MemoryTypeOK'
  BY <1>2, <1>3, <1>5, <1>6, IdleCall DEF MemoryTypeOK
<1>8. CallInv'
  BY <1>3 DEF CallInv
<1>9. \A t \in Spaces :
         /\ after[t].state \in {"Absent", "Dead"} => after[t].ledger = <<>>
         /\ IsPublished(after[t]) => Len(after[t].ledger) = 7
  <2>1. ASSUME NEW t \in Spaces
        PROVE  /\ after[t].state \in {"Absent", "Dead"} => after[t].ledger = <<>>
               /\ IsPublished(after[t]) => Len(after[t].ledger) = 7
    <3>1. CASE t # call.space \/ failed
      BY <1>2, <3>1 DEF ControlInv, PhaseInv
    <3>2. CASE t = call.space /\ ~failed
      BY <1>2, <1>4, <3>2
    <3> QED
      BY <3>1, <3>2, SMTT(30)
  <2> QED
    BY <2>1
<1>10. CASE phase = "building"
  <2>1. /\ call.space = 1 /\ (failed => 1 \in retained')
        /\ owners[2].state \in {"Absent", "Dead"} \/ (owners[2].state = "Building" /\ 2 \in retained)
    BY <1>1, <1>3, <1>10, WhileUnwinding DEF Spaces
  <2>2. after[2] = owners[2] /\ retained \subseteq retained'
    BY <1>1, <1>2, <1>3, <2>1 DEF Spaces
  <2>3. \A s \in Spaces :
           ~IsPublished(after[s]) /\ (s \in retained' \/ after[s].state \in {"Absent", "Dead"})
    BY <1>2, <1>4, <2>1, <2>2 DEF Spaces, IsPublished
  <2>4. PhaseInv'
    BY <1>3, <1>6, <1>9, <1>10, <2>3 DEF PhaseInv
  <2> QED
    BY <1>3, <1>4, <1>7, <1>8, <2>4 DEF ControlInv
<1>11. CASE phase = "running"
  <2>1. /\ retained = {} /\ \A t \in Spaces : owners[t].state # "Active"
        /\ \A t \in Spaces : t # call.space => IsPublished(owners[t]) \/ owners[t].state = "Dead"
    BY <1>1, <1>11 DEF ControlInv, PhaseInv, InCall
  <2>2. CASE failed
    BY <1>1, <1>3, <1>4, <1>6, <1>7, <1>8, <1>9, <1>11, <2>2, SMTT(30) DEF PhaseInv, ControlInv
  <2>3. CASE ~failed
    <3>1. \A t \in Spaces :
             after[t].state # "Active" /\ (IsPublished(after[t]) \/ after[t].state = "Dead")
      BY <1>2, <2>1, <2>3
    <3>2. retained' = {} /\ phase' \in {"done", "running"}
          /\ (phase' = "done" => \A t \in Spaces : after[t].state = "Dead")
      BY <1>3, <1>6, <1>11, <2>1, <2>3
    <3>3. PhaseInv'
      BY <1>3, <1>9, <3>1, <3>2, Zenon DEF PhaseInv
    <3> QED
      BY <1>3, <1>4, <1>7, <1>8, <3>3 DEF ControlInv
  <2> QED
    BY <2>2, <2>3
<1> QED
  BY <1>5, <1>10, <1>11
-----------------------------------------------------------------------------
(* The kernel between the calls. *)

(* Activating or recovering a published space changes its state only. *)
LEMMA StateMoves ==
    ASSUME ControlInv, NEW s \in Spaces, ResumeTask(s) \/ Trap(s)
    PROVE  /\ ControlInv' /\ call = Idle /\ call' = call
           /\ \A t \in Spaces :
                 /\ owners'[t].ledger = owners[t].ledger /\ owners'[t].root = owners[t].root
                 /\ IsPublished(owners'[t]) => IsPublished(owners[t])
<1>1. /\ phase = "running" /\ UNCHANGED <<call, phase, retained>>
      /\ owners[s].live /\ owners[s].state \in {"Inactive", "Active"}
  BY DEF ResumeTask, Trap
<1>2. /\ call = Idle /\ retained = {}
      /\ \A t \in Spaces : t # s => owners[t].state # "Active"
      /\ \A t \in Spaces : IsPublished(owners[t]) \/ owners[t].state = "Dead"
  <2>1. call = Idle /\ \A t \in Spaces : t # s => owners[t].state # "Active"
    <3>1. CASE ResumeTask(s)
      BY <3>1 DEF ResumeTask
    <3>2. CASE Trap(s)
      BY <1>1, <3>2 DEF Trap, ControlInv, PhaseInv
    <3> QED
      BY <3>1, <3>2
  <2> QED
    BY <1>1, <2>1 DEF ControlInv, PhaseInv, InCall
<1>3. PICK state \in {"Inactive", "Active"} : owners' = [owners EXCEPT ![s].state = state]
  BY DEF ResumeTask, Trap
<1>4. owners \in [Spaces -> OwnerType] /\ owners[s] \in OwnerType
  BY DEF ControlInv, MemoryTypeOK
<1>5. PICK p : p = [owners[s] EXCEPT !.state = state]
  BY Zenon
<1>6. /\ p \in OwnerType /\ p.state = state /\ p.live = owners[s].live
      /\ p.ledger = owners[s].ledger /\ p.root = owners[s].root
  BY <1>4, <1>5 DEF OwnerType, OwnerStates
<1>7. owners' = [owners EXCEPT ![s] = p]
  BY <1>3, <1>4, <1>5
<1>8. /\ owners' \in [Spaces -> OwnerType] /\ owners'[s] = p
      /\ \A t \in Spaces : t # s => owners'[t] = owners[t]
  BY <1>4, <1>6, <1>7
<1>9. IsPublished(owners'[s]) /\ IsPublished(owners[s])
  BY <1>1, <1>6, <1>8, Zenon DEF IsPublished
<1>10. /\ \A t \in Spaces : owners'[t].ledger = owners[t].ledger /\ owners'[t].root = owners[t].root
       /\ \A t \in Spaces : IsPublished(owners'[t]) <=> IsPublished(owners[t])
       /\ \A t \in Spaces : t # s => owners'[t].state = owners[t].state
  BY <1>6, <1>8, <1>9
<1>11. MemoryTypeOK' /\ CallInv'
  BY <1>1, <1>2, <1>8, IdleCall DEF ControlInv, MemoryTypeOK, CallInv
<1>12. \A t \in Spaces :
          /\ owners'[t].state \in {"Absent", "Dead"} => owners'[t].ledger = <<>>
          /\ IsPublished(owners'[t]) => Len(owners'[t].ledger) = 7
          /\ IsPublished(owners'[t]) \/ owners'[t].state = "Dead"
  BY <1>2, <1>6, <1>8, <1>9, <1>10 DEF ControlInv, PhaseInv
<1>13. \A t \in Spaces : owners'[t].state = "Active" => t = s
  BY <1>2, <1>10
<1>14. PhaseInv'
  BY <1>1, <1>2, <1>12, <1>13, SMTT(30) DEF PhaseInv
<1> QED
  BY <1>1, <1>2, <1>10, <1>11, <1>14 DEF ControlInv

(* An exit condemns the space and starts its teardown. *)
LEMMA ExitMoves ==
    ASSUME ControlInv, NEW s \in Spaces, ExitTrap(s)
    PROVE  /\ ControlInv' /\ call = Idle /\ IsPublished(owners[s])
           /\ StartsUnwinding(call', "teardown", s, owners[s], 6)
           /\ \A t \in Spaces : owners'[t].ledger = owners[t].ledger
           /\ \A t \in Spaces : t # s => owners'[t] = owners[t]
           /\ ~IsPublished(owners'[s])
<1>1. /\ phase = "running" /\ UNCHANGED <<phase, retained>>
      /\ owners[s].live /\ owners[s].state = "Active"
      /\ call' = Unwinding("teardown", s, owners[s], 6)
  BY Sizes DEF ExitTrap
<1>2. /\ call = Idle /\ retained = {}
      /\ \A t \in Spaces : t # s => owners[t].state # "Active"
      /\ \A t \in Spaces : IsPublished(owners[t]) \/ owners[t].state = "Dead"
  BY <1>1 DEF ControlInv, PhaseInv, InCall
<1>3. owners \in [Spaces -> OwnerType] /\ owners[s] \in OwnerType
  BY DEF ControlInv, MemoryTypeOK
<1>4. PICK o : o = [owners[s] EXCEPT !.state = "Inactive"]
  BY Zenon
<1>5. o \in OwnerType /\ o.state = "Inactive" /\ o.ledger = owners[s].ledger
  BY <1>3, <1>4 DEF OwnerType, OwnerStates
<1>6. PICK p : p = Condemned(o)
  OBVIOUS
<1>7. p \in OwnerType /\ p.ledger = owners[s].ledger /\ ~p.live /\ p.state = "Inactive"
  BY <1>5, <1>6, EndedOwners
<1>8. owners' = [owners EXCEPT ![s] = p]
  BY <1>3, <1>4, <1>6 DEF ExitTrap
<1>9. /\ owners' \in [Spaces -> OwnerType] /\ owners'[s] = p
      /\ \A t \in Spaces : t # s => owners'[t] = owners[t]
  BY <1>3, <1>7, <1>8
<1>10. IsPublished(owners[s]) /\ ~IsPublished(owners'[s])
  BY <1>1, <1>7, <1>9 DEF IsPublished
<1>11. Len(owners[s].ledger) = 7
  BY <1>10 DEF ControlInv, PhaseInv
<1>12. StartsUnwinding(call', "teardown", s, owners[s], 6)
  BY <1>1, <1>3, <1>11, UnwindStart
<1>13. /\ call' \in CallType /\ call' # Idle /\ CallOK(call', Len(owners[s].ledger))
       /\ call'.op = "teardown" /\ call'.space = s
  BY <1>12 DEF StartsUnwinding
<1>14. MemoryTypeOK' /\ CallInv'
  BY <1>1, <1>7, <1>9, <1>13 DEF ControlInv, MemoryTypeOK, CallInv
<1>15. TearsDown(s)'
  BY <1>7, <1>9, <1>13, SMTT(30) DEF TearsDown
<1>16. \A t \in Spaces :
          /\ owners'[t].state \in {"Absent", "Dead"} => owners'[t].ledger = <<>>
          /\ IsPublished(owners'[t]) => Len(owners'[t].ledger) = 7
          /\ IsPublished(owners'[t]) \/ t = s \/ owners'[t].state = "Dead"
          /\ owners'[t].state # "Active"
  BY <1>2, <1>7, <1>9, <1>10, SMTT(30) DEF ControlInv, PhaseInv
<1>17. PhaseInv'
  BY <1>1, <1>2, <1>13, <1>15, <1>16 DEF PhaseInv, InCall
<1> QED
  BY <1>2, <1>7, <1>9, <1>10, <1>12, <1>14, <1>17 DEF ControlInv

(* A new pair is begun only when nothing is left of the last. *)
LEMMA PairMoves ==
    ASSUME ControlInv, NextPair
    PROVE  /\ ControlInv' /\ call = Idle /\ call' = Constructing(1)
           /\ \A t \in Spaces : owners[t].ledger = <<>> /\ owners'[t].ledger = <<>>
           /\ \A t \in Spaces : ~IsPublished(owners'[t])
<1>1. phase = "done" /\ phase' = "building" /\ call' = Constructing(1) /\ retained' = retained
      /\ owners' = <<NewOwner, NoOwner>>
  BY DEF NextPair
<1>2. call = Idle /\ retained = {} /\ \A t \in Spaces : owners[t].ledger = <<>>
  BY <1>1 DEF ControlInv, PhaseInv
<1>3. owners'[1] = NewOwner /\ owners'[2] = NoOwner /\ owners' \in [Spaces -> OwnerType]
  <2>1. PICK a \in OwnerType, b \in OwnerType : a = NewOwner /\ b = NoOwner
    BY NewOwners
  <2>2. owners' = <<a, b>>
    BY <1>1, <2>1
  <2>3. Spaces = 1 .. 2
    BY DEF Spaces
  <2> QED
    BY <2>1, <2>2, <2>3
<1>4. 1 \in Spaces /\ 2 \in Spaces
  BY DEF Spaces
<1>5. /\ call' \in CallType /\ call' # Idle /\ call'.space = 1 /\ call'.op = "construct"
      /\ CallOK(call', 0)
  BY <1>1, <1>4, ConstructingCall
<1>6. MemoryTypeOK' /\ CallInv'
  BY <1>1, <1>3, <1>5, NewOwners, EmptyLedger DEF MemoryTypeOK, CallInv
<1>7. BuildsUp(1)'
  BY <1>3, <1>5, NewOwners DEF BuildsUp
<1>8. /\ owners'[1].ledger = <<>> /\ owners'[2].ledger = <<>>
      /\ ~IsPublished(owners'[1]) /\ ~IsPublished(owners'[2]) /\ owners'[2].state = "Absent"
  BY <1>3, NewOwners DEF IsPublished
<1>9. PhaseInv'
  BY <1>1, <1>2, <1>5, <1>7, <1>8 DEF PhaseInv, Spaces
<1> QED
  BY <1>1, <1>2, <1>6, <1>8, <1>9 DEF ControlInv, Spaces
-----------------------------------------------------------------------------
(* Who holds which frame. *)

(* The frames of the two spaces, and of two places, are different. *)
LEMMA FramesDiffer ==
    ASSUME ControlInv, LedgersApart, NEW s \in Spaces, NEW t \in Spaces,
           NEW i \in 1 .. Len(owners[s].ledger), NEW j \in 1 .. Len(owners[t].ledger),
           owners[s].ledger[i].frame = owners[t].ledger[j].frame
    PROVE  s = t /\ i = j
<1>1. owners[s] \in OwnerType /\ owners[t] \in OwnerType
  BY DEF ControlInv, MemoryTypeOK
<1>2. s = t
  <2>1. /\ owners[s].ledger[i].frame \in LedgerFrames(owners[s])
        /\ owners[t].ledger[j].frame \in LedgerFrames(owners[t])
    BY <1>1, FramesAtPlaces
  <2>2. LedgerFrames(owners[1]) \intersect LedgerFrames(owners[2]) = {}
    BY DEF LedgersApart
  <2> QED
    BY <2>1, <2>2, SMTT(30) DEF Spaces
<1>3. i \in DOMAIN owners[s].ledger /\ j \in DOMAIN owners[s].ledger
  BY <1>1, <1>2, LedgerFacts
<1> QED
  BY <1>2, <1>3 DEF LedgersApart

(* No entry belongs to both spaces. *)
LEMMA EntriesDiffer ==
    ASSUME ControlInv, LedgersApart, NEW s \in Spaces, NEW t \in Spaces, s # t,
           Len(owners[s].ledger) = 7, NEW j \in 1 .. 6, NEW frame \in LedgerFrames(owners[t])
    PROVE  Entry(owners[s], j).parent # frame /\ Entry(owners[s], j).child # frame
<1>1. owners[s] \in OwnerType
  BY DEF ControlInv, MemoryTypeOK
<1>2. /\ Entry(owners[s], j).parent \in LedgerFrames(owners[s])
      /\ Entry(owners[s], j).child \in LedgerFrames(owners[s])
  BY <1>1, EntryEnds
<1>3. LedgerFrames(owners[s]) \intersect LedgerFrames(owners[t]) = {}
  BY DEF LedgersApart, Spaces
<1> QED
  BY <1>2, <1>3

(* construct_address_space_pair builds two spaces: each has one other. *)
LEMMA OtherSpace == \A s \in Spaces : \E t \in Spaces : s # t /\ \A r \in Spaces : r = s \/ r = t
<1> QED
  BY DEF Spaces
-----------------------------------------------------------------------------
(* The page tables. *)

(* Where an unwinding no longer shares the recovery entries. *)
Unshared == {"window", "verify", "return"}

(* The entries keep their owners when no entry is added, and a ledger that *)
(* has entries does not change.                                            *)
LEMMA EntriesKept ==
    ASSUME EntriesInv, entries' \subseteq entries,
           \A s \in Spaces : \A k \in 1 .. 6 :
              Len(owners[s].ledger) = 7 /\ (InCall(s) => k <= call.links) =>
                 /\ owners'[s].ledger = owners[s].ledger
                 /\ call' # Idle /\ call'.space = s =>
                       k <= call'.links \/ Entry(owners[s], k) \notin entries'
    PROVE  EntriesInv'
<1>1. SUFFICES ASSUME NEW e \in entries'
               PROVE  \E s \in Spaces :
                         /\ Len(owners'[s].ledger) = 7
                         /\ \E k \in 1 .. 6 :
                               /\ e = Entry(owners'[s], k)
                               /\ call' # Idle /\ call'.space = s => k <= call'.links
  BY Zenon DEF EntriesInv, InCall, Entry, FrameFor
<1>2. e \in entries
  OBVIOUS
<1>3. PICK s \in Spaces : Len(owners[s].ledger) = 7
         /\ \E k \in 1 .. 6 : e = Entry(owners[s], k) /\ (InCall(s) => k <= call.links)
  BY <1>2 DEF EntriesInv
<1>4. PICK k \in 1 .. 6 : e = Entry(owners[s], k) /\ (InCall(s) => k <= call.links)
  BY <1>3
<1>5. owners'[s].ledger = owners[s].ledger /\ (call' # Idle /\ call'.space = s => k <= call'.links)
  BY <1>3, <1>4
<1>6. e = Entry(owners'[s], k)
  BY <1>4, <1>5, SameLedger
<1> QED
  BY <1>3, <1>5, <1>6, SMTT(30)

(* The recovery entries stay with the roots when no root is added and no   *)
(* root that has them leaves its ledger.                                   *)
LEMMA SharedKept ==
    ASSUME SharedInv, shared' \subseteq shared,
           \A s \in Spaces :
              Len(owners[s].ledger) > 0 /\ (InCall(s) => call.step \notin Unshared) =>
                 /\ Len(owners'[s].ledger) > 0
                 /\ owners'[s].ledger[1] = owners[s].ledger[1]
                 /\ call' # Idle /\ call'.space = s =>
                       call'.step \notin Unshared \/ owners[s].ledger[1].frame \notin shared'
    PROVE  SharedInv'
<1>1. SUFFICES ASSUME NEW f \in shared'
               PROVE  \E s \in Spaces :
                         /\ Len(owners'[s].ledger) > 0 /\ f = owners'[s].ledger[1].frame
                         /\ call' # Idle /\ call'.space = s =>
                               call'.step \notin {"window", "verify", "return"}
  BY DEF SharedInv, InCall
<1>2. PICK s \in Spaces :
         /\ Len(owners[s].ledger) > 0 /\ f = owners[s].ledger[1].frame
         /\ InCall(s) => call.step \notin Unshared
  BY DEF SharedInv, Unshared
<1> QED
  BY <1>2 DEF Unshared

(* A published space stays whole when nothing of it is touched. *)
LEMMA PublishedKept ==
    ASSUME PublishedInv,
           \A s \in Spaces : IsPublished(owners'[s]) =>
              /\ IsPublished(owners[s])
              /\ owners'[s].ledger = owners[s].ledger /\ owners'[s].root = owners[s].root
              /\ owners[s].ledger[1].frame \in shared => owners[s].ledger[1].frame \in shared'
              /\ \A k \in 1 .. 6 : Entry(owners[s], k) \in entries => Entry(owners[s], k) \in entries'
    PROVE  PublishedInv'
<1>1. SUFFICES ASSUME NEW s \in Spaces, IsPublished(owners'[s])
               PROVE  /\ owners'[s].root = owners'[s].ledger[1].frame /\ owners'[s].root \in shared'
                      /\ \A k \in 1 .. 6 : Entry(owners'[s], k) \in entries'
  BY Zenon DEF PublishedInv, IsPublished, Entry, FrameFor
<1>2. /\ owners[s].root = owners[s].ledger[1].frame /\ owners[s].root \in shared
      /\ \A k \in 1 .. 6 : Entry(owners[s], k) \in entries
  BY <1>1 DEF PublishedInv
<1>3. /\ owners'[s].ledger = owners[s].ledger /\ owners'[s].root = owners[s].root
      /\ owners[s].ledger[1].frame \in shared'
      /\ \A k \in 1 .. 6 : Entry(owners[s], k) \in entries'
  BY <1>1, <1>2
<1>4. \A k : Entry(owners'[s], k) = Entry(owners[s], k)
  BY <1>3, SameLedger
<1> QED
  BY <1>2, <1>3, <1>4, SMTT(30)

(* What the library does between its backend calls, and the kernel between *)
(* its library calls, leaves the tables as they are.                       *)
LEMMA TablesKept ==
    ASSUME TablesInv, UNCHANGED <<entries, shared>>, call'.op # "construct",
           \A t \in Spaces :
              /\ owners'[t].ledger = owners[t].ledger
              /\ IsPublished(owners'[t]) => IsPublished(owners[t]) /\ owners'[t].root = owners[t].root
              /\ call' # Idle /\ call'.space = t =>
                    /\ IF InCall(t) THEN call'.links = call.links ELSE call'.links = 6
                    /\ Len(owners[t].ledger) > 0 /\ (InCall(t) => call.step \notin Unshared) =>
                          call'.step \notin Unshared
    PROVE  TablesInv'
<1>1. EntriesInv'
  <2>1. EntriesInv
    BY DEF TablesInv
  <2>2. \A k \in 1 .. 6 : k <= 6
    OBVIOUS
  <2> QED
    BY <2>1, <2>2, EntriesKept
<1>2. SharedInv'
  <2>1. SharedInv
    BY DEF TablesInv
  <2> QED
    BY <2>1, SharedKept
<1>3. PublishedInv'
  <2>1. PublishedInv
    BY DEF TablesInv
  <2> QED
    BY <2>1, PublishedKept
<1>4. ProgressInv'
  BY DEF ProgressInv
<1> QED
  BY <1>1, <1>2, <1>3, <1>4 DEF TablesInv

(* No entry starts at a frame that is being prepared, and unless it is the *)
(* root it shares no recovery entries: filling it loses nothing.           *)
LEMMA PreparedIsEmpty ==
    ASSUME ControlInv, LedgersApart, TablesInv, call.step = "prepare"
    PROVE  LET o == owners[call.space]
               n == Len(o.ledger)
               frame == Last(o.ledger).frame
           IN  /\ n \in 1 .. 7 /\ frame = o.ledger[n].frame
               /\ Last(o.ledger).role = "Root" <=> n = 1
               /\ {e \in entries : e.parent # frame} = entries
               /\ n > 1 => shared \ {frame} = shared
<1>1. PICK s \in Spaces : s = call.space /\ call # Idle /\ call.links = 0
  <2>1. call.step \in BuildingSteps
    BY DEF BuildingSteps
  <2> QED
    BY <2>1, WhileBuilding, CalledSpace DEF CallOK
<1>2. PICK o \in OwnerType : o = owners[s]
  BY <1>1, CalledSpace
<1>3. PICK n \in 1 .. 7 : n = Len(o.ledger)
  BY <1>1, <1>2, CalledSpace DEF CallOK
<1>4. PICK frame : frame = Last(o.ledger).frame
  OBVIOUS
<1>5. frame = o.ledger[n].frame /\ Last(o.ledger).role = Roles[n] /\ n \in 1 .. Len(o.ledger)
  <2>1. n \in 1 .. n
    OBVIOUS
  <2> QED
    BY <1>3, <1>4, <2>1, LedgerFacts DEF Last
<1>6. frame \in LedgerFrames(o)
  BY <1>5, FramesAtPlaces
<1>7. \A e \in entries : e.parent # frame
  <2>1. SUFFICES ASSUME NEW e \in entries PROVE e.parent # frame
    OBVIOUS
  <2>2. PICK t \in Spaces, k \in 1 .. 6 :
           Len(owners[t].ledger) = 7 /\ e = Entry(owners[t], k) /\ (InCall(t) => k <= call.links)
    BY DEF TablesInv, EntriesInv
  <2>3. t # s
    BY <1>1, <2>2 DEF InCall
  <2> QED
    BY <1>2, <1>6, <2>2, <2>3, EntriesDiffer
<1>8. ASSUME n > 1 PROVE frame \notin shared
  <2>1. SUFFICES ASSUME frame \in shared PROVE FALSE
    OBVIOUS
  <2>2. PICK t \in Spaces : Len(owners[t].ledger) > 0 /\ frame = owners[t].ledger[1].frame
    BY <2>1 DEF TablesInv, SharedInv
  <2>3. 1 \in 1 .. Len(owners[t].ledger)
    BY <2>2, LedgerFacts DEF ControlInv, MemoryTypeOK
  <2>4. /\ n \in 1 .. Len(owners[s].ledger)
        /\ owners[s].ledger[n].frame = owners[t].ledger[1].frame
    BY <1>2, <1>5, <2>2
  <2>5. n = 1
    BY <2>3, <2>4, FramesDiffer, SMTT(30)
  <2> QED
    BY <1>8, <2>5
<1>9. Last(o.ledger).role = "Root" <=> n = 1
  <2>1. Roles[1] = "Root" /\ 1 \in 1 .. 7
    BY DEF Roles
  <2> QED
    BY <1>5, <2>1, RolesDiffer, Zenon
<1>10. {e \in entries : e.parent # frame} = entries
  BY <1>7
<1>11. n > 1 => shared \ {frame} = shared
  BY <1>8
<1> QED
  BY <1>1, <1>2, <1>3, <1>4, <1>5, <1>9, <1>10, <1>11, Zenon

(* A refused backend call of a construction starts the rollback and        *)
(* changes no table.                                                       *)
LEMMA FailTables ==
    ASSUME ControlInv, LedgersApart, TablesInv, ConstructFails
    PROVE  ControlInv' /\ TablesInv' /\ UNCHANGED owners /\ call'.op # "construct"
<1>1. /\ call.step \in {"allocate", "prepare", "link"} /\ Rollback
      /\ UNCHANGED <<owners, phase, retained, shared>>
      /\ \/ UNCHANGED entries
         \/ /\ call.step = "prepare"
            /\ entries' = {e \in entries : e.parent # Last(owners[call.space].ledger).frame}
  BY DEF ConstructFails
<1>2. call.step \in BuildingSteps /\ call.step \notin Unshared
  BY <1>1 DEF BuildingSteps, Unshared
<1>3. UNCHANGED entries
  BY <1>1, PreparedIsEmpty, Zenon
<1>4. /\ ControlInv' /\ call'.op = "rollback" /\ call'.links = call.links
      /\ call'.space = call.space /\ call' # Idle
      /\ call'.step = "window" => Len(owners[call.space].ledger) = 0
      /\ call'.step \notin {"verify", "return"}
  BY <1>1, <1>2, RollbackMoves
<1>5. call # Idle
  BY <1>2, WhileBuilding
<1>6. TablesInv'
  <2>1. \A t \in Spaces :
           call'.space = t =>
              /\ InCall(t) /\ call'.links = call.links
              /\ Len(owners[t].ledger) > 0 => call'.step \notin Unshared
    BY <1>4, <1>5 DEF InCall, Unshared
  <2>2. call'.op # "construct"
    BY <1>4
  <2> QED
    BY <1>1, <1>3, <2>1, <2>2, TablesKept
<1> QED
  BY <1>1, <1>4, <1>6

(* A recorded frame is in no table yet. *)
LEMMA ReceiveTables ==
    ASSUME ControlInv, LedgersApart, TablesInv, NEW frame \in Nat,
           frame \notin LedgerFrames(owners[call.space]), ReceiveFrame(frame)
    PROVE  TablesInv'
<1>1. PICK s \in Spaces : s = call.space
  BY ReceiveMoves
<1>2. /\ call.op = "construct" /\ call # Idle
      /\ call'.op = "construct" /\ call'.space = s /\ call' # Idle
      /\ call'.links = 0 /\ call.links = 0 /\ call'.step = "prepare"
      /\ Records(owners[s], frame, owners'[s])
      /\ \A t \in Spaces : t # s => owners'[t] = owners[t]
  BY <1>1, ReceiveMoves
<1>3. UNCHANGED <<entries, shared>> /\ call.step = "allocate"
  BY DEF ReceiveFrame
<1>4. PICK o \in OwnerType, n \in 0 .. 6 : o = owners[s] /\ n = Len(o.ledger)
  <2>1. owners[s] \in OwnerType /\ Len(owners[s].ledger) \in 0 .. 7 /\ Len(owners[s].ledger) < 7
    BY <1>1, <1>2, <1>3, CalledSpace DEF CallOK
  <2>2. \A k \in 0 .. 7 : k < 7 => k \in 0 .. 6
    OBVIOUS
  <2> QED
    BY <2>1, <2>2, Zenon
<1>5. /\ Len(owners'[s].ledger) = n + 1
      /\ \A i \in 1 .. n : owners'[s].ledger[i] = o.ledger[i]
      /\ owners'[s].state = o.state /\ owners'[s].live = o.live
  BY <1>2, <1>4 DEF Records
<1>6. ~IsPublished(owners'[s])
  BY <1>1, <1>2, <1>4, <1>5, CalledIsBegun DEF IsPublished
<1>7. EntriesInv'
  <2>1. EntriesInv /\ n # 7
    BY DEF TablesInv
  <2>2. \A t \in Spaces : Len(owners[t].ledger) = 7 => t # s
    BY <1>4, <2>1, SMTT(30)
  <2> QED
    BY <1>2, <1>3, <2>1, <2>2, EntriesKept
<1>8. SharedInv'
  <2>1. SharedInv
    BY DEF TablesInv
  <2>2. n > 0 => owners'[s].ledger[1] = owners[s].ledger[1] /\ Len(owners'[s].ledger) > 0
    BY <1>4, <1>5
  <2>3. call'.step \notin Unshared
    BY <1>2, SMTT(30) DEF Unshared
  <2> QED
    BY <1>2, <1>3, <1>4, <2>1, <2>2, <2>3, SharedKept
<1>9. PublishedInv'
  <2>1. PublishedInv
    BY DEF TablesInv
  <2>2. \A t \in Spaces : IsPublished(owners'[t]) => t # s
    BY <1>6, SMTT(30)
  <2> QED
    BY <1>2, <1>3, <2>1, <2>2, PublishedKept
<1>10. ProgressInv'
  <2>1. n > 0 => o.ledger[1].frame \in shared
    BY <1>1, <1>2, <1>3, <1>4 DEF TablesInv, ProgressInv
  <2>2. n + 1 > 1 => owners'[s].ledger[1].frame \in shared'
    BY <1>3, <1>5, <2>1
  <2>3. \A k \in 1 .. 0 : FALSE
    OBVIOUS
  <2> QED
    BY <1>2, <1>5, <2>2, <2>3, SMTT(30) DEF ProgressInv
<1> QED
  BY <1>7, <1>8, <1>9, <1>10 DEF TablesInv

(* prepare_frame gives the recovery entries to the root and to no other    *)
(* frame.                                                                  *)
LEMMA PrepareTables ==
    ASSUME ControlInv, LedgersApart, TablesInv, PrepareFrame
    PROVE  TablesInv'
<1>1. PICK s \in Spaces : s = call.space /\ call # Idle /\ call.op = "construct" /\ call.links = 0
  <2>1. call.step = "prepare" /\ call.step \in BuildingSteps
    BY DEF BuildingSteps, PrepareFrame
  <2> QED
    BY <2>1, WhileBuilding, CalledSpace DEF CallOK
<1>2. /\ call'.op = "construct" /\ call'.space = s /\ call' # Idle /\ call'.links = 0
      /\ call'.step \notin Unshared /\ call'.step # "prepare"
  BY <1>1, PrepareMoves DEF Unshared
<1>3. PICK n, frame :
         /\ n \in 1 .. 7 /\ n = Len(owners[s].ledger)
         /\ frame = owners[s].ledger[n].frame
         /\ frame = Last(owners[s].ledger).frame
         /\ Last(owners[s].ledger).role = "Root" <=> n = 1
         /\ {e \in entries : e.parent # frame} = entries
         /\ n > 1 => shared \ {frame} = shared
  BY <1>1, PreparedIsEmpty, Zenon DEF PrepareFrame
<1>4. /\ UNCHANGED <<owners, entries>>
      /\ shared' = IF n = 1 THEN shared \union {frame} ELSE shared
  <2>1. /\ UNCHANGED owners
        /\ entries' = {e \in entries : e.parent # Last(owners[s].ledger).frame}
        /\ shared' = IF Last(owners[s].ledger).role = "Root"
                     THEN shared \union {Last(owners[s].ledger).frame}
                     ELSE shared \ {Last(owners[s].ledger).frame}
    BY <1>1, Zenon DEF PrepareFrame
  <2>2. \A k \in 1 .. 7 : k = 1 \/ k > 1
    OBVIOUS
  <2> QED
    BY <1>3, <2>1, <2>2, Zenon
<1>5. EntriesInv'
  <2>1. EntriesInv
    BY DEF TablesInv
  <2>2. \A t \in Spaces : call'.space = t => InCall(t) /\ call'.links = call.links
    BY <1>1, <1>2 DEF InCall
  <2> QED
    BY <1>4, <2>1, <2>2, EntriesKept
<1>6. SharedInv'
  <2>1. SUFFICES ASSUME NEW f \in shared'
                 PROVE  \E t \in Spaces :
                           /\ Len(owners[t].ledger) > 0 /\ f = owners[t].ledger[1].frame
                           /\ call' # Idle /\ call'.space = t =>
                                 call'.step \notin {"window", "verify", "return"}
    BY <1>4 DEF SharedInv, InCall
  <2>2. CASE f \in shared
    BY <1>2, <2>2 DEF TablesInv, SharedInv, Unshared
  <2>3. CASE n = 1 /\ f = frame
    <3>1. Len(owners[s].ledger) = 1 /\ f = owners[s].ledger[1].frame
      BY <1>3, <2>3, Zenon
    <3> QED
      BY <1>2, <3>1 DEF Unshared
  <2> QED
    BY <1>4, <2>1, <2>2, <2>3
<1>7. PublishedInv'
  <2>1. PublishedInv /\ shared \subseteq shared'
    BY <1>4 DEF TablesInv
  <2> QED
    BY <1>4, <2>1, PublishedKept
<1>8. ProgressInv'
  <2>1. owners[s].ledger[1].frame \in shared'
    <3>1. CASE n = 1
      BY <1>3, <1>4, <3>1, Zenon
    <3>2. CASE n > 1
      BY <1>1, <1>3, <1>4, <3>2 DEF TablesInv, ProgressInv, PrepareFrame
    <3>3. \A k \in 1 .. 7 : k = 1 \/ k > 1
      OBVIOUS
    <3> QED
      BY <1>3, <3>1, <3>2, <3>3, Zenon
  <2>2. \A k \in 1 .. 0 : FALSE
    OBVIOUS
  <2> QED
    BY <1>2, <1>4, <2>1, <2>2 DEF ProgressInv
<1> QED
  BY <1>5, <1>6, <1>7, <1>8 DEF TablesInv

(* install_link adds the next link of the space under construction. *)
LEMMA InstallTables ==
    ASSUME ControlInv, TablesInv, InstallLink
    PROVE  TablesInv'
<1>1. PICK s \in Spaces, n \in 0 .. 5 :
         /\ s = call.space /\ n = call.links /\ call # Idle
         /\ Len(owners[s].ledger) = 7
  <2>1. call.step \in BuildingSteps
    BY DEF BuildingSteps, InstallLink
  <2> QED
    BY <2>1, WhileBuilding, InstallMoves
<1>2. /\ call'.op = "construct" /\ call'.space = s /\ call' # Idle /\ call'.links = n + 1
      /\ call'.step \notin Unshared /\ call'.step # "prepare"
  BY <1>1, InstallMoves DEF Unshared
<1>3. /\ UNCHANGED <<owners, shared>> /\ call.step = "link"
      /\ entries' = entries \union {Entry(owners[s], n + 1)}
  BY <1>1 DEF InstallLink
<1>4. call.op = "construct"
  <2>1. call.step \in BuildingSteps
    BY <1>3 DEF BuildingSteps
  <2> QED
    BY <2>1, WhileBuilding
<1>5. EntriesInv'
  <2>1. SUFFICES ASSUME NEW e \in entries'
                 PROVE  \E t \in Spaces :
                           /\ Len(owners'[t].ledger) = 7
                           /\ \E k \in 1 .. 6 :
                                 /\ e = Entry(owners'[t], k)
                                 /\ call' # Idle /\ call'.space = t => k <= call'.links
    BY Zenon DEF EntriesInv, InCall, Entry, FrameFor
  <2>2. CASE e \in entries
    <3>1. PICK t \in Spaces, k \in 1 .. 6 :
             Len(owners[t].ledger) = 7 /\ e = Entry(owners[t], k) /\ (InCall(t) => k <= call.links)
      BY <2>2 DEF TablesInv, EntriesInv
    <3>2. t = s => k <= n + 1
      BY <1>1, <3>1 DEF InCall
    <3> QED
      BY <1>2, <1>3, <3>1, <3>2
  <2>3. CASE e = Entry(owners[s], n + 1)
    <3>1. n + 1 \in 1 .. 6 /\ n + 1 <= n + 1
      OBVIOUS
    <3> QED
      BY <1>1, <1>2, <1>3, <2>3, <3>1
  <2> QED
    BY <1>3, <2>1, <2>2, <2>3, SMTT(30)
<1>6. SharedInv'
  <2>1. SharedInv
    BY DEF TablesInv
  <2> QED
    BY <1>2, <1>3, <2>1, SharedKept
<1>7. PublishedInv'
  <2>1. PublishedInv
    BY SMTT(30) DEF TablesInv
  <2> QED
    BY <1>3, <2>1, PublishedKept
<1>8. ProgressInv'
  <2>1. /\ \A k \in 1 .. n : Entry(owners[s], k) \in entries
        /\ owners[s].ledger[1].frame \in shared
    BY <1>1, <1>3, <1>4 DEF TablesInv, ProgressInv
  <2>2. \A k \in 1 .. (n + 1) : k \in 1 .. n \/ k = n + 1
    OBVIOUS
  <2>3. \A k \in 1 .. (n + 1) : Entry(owners[s], k) \in entries'
    BY <1>3, <2>1, <2>2
  <2> HIDE DEF Entry
  <2>4. /\ \A k \in 1 .. call'.links : Entry(owners'[call'.space], k) \in entries'
        /\ owners'[call'.space].ledger[1].frame \in shared'
    BY <1>2, <1>3, <2>1, <2>3
  <2> QED
    BY <2>4, Zenon DEF ProgressInv, Entry, FrameFor
<1> QED
  BY <1>5, <1>6, <1>7, <1>8 DEF TablesInv

(* What is published is what was built: its root shares the recovery       *)
(* entries and its six links are present.                                  *)
LEMMA PublishTables ==
    ASSUME ControlInv, TablesInv, Publish
    PROVE  TablesInv' /\ \A r \in Spaces : owners'[r].ledger = owners[r].ledger
<1>1. PICK s \in Spaces :
         /\ s = call.space /\ call # Idle /\ call.op = "construct" /\ call.links = 6
         /\ call.step = "publish" /\ Len(owners[s].ledger) = 7
         /\ owners'[s] = Published(owners[s])
  BY PublishMoves
<1>2. UNCHANGED <<entries, shared>>
  BY DEF Publish
<1>3. owners[s] \in OwnerType /\ owners[s].live
  <2>1. call.step \in BuildingSteps
    BY <1>1 DEF BuildingSteps
  <2> QED
    BY <1>1, <2>1, CalledSpace, WhileBuilding DEF BuildsUp
<1>4. owners'[s].ledger = owners[s].ledger /\ owners'[s].root = owners[s].ledger[1].frame
  BY <1>1, <1>3, PublishedOwner
<1>5. PICK t \in Spaces :
         /\ s # t /\ \A r \in Spaces : r = s \/ r = t
         /\ \/ owners'[t] = owners[t] /\ call' = Idle
            \/ owners[t].ledger = <<>> /\ owners'[t] = NewOwner /\ call' = Constructing(t)
  BY <1>1, PublishMoves DEF Spaces
<1>6. owners'[t].ledger = owners[t].ledger
  BY <1>5, NewOwners
<1>7. \A r \in Spaces : owners'[r].ledger = owners[r].ledger
  BY <1>4, <1>5, <1>6
<1>8. \A r \in Spaces : call' # Idle /\ call'.space = r => Len(owners[r].ledger) = 0 /\ r = t
  BY <1>5, ConstructingCall, EmptyLedger
<1>9. EntriesInv'
  <2>1. EntriesInv
    BY DEF TablesInv
  <2>2. \A r \in Spaces : Len(owners[r].ledger) = 7 => ~(call' # Idle /\ call'.space = r)
    BY <1>8, SMTT(30)
  <2> QED
    BY <1>2, <1>7, <2>1, <2>2, EntriesKept
<1>10. SharedInv'
  <2>1. SharedInv
    BY DEF TablesInv
  <2>2. \A r \in Spaces : Len(owners[r].ledger) > 0 => ~(call' # Idle /\ call'.space = r)
    BY <1>8
  <2> QED
    BY <1>2, <1>7, <2>1, <2>2, SharedKept
<1>11. PublishedInv'
  <2>1. SUFFICES ASSUME NEW r \in Spaces, IsPublished(owners'[r])
                 PROVE  /\ owners'[r].root = owners'[r].ledger[1].frame /\ owners'[r].root \in shared'
                        /\ \A k \in 1 .. 6 : Entry(owners'[r], k) \in entries'
    BY Zenon DEF PublishedInv, IsPublished, Entry, FrameFor
  <2>2. \A k : Entry(owners'[r], k) = Entry(owners[r], k)
    BY <1>7, SameLedger
  <2>3. CASE r = s
    <3>1. /\ \A k \in 1 .. 6 : Entry(owners[s], k) \in entries
          /\ owners[s].ledger[1].frame \in shared
      BY <1>1 DEF TablesInv, ProgressInv
    <3> QED
      BY <1>2, <1>4, <2>2, <2>3, <3>1
  <2>4. CASE r = t
    <3>1. owners'[t] = owners[t]
      BY <1>5, <2>1, <2>4, NewOwners DEF IsPublished
    <3> QED
      BY <1>2, <2>1, <2>2, <2>4, <3>1 DEF TablesInv, PublishedInv
  <2> QED
    BY <1>5, <2>3, <2>4
<1>12. ProgressInv'
  <2>1. CASE call' = Idle
    BY <2>1, IdleCall DEF ProgressInv
  <2>2. CASE owners[t].ledger = <<>> /\ owners'[t] = NewOwner /\ call' = Constructing(t)
    <3>1. /\ call'.links = 0 /\ call'.space = t /\ Len(owners'[t].ledger) = 0
          /\ call'.step = "allocate"
      BY <1>6, <2>2, ConstructingCall, EmptyLedger
    <3>2. \A k \in 1 .. 0 : FALSE
      OBVIOUS
    <3> QED
      BY <3>1, <3>2 DEF ProgressInv
  <2> QED
    BY <1>5, <2>1, <2>2
<1> QED
  BY <1>7, <1>9, <1>10, <1>11, <1>12 DEF TablesInv

(* remove_link takes the last link that is present. *)
LEMMA RemoveTables ==
    ASSUME ControlInv, LedgersApart, TablesInv, RemoveLink
    PROVE  TablesInv'
<1>1. PICK s \in Spaces, n \in 1 .. 6 :
         s = call.space /\ n = call.links /\ call # Idle /\ Len(owners[s].ledger) = 7
  <2>1. call.step \in UnwindingSteps /\ call.step = "unlink"
    BY DEF UnwindingSteps, RemoveLink
  <2> QED
    BY <2>1, WhileUnwinding, RemoveMoves, CalledSpace DEF CallOK
<1>2. /\ call'.op # "construct" /\ call'.space = s /\ call' # Idle /\ call'.links = n - 1
      /\ call'.step \notin Unshared
  BY <1>1, RemoveMoves DEF Unshared
<1>3. UNCHANGED <<owners, shared>> /\ entries' = entries \ {Entry(owners[s], n)}
  BY <1>1 DEF RemoveLink
<1>4. EntriesInv'
  <2>1. EntriesInv
    BY DEF TablesInv
  <2>2. \A t \in Spaces : \A k \in 1 .. 6 :
           Len(owners[t].ledger) = 7 /\ (InCall(t) => k <= call.links) =>
              (call'.space = t => k <= call'.links \/ Entry(owners[t], k) \notin entries')
    <3>1. \A k \in 1 .. 6 : k <= n => k <= n - 1 \/ k = n
      OBVIOUS
    <3>2. InCall(s)
      BY <1>1 DEF InCall
    <3> QED
      BY <1>1, <1>2, <1>3, <3>1, <3>2, Zenon
  <2> QED
    BY <1>3, <2>1, <2>2, EntriesKept
<1>5. SharedInv'
  <2>1. SharedInv
    BY DEF TablesInv
  <2> QED
    BY <1>2, <1>3, <2>1, SharedKept
<1>6. PublishedInv'
  <2>1. PublishedInv
    BY DEF TablesInv
  <2>2. ASSUME NEW t \in Spaces, IsPublished(owners[t]), NEW k \in 1 .. 6
        PROVE  Entry(owners[t], k) # Entry(owners[s], n)
    <3>1. t # s
      BY <1>1, <2>2, CalledIsBegun
    <3>2. Len(owners[t].ledger) = 7
      BY <2>2 DEF ControlInv, PhaseInv
    <3>3. Entry(owners[t], k).parent \in LedgerFrames(owners[t])
      BY <3>2, EntryEnds DEF ControlInv, MemoryTypeOK
    <3>4. Entry(owners[s], n).parent # Entry(owners[t], k).parent
      BY <1>1, <3>1, <3>3, EntriesDiffer, Zenon
    <3> QED
      BY <3>4
  <2> QED
    BY <1>3, <2>1, <2>2, PublishedKept
<1>7. ProgressInv'
  BY <1>2 DEF ProgressInv
<1> QED
  BY <1>4, <1>5, <1>6, <1>7, SMTT(30) DEF TablesInv

(* clear_shared_entries takes the recovery entries from the root of the    *)
(* space that is unwound, and from no other.                               *)
LEMMA ClearTables ==
    ASSUME ControlInv, LedgersApart, TablesInv, ClearSharedEntries
    PROVE  TablesInv'
<1>1. PICK s \in Spaces :
         /\ s = call.space /\ call # Idle /\ call.links = 0
         /\ Len(owners[s].ledger) > 0 /\ owners[s] \in OwnerType
         /\ call'.op # "construct" /\ call'.space = s /\ call'.links = 0
  BY ClearMoves, CalledSpace DEF ClearSharedEntries
<1>2. FrameFor(owners[s], "Root") = owners[s].ledger[1].frame
  BY <1>1, RootPlace
<1>3. UNCHANGED <<owners, entries>> /\ shared' = shared \ {owners[s].ledger[1].frame}
  BY <1>1, <1>2 DEF ClearSharedEntries
<1>4. EntriesInv'
  <2>1. EntriesInv
    BY DEF TablesInv
  <2>2. \A t \in Spaces : call'.space = t => InCall(t) /\ call'.links = call.links
    BY <1>1, SMTT(30) DEF InCall
  <2> QED
    BY <1>3, <2>1, <2>2, EntriesKept
<1>5. SharedInv'
  <2>1. SharedInv
    BY SMTT(30) DEF TablesInv
  <2> QED
    BY <1>1, <1>3, <2>1, SharedKept, Zenon
<1>6. PublishedInv'
  <2>1. PublishedInv
    BY DEF TablesInv
  <2>2. ASSUME NEW t \in Spaces, IsPublished(owners[t])
        PROVE  owners[t].ledger[1].frame # owners[s].ledger[1].frame
    <3>1. t # s
      BY <1>1, <2>2, CalledIsBegun
    <3>2. 1 \in 1 .. Len(owners[t].ledger)
      <4>1. Len(owners[t].ledger) = 7
        BY <2>2 DEF ControlInv, PhaseInv
      <4> QED
        BY <4>1
    <3>3. 1 \in 1 .. Len(owners[s].ledger)
      BY <1>1, LedgerFacts
    <3> QED
      BY <3>1, <3>2, <3>3, FramesDiffer, SMTT(30)
  <2> QED
    BY <1>3, <2>1, <2>2, PublishedKept
<1>7. ProgressInv'
  BY <1>1 DEF ProgressInv
<1> QED
  BY <1>4, <1>5, <1>6, <1>7 DEF TablesInv

(* The temporary window and the check that nothing is reachable change no  *)
(* table.                                                                  *)
LEMMA VerifyTables ==
    ASSUME ControlInv, TablesInv, ClearTemporaryWindow \/ VerifyUnreachable
    PROVE  TablesInv'
<1>1. UNCHANGED <<owners, entries, shared>> /\ call.step \in Unshared
  BY DEF ClearTemporaryWindow, VerifyUnreachable, Unshared
<1>2. /\ call # Idle /\ call'.op # "construct" /\ call'.space = call.space
      /\ call'.links = call.links
  BY ClearMoves
<1>3. \A t \in Spaces : call'.space = t => InCall(t) /\ call'.links = call.links
  BY <1>2 DEF InCall
<1> QED
  BY <1>1, <1>2, <1>3, TablesKept

(* A frame that is returned is in no table any more. *)
LEMMA ReturnTables ==
    ASSUME ControlInv, TablesInv, ReturnFrame
    PROVE  TablesInv'
<1>1. PICK s \in Spaces :
         /\ s = call.space /\ call.op # "construct" /\ call # Idle
         /\ call.links = 0 /\ call.step = "return" /\ call' = call
         /\ Returns(owners[s], owners'[s])
         /\ \A t \in Spaces : t # s => owners'[t] = owners[t]
  BY ReturnMoves
<1>2. UNCHANGED <<entries, shared>> /\ call.step \in Unshared /\ InCall(s)
  BY <1>1 DEF ReturnFrame, Unshared, InCall
<1>3. ~IsPublished(owners'[s])
  BY <1>1, CalledIsBegun DEF Returns, IsPublished
<1>4. \A t \in Spaces : call'.space = t => t = s
  BY <1>1
<1>5. EntriesInv'
  <2>1. EntriesInv
    BY DEF TablesInv
  <2>2. \A k \in 1 .. 6 : ~(k <= call.links)
    BY <1>1
  <2>3. \A t \in Spaces : \A k \in 1 .. 6 : (InCall(t) => k <= call.links) => t # s
    BY <1>2, <2>2
  <2> QED
    BY <1>1, <1>2, <1>4, <2>1, <2>3, EntriesKept
<1>6. SharedInv'
  <2>1. SharedInv
    BY DEF TablesInv
  <2>2. \A t \in Spaces : (InCall(t) => call.step \notin Unshared) => t # s
    BY <1>2, SMTT(30)
  <2> QED
    BY <1>1, <1>2, <1>4, <2>1, <2>2, SharedKept
<1>7. PublishedInv'
  <2>1. PublishedInv
    BY DEF TablesInv
  <2>2. \A t \in Spaces : IsPublished(owners'[t]) => t # s
    BY <1>3
  <2> QED
    BY <1>1, <1>2, <2>1, <2>2, PublishedKept
<1>8. ProgressInv'
  BY <1>1, SMTT(30) DEF ProgressInv
<1> QED
  BY <1>5, <1>6, <1>7, <1>8 DEF TablesInv

(* The end of an unwinding, with or without an error, changes no table,    *)
(* and what starts after it counts every link.                             *)
LEMMA UnwoundTables ==
    ASSUME ControlInv, TablesInv, call.step \in UnwindingSteps,
           NEW after, NEW failed \in BOOLEAN, Ended(after, failed), Unwound(after, failed),
           UNCHANGED <<entries, shared>>
    PROVE  /\ ControlInv' /\ TablesInv' /\ call'.op # "construct"
           /\ \A t \in Spaces : owners'[t].ledger = owners[t].ledger
<1>1. \A t \in Spaces : after[t].ledger = owners[t].ledger
  <2>1. \A t \in Spaces : t # call.space \/ failed => after[t] = owners[t]
    BY DEF Ended
  <2>2. ~failed => after[call.space].ledger = owners[call.space].ledger
    BY DEF Ended
  <2> QED
    BY <2>1, <2>2
<1>2. CASE call.op = "rollback" /\ call.space = 2
  <2>1. /\ ControlInv'
        /\ StartsUnwinding(call', "teardown", 1, after[1], 6)
        /\ \A t \in Spaces : owners'[t].ledger = after[t].ledger
        /\ \A t \in Spaces : ~IsPublished(owners'[t])
    BY <1>2, UnwoundFirst
  <2>2. /\ call'.op # "construct" /\ call'.space = 1 /\ call'.links = 6
        /\ Len(after[1].ledger) > 0 => call'.step \notin Unshared
    BY <2>1 DEF StartsUnwinding, Unshared
  <2>3. \A t \in Spaces : call'.space = t => ~InCall(t) /\ t = 1
    BY <1>2, <2>2, SMTT(30) DEF InCall
  <2>4. \A t \in Spaces : owners'[t].ledger = owners[t].ledger
    BY <1>1, <2>1
  <2>5. Len(owners[1].ledger) > 0 => call'.step \notin Unshared
    BY <1>1, <2>2, SMTT(30) DEF Spaces
  <2>6. TablesInv'
    BY <2>1, <2>2, <2>3, <2>4, <2>5, TablesKept, SMTT(30)
  <2> QED
    BY <2>1, <2>2, <2>4, <2>6
<1>3. CASE ~(call.op = "rollback" /\ call.space = 2)
  <2>1. /\ ControlInv' /\ call' = Idle /\ owners' = after
        /\ \A t \in Spaces : IsPublished(owners'[t]) => t # call.space
    BY <1>3, UnwoundLast
  <2>2. \A t \in Spaces : t # call.space => owners'[t] = owners[t]
    BY <2>1 DEF Ended
  <2>3. call'.op # "construct"
    BY <2>1, IdleCall
  <2>4. \A t \in Spaces : owners'[t].ledger = owners[t].ledger
    BY <1>1, <2>1
  <2>5. TablesInv'
    BY <2>1, <2>2, <2>3, <2>4, TablesKept, SMTT(30)
  <2> QED
    BY <2>1, <2>3, <2>4, <2>5
<1> QED
  BY <1>2, <1>3

(* A context switch changes neither ledger nor table. *)
LEMMA StateTables ==
    ASSUME ControlInv, TablesInv, NEW s \in Spaces, ResumeTask(s) \/ Trap(s)
    PROVE  TablesInv'
<1>1. UNCHANGED <<entries, shared>>
  BY DEF ResumeTask, Trap
<1>2. /\ call' = Idle
      /\ \A t \in Spaces :
            /\ owners'[t].ledger = owners[t].ledger /\ owners'[t].root = owners[t].root
            /\ IsPublished(owners'[t]) => IsPublished(owners[t])
  BY StateMoves
<1>3. call'.op # "construct"
  BY <1>2, IdleCall, SMTT(30)
<1> QED
  BY <1>1, <1>2, <1>3, TablesKept

(* The teardown of an exited task starts with every link counted. *)
LEMMA ExitTables ==
    ASSUME ControlInv, TablesInv, NEW s \in Spaces, ExitTrap(s)
    PROVE  TablesInv'
<1>1. UNCHANGED <<entries, shared>>
  BY SMTT(30) DEF ExitTrap
<1>2. /\ call = Idle /\ StartsUnwinding(call', "teardown", s, owners[s], 6)
      /\ \A t \in Spaces : owners'[t].ledger = owners[t].ledger
      /\ \A t \in Spaces : t # s => owners'[t] = owners[t]
      /\ ~IsPublished(owners'[s])
  BY ExitMoves
<1>3. /\ call'.op # "construct" /\ call'.space = s /\ call'.links = 6
      /\ Len(owners[s].ledger) > 0 => call'.step \notin Unshared
  BY <1>2 DEF StartsUnwinding, Unshared
<1>4. \A t \in Spaces : ~InCall(t)
  BY <1>2 DEF InCall
<1>5. \A t \in Spaces : IsPublished(owners'[t]) => t # s
  BY <1>2
<1> QED
  BY <1>1, <1>2, <1>3, <1>4, <1>5, TablesKept

(* The next pair starts with empty ledgers and empty tables. *)
LEMMA PairTables ==
    ASSUME ControlInv, TablesInv, NextPair
    PROVE  TablesInv'
<1>1. UNCHANGED <<entries, shared>>
  BY DEF NextPair
<1>2. /\ call' = Constructing(1)
      /\ \A t \in Spaces : owners[t].ledger = <<>> /\ owners'[t].ledger = <<>>
      /\ \A t \in Spaces : ~IsPublished(owners'[t])
  BY PairMoves
<1>3. \A t \in Spaces : Len(owners[t].ledger) = 0 /\ Len(owners'[t].ledger) = 0
  BY <1>2, EmptyLedger
<1>4. EntriesInv'
  <2>1. EntriesInv /\ \A t \in Spaces : Len(owners[t].ledger) # 7
    BY <1>3 DEF TablesInv
  <2> QED
    BY <1>1, <2>1, EntriesKept
<1>5. SharedInv'
  <2>1. SharedInv /\ \A t \in Spaces : ~(Len(owners[t].ledger) > 0)
    BY <1>3 DEF TablesInv
  <2> QED
    BY <1>1, <2>1, SharedKept
<1>6. PublishedInv'
  <2>1. PublishedInv
    BY DEF TablesInv
  <2> QED
    BY <1>2, <2>1, PublishedKept
<1>7. ProgressInv'
  <2>1. call'.links = 0 /\ call'.space = 1 /\ call'.step = "allocate" /\ 1 \in Spaces
    BY <1>2, ConstructingCall DEF Spaces
  <2>2. \A k \in 1 .. 0 : FALSE
    OBVIOUS
  <2> QED
    BY <1>3, <2>1, <2>2 DEF ProgressInv
<1> QED
  BY <1>4, <1>5, <1>6, <1>7 DEF TablesInv

(* A backend call that the unwinding does not survive, or its last one,    *)
(* ends it with the ledgers as they are.                                   *)
LEMMA UnwoundStep ==
    ASSUME ControlInv, TablesInv, UnwindFails \/ FinishUnwinding
    PROVE  /\ ControlInv' /\ TablesInv' /\ call'.op # "construct"
           /\ \A t \in Spaces : owners'[t].ledger = owners[t].ledger
<1>1. call.step \in UnwindingSteps /\ UNCHANGED <<entries, shared>>
  BY Zenon DEF UnwindFails, FinishUnwinding, UnwindingSteps
<1>2. call # Idle /\ call.space \in Spaces /\ owners[call.space] \in OwnerType
  BY <1>1, WhileUnwinding, CalledSpace
<1>3. owners \in [Spaces -> OwnerType]
  BY DEF ControlInv, MemoryTypeOK
<1>4. CASE UnwindFails
  <2>1. Unwound(owners, TRUE)
    BY <1>4, Zenon DEF UnwindFails
  <2>2. Ended(owners, TRUE)
    BY <1>3 DEF Ended
  <2> QED
    BY <1>1, <2>1, <2>2, UnwoundTables, Zenon
<1>5. CASE FinishUnwinding
  <2>1. PICK after : after = [owners EXCEPT ![call.space] = Reaped(@)]
    BY Zenon
  <2>2. Unwound(after, FALSE) /\ owners[call.space].ledger = <<>>
    BY <1>5, <2>1, Zenon DEF FinishUnwinding
  <2>3. PICK p \in OwnerType : /\ p = Reaped(owners[call.space]) /\ p.ledger = owners[call.space].ledger
                               /\ ~p.live /\ p.state = "Dead"
    BY <1>2, EndedOwners
  <2>4. /\ after \in [Spaces -> OwnerType] /\ after[call.space] = p
        /\ \A t \in Spaces : t # call.space => after[t] = owners[t]
    BY <1>2, <1>3, <2>1, <2>3
  <2>5. Ended(after, FALSE)
    BY <2>2, <2>3, <2>4 DEF Ended
  <2> QED
    BY <1>1, <2>2, <2>5, UnwoundTables, Zenon
<1> QED
  BY <1>4, <1>5

(* Nothing changes in a step that leaves the spaces alone. *)
LEMMA StillMemory ==
    ASSUME ControlInv, TablesInv, UNCHANGED spaceVars
    PROVE  ControlInv' /\ TablesInv' /\ \A t \in Spaces : owners'[t].ledger = owners[t].ledger
<1>1. UNCHANGED <<owners, call, phase, retained, entries, shared>>
  BY DEF spaceVars
<1>2. MemoryTypeOK' /\ CallInv'
  BY <1>1 DEF ControlInv, MemoryTypeOK, CallInv
<1>3. PhaseInv'
  BY <1>1, Zenon DEF ControlInv, PhaseInv, BuildsUp, TearsDown, IsPublished, InCall
<1>4. EntriesInv' /\ SharedInv' /\ PublishedInv'
  <2>1. EntriesInv /\ SharedInv /\ PublishedInv
    BY DEF TablesInv
  <2>2. \A t \in Spaces : call' # Idle /\ call'.space = t => InCall(t)
    BY <1>1 DEF InCall
  <2>3. EntriesInv'
    BY <1>1, <2>1, <2>2, EntriesKept
  <2>4. SharedInv'
    BY <1>1, <2>1, <2>2, SharedKept, SMTT(30)
  <2>5. PublishedInv'
    BY <1>1, <2>1, PublishedKept, SMTT(30)
  <2> QED
    BY <2>3, <2>4, <2>5
<1>5. ProgressInv'
  <2>1. call'.op = "construct" =>
           /\ \A k \in 1 .. call'.links : Entry(owners'[call'.space], k) \in entries'
           /\ Len(owners'[call'.space].ledger) > (IF call'.step = "prepare" THEN 1 ELSE 0) =>
                 owners'[call'.space].ledger[1].frame \in shared'
    BY <1>1 DEF TablesInv, ProgressInv
  <2> QED
    BY <2>1, Zenon DEF ProgressInv, Entry, FrameFor
<1> QED
  BY <1>1, <1>2, <1>3, <1>4, <1>5 DEF ControlInv, TablesInv
-----------------------------------------------------------------------------
(* All of the library and the kernel. *)

(* Before the first call. *)
LEMMA SpacesStart ==
    ASSUME SpaceInit
    PROVE  /\ ControlInv /\ TablesInv
           /\ owners[1].ledger = <<>> /\ owners[2].ledger = <<>>
<1>1. /\ owners = <<NewOwner, NoOwner>> /\ call = Constructing(1)
      /\ phase = "building" /\ retained = {} /\ entries = {} /\ shared = {}
  BY DEF SpaceInit
<1>2. owners[1] = NewOwner /\ owners[2] = NoOwner /\ owners \in [Spaces -> OwnerType]
  <2>1. PICK a \in OwnerType, b \in OwnerType : a = NewOwner /\ b = NoOwner
    BY NewOwners
  <2>2. owners = <<a, b>>
    BY <1>1, <2>1
  <2>3. Spaces = 1 .. 2
    BY DEF Spaces
  <2> QED
    BY <2>1, <2>2, <2>3
<1>3. /\ call \in CallType /\ call # Idle /\ call.space = 1 /\ call.op = "construct"
      /\ call.links = 0 /\ call.step = "allocate" /\ CallOK(call, 0)
  <2>1. 1 \in Spaces
    BY DEF Spaces
  <2> QED
    BY <1>1, <2>1, ConstructingCall
<1>4. /\ owners[1].ledger = <<>> /\ owners[2].ledger = <<>> /\ owners[2].state = "Absent"
      /\ owners[1].state = "Building" /\ owners[1].live
      /\ ~IsPublished(owners[1]) /\ ~IsPublished(owners[2])
  BY <1>2, NewOwners DEF IsPublished
<1>5. MemoryTypeOK /\ CallInv
  BY <1>1, <1>2, <1>3, <1>4, EmptyLedger DEF MemoryTypeOK, CallInv
<1>6. BuildsUp(1)
  BY <1>3, <1>4 DEF BuildsUp
<1>7. PhaseInv
  BY <1>1, <1>3, <1>4, <1>6 DEF PhaseInv, Spaces
<1>8. EntriesInv /\ SharedInv
  BY <1>1 DEF EntriesInv, SharedInv
<1>9. PublishedInv
  BY <1>4 DEF PublishedInv, Spaces
<1>10. \A k \in 1 .. 0 : FALSE
  OBVIOUS
<1>11. ProgressInv
  BY <1>3, <1>4, <1>10, EmptyLedger DEF ProgressInv
<1> QED
  BY <1>4, <1>5, <1>7, <1>8, <1>9, <1>11 DEF ControlInv, TablesInv

(* The calls that only touch page tables keep the ledgers. *)
LEMMA TablesStep ==
    ASSUME ControlInv, TablesInv, LedgersApart,
           \/ PrepareFrame \/ InstallLink \/ Publish \/ ConstructFails
           \/ RemoveLink \/ ClearSharedEntries \/ ClearTemporaryWindow \/ VerifyUnreachable
           \/ FinishUnwinding \/ UnwindFails
    PROVE  /\ ControlInv' /\ TablesInv'
           /\ \A t \in Spaces : owners'[t].ledger = owners[t].ledger
           /\ call'.op = "construct" => call.op = "construct"
<1>1. CASE PrepareFrame
  <2>1. call.step \in BuildingSteps
    BY <1>1 DEF PrepareFrame, BuildingSteps
  <2> QED
    BY <1>1, <2>1, WhileBuilding, PrepareMoves, PrepareTables DEF PrepareFrame
<1>2. CASE InstallLink
  <2>1. call.step \in BuildingSteps
    BY <1>2 DEF InstallLink, BuildingSteps
  <2> QED
    BY <1>2, <2>1, WhileBuilding, InstallMoves, InstallTables DEF InstallLink
<1>3. CASE Publish
  BY <1>3, PublishMoves, PublishTables
<1>4. CASE ConstructFails
  BY <1>4, FailTables
<1>5. CASE RemoveLink
  BY <1>5, RemoveMoves, RemoveTables DEF RemoveLink
<1>6. CASE ClearSharedEntries
  BY <1>6, ClearMoves, ClearTables DEF ClearSharedEntries
<1>7. CASE ClearTemporaryWindow
  BY <1>7, ClearMoves, VerifyTables DEF ClearTemporaryWindow
<1>8. CASE VerifyUnreachable
  BY <1>8, ClearMoves, VerifyTables, Zenon DEF VerifyUnreachable
<1>9. CASE FinishUnwinding \/ UnwindFails
  BY <1>9, UnwoundStep
<1> QED
  BY <1>1, <1>2, <1>3, <1>4, <1>5, <1>6, <1>7, <1>8, <1>9

(* So do the kernel's own steps, and a pair is begun with empty ledgers. *)
LEMMA KernelMoves ==
    ASSUME ControlInv, TablesInv,
           NextPair \/ Halt \/ \E s \in Spaces : ResumeTask(s) \/ Trap(s) \/ ExitTrap(s)
    PROVE  /\ ControlInv' /\ TablesInv'
           /\ \A t \in Spaces : owners'[t].ledger = owners[t].ledger
           /\ call'.op = "construct" =>
                 call.op = "construct" \/ \A t \in Spaces : owners[t].ledger = <<>>
<1> DEFINE Kept == /\ ControlInv' /\ TablesInv'
                   /\ \A t \in Spaces : owners'[t].ledger = owners[t].ledger
                   /\ call'.op = "construct" =>
                         call.op = "construct" \/ \A t \in Spaces : owners[t].ledger = <<>>
<1>1. CASE NextPair
  BY <1>1, PairMoves, PairTables
<1>2. CASE Halt
  BY <1>2, StillMemory DEF Halt, spaceVars
<1>3. ASSUME NEW s \in Spaces, ResumeTask(s) \/ Trap(s)
      PROVE  Kept
  BY <1>3, StateMoves, StateTables, IdleCall
<1>4. ASSUME NEW s \in Spaces, ExitTrap(s)
      PROVE  Kept
  BY <1>4, ExitMoves, ExitTables DEF StartsUnwinding
<1> QED
  BY <1>1, <1>2, <1>3, <1>4

(* The page tables reach frames of the ledgers only, and an entry leads    *)
(* from a frame to a frame of the same ledger.                             *)
LEMMA TablesReach ==
    ASSUME ControlInv, TablesInv
    PROVE  /\ \A f \in shared : \E s \in Spaces : f \in LedgerFrames(owners[s])
           /\ \A e \in entries :
                 \E s \in Spaces : {e.parent, e.child} \subseteq LedgerFrames(owners[s])
<1>1. EntriesInv /\ SharedInv /\ \A s \in Spaces : owners[s] \in OwnerType
  BY DEF ControlInv, MemoryTypeOK, TablesInv
<1>2. ASSUME NEW f \in shared PROVE \E s \in Spaces : f \in LedgerFrames(owners[s])
  <2>1. PICK s \in Spaces : Len(owners[s].ledger) > 0 /\ f = owners[s].ledger[1].frame
    BY <1>1 DEF SharedInv
  <2>2. 1 \in 1 .. Len(owners[s].ledger)
    BY <1>1, <2>1, LedgerFacts
  <2> QED
    BY <1>1, <2>1, <2>2, FramesAtPlaces
<1>3. ASSUME NEW e \in entries
      PROVE  \E s \in Spaces : {e.parent, e.child} \subseteq LedgerFrames(owners[s])
  <2>1. PICK s \in Spaces, k \in 1 .. 6 : Len(owners[s].ledger) = 7 /\ e = Entry(owners[s], k)
    BY <1>1 DEF EntriesInv
  <2>2. e.parent \in LedgerFrames(owners[s]) /\ e.child \in LedgerFrames(owners[s])
    BY <1>1, <2>1, EntryEnds
  <2> QED
    BY <2>2
<1> QED
  BY <1>2, <1>3

(* A published space has its root and all its links. *)
LEMMA PublishedHasAll ==
    ASSUME ControlInv, TablesInv, NEW s \in Spaces,
           owners[s].live /\ owners[s].state \in {"Inactive", "Active"}
    PROVE  /\ Len(owners[s].ledger) = Len(Roles)
           /\ owners[s].root = FrameFor(owners[s], "Root") /\ owners[s].root \in shared
           /\ \A k \in DOMAIN BuildLinks : Entry(owners[s], k) \in entries
<1>1. IsPublished(owners[s]) /\ owners[s] \in OwnerType
  BY DEF IsPublished, ControlInv, MemoryTypeOK
<1>2. Len(owners[s].ledger) = 7
  BY <1>1 DEF ControlInv, PhaseInv
<1>3. FrameFor(owners[s], "Root") = owners[s].ledger[1].frame
  BY <1>1, <1>2, RootPlace
<1>4. /\ owners[s].root = owners[s].ledger[1].frame /\ owners[s].root \in shared
      /\ \A k \in 1 .. 6 : Entry(owners[s], k) \in entries
  BY <1>1 DEF TablesInv, PublishedInv
<1> QED
  BY <1>2, <1>3, <1>4, Sizes
-----------------------------------------------------------------------------
(* Ledgers as lists of frames: no frame twice, and each above the ones     *)
(* taken before it.                                                        *)

(* No frame is in the ledger twice. *)
Distinct(ledger) ==
    \A i, j \in DOMAIN ledger : ledger[i].frame = ledger[j].frame => i = j

(* Each frame of the ledger lies above the ones taken before it. *)
Rising(ledger) ==
    \A i, j \in 1 .. Len(ledger) : i < j => ledger[i].frame < ledger[j].frame

(* The frames of a ledger are addresses, the last one too. *)
LEMMA LedgerAddresses ==
    ASSUME NEW o \in OwnerType
    PROVE  /\ LedgerFrames(o) \in SUBSET Nat
           /\ o.ledger # <<>> => Last(o.ledger).frame \in LedgerFrames(o)
<1>1. LedgerFrames(o) \in SUBSET Nat
  BY LedgerFacts, FramesAtPlaces
<1>2. PICK l \in Seq(OwnedFrame) : l = o.ledger
  BY LedgerFacts
<1>3. ASSUME o.ledger # <<>> PROVE Last(o.ledger).frame \in LedgerFrames(o)
  <2>1. Len(l) \in 1 .. Len(l)
    BY <1>2, <1>3
  <2> QED
    BY <1>2, <2>1, FramesAtPlaces DEF Last
<1> QED
  BY <1>1, <1>3

(* The last frame of a rising ledger is its highest. *)
LEMMA RisingLast ==
    ASSUME NEW o \in OwnerType, Rising(o.ledger), o.ledger # <<>>
    PROVE  \A f \in LedgerFrames(o) : f <= Last(o.ledger).frame
<1>1. PICK n \in Nat : n = Len(o.ledger)
  BY LedgerFacts
<1>2. n # 0
  <2>1. o.ledger \in Seq(OwnedFrame)
    BY LedgerFacts
  <2> QED
    BY <1>1, <2>1
<1>3. \A i \in 1 .. n : o.ledger[i].frame \in Nat
  BY <1>1, LedgerFacts
<1>4. Last(o.ledger).frame = o.ledger[n].frame
  BY <1>1 DEF Last
<1>5. ASSUME NEW i \in 1 .. n PROVE o.ledger[i].frame <= o.ledger[n].frame
  <2>1. n \in 1 .. n /\ (i < n \/ i = n)
    BY <1>2
  <2> QED
    BY <1>1, <1>3, <2>1 DEF Rising
<1> QED
  BY <1>1, <1>4, <1>5, FramesAtPlaces

(* A ledger that rises, or repeats no frame, still does with one more      *)
(* frame, which is higher than its frames or none of them.                 *)
LEMMA RecordsOrder ==
    ASSUME NEW o \in OwnerType, NEW frame \in Nat, NEW p, Records(o, frame, p)
    PROVE  /\ Distinct(o.ledger) /\ frame \notin LedgerFrames(o) => Distinct(p.ledger)
           /\ Rising(o.ledger) /\ (\A f \in LedgerFrames(o) : f < frame) => Rising(p.ledger)
<1>1. PICK n \in Nat : n = Len(o.ledger) /\ DOMAIN o.ledger = 1 .. n
  BY LedgerFacts
<1>2. /\ Len(p.ledger) = n + 1 /\ p \in OwnerType
      /\ \A i \in 1 .. n : p.ledger[i] = o.ledger[i]
      /\ p.ledger[n + 1].frame = frame
  BY <1>1 DEF Records
<1>3. DOMAIN p.ledger = 1 .. (n + 1)
  BY <1>2, LedgerFacts
<1>4. \A i \in 1 .. n : o.ledger[i].frame \in LedgerFrames(o)
  BY <1>1, FramesAtPlaces
<1>5. \A i \in 1 .. (n + 1) : i \in 1 .. n \/ i = n + 1
  OBVIOUS
<1>6. ASSUME Distinct(o.ledger), frame \notin LedgerFrames(o),
             NEW i \in 1 .. (n + 1), NEW j \in 1 .. (n + 1), p.ledger[i].frame = p.ledger[j].frame
      PROVE  i = j
  <2>1. \A k, l \in 1 .. n : o.ledger[k].frame = o.ledger[l].frame => k = l
    BY <1>1, <1>6, Zenon DEF Distinct
  <2> QED
    BY <1>2, <1>4, <1>5, <1>6, <2>1, Zenon
<1>7. ASSUME Rising(o.ledger), \A f \in LedgerFrames(o) : f < frame,
             NEW i \in 1 .. (n + 1), NEW j \in 1 .. (n + 1), i < j
      PROVE  p.ledger[i].frame < p.ledger[j].frame
  <2>1. \A k, l \in 1 .. n : k < l => o.ledger[k].frame < o.ledger[l].frame
    BY <1>1, <1>7, Zenon DEF Rising
  <2>2. i \in 1 .. n /\ (j \in 1 .. n \/ j = n + 1)
    BY <1>7
  <2> QED
    BY <1>2, <1>4, <1>7, <2>1, <2>2, Zenon
<1>8. Distinct(o.ledger) /\ frame \notin LedgerFrames(o) => Distinct(p.ledger)
  BY <1>3, <1>6, Zenon DEF Distinct
<1>9. Rising(o.ledger) /\ (\A f \in LedgerFrames(o) : f < frame) => Rising(p.ledger)
  BY <1>2, <1>7, Zenon DEF Rising
<1> QED
  BY <1>8, <1>9

(* A ledger that rises, or repeats no frame, still does without its last.  *)
LEMMA ReturnsOrder ==
    ASSUME NEW o \in OwnerType, NEW p, Returns(o, p)
    PROVE  /\ Distinct(o.ledger) => Distinct(p.ledger)
           /\ Rising(o.ledger) => Rising(p.ledger)
<1>1. PICK k \in Nat : k = Len(p.ledger) /\ DOMAIN p.ledger = 1 .. k
  BY LedgerFacts DEF Returns
<1>2. /\ Len(o.ledger) = k + 1
      /\ \A i \in 1 .. k : p.ledger[i] = o.ledger[i]
  BY <1>1 DEF Returns
<1>3. DOMAIN o.ledger = 1 .. (k + 1)
  BY <1>2, LedgerFacts
<1>4. \A i \in 1 .. k : i \in 1 .. (k + 1)
  OBVIOUS
<1>5. Distinct(o.ledger) => Distinct(p.ledger)
  BY <1>1, <1>2, <1>3, <1>4, Zenon DEF Distinct
<1>6. Rising(o.ledger) => Rising(p.ledger)
  BY <1>1, <1>2, <1>4, Zenon DEF Rising
<1> QED
  BY <1>5, <1>6

(***************************************************************************)
(* Frames accounted for: those that are not in use and those of the two    *)
(* ledgers are all the frames there are, each of them once.                *)
(***************************************************************************)
Accounted(own, unused, all) ==
    /\ unused \union LedgerFrames(own[1]) \union LedgerFrames(own[2]) = all
    /\ LedgerFrames(own[1]) \intersect LedgerFrames(own[2]) = {}
    /\ \A s \in Spaces : LedgerFrames(own[s]) \intersect unused = {} /\ Distinct(own[s].ledger)

(* The same as sets: the part that moving one frame must keep. *)
Split(all, unused, here, there) ==
    /\ unused \union here \union there = all
    /\ here \intersect there = {} /\ here \intersect unused = {} /\ there \intersect unused = {}

(* Frames are accounted for when those not in use and the ledgers of       *)
(* either space and of the other split them, and no ledger repeats.        *)
LEMMA SplitMeaning ==
    ASSUME NEW own, NEW unused, NEW all, NEW s \in Spaces, NEW t \in Spaces, s # t
    PROVE  Accounted(own, unused, all) <=>
             /\ Split(all, unused, LedgerFrames(own[s]), LedgerFrames(own[t]))
             /\ \A r \in Spaces : Distinct(own[r].ledger)
<1> DEFINE A == LedgerFrames(own[1])
           B == LedgerFrames(own[2])
           D == \A r \in Spaces : Distinct(own[r].ledger)
<1>1. Accounted(own, unused, all) <=> Split(all, unused, A, B) /\ D
  BY DEF Accounted, Split, Spaces
<1>2. Split(all, unused, A, B) <=> Split(all, unused, B, A)
  <2> HIDE DEF A, B
  <2> QED
    BY DEF Split
<1>3. (s = 1 /\ t = 2) \/ (s = 2 /\ t = 1)
  BY DEF Spaces
<1> QED
  BY <1>1, <1>2, <1>3

(* They stay accounted for when no ledger changes. *)
LEMMA AccountsKept ==
    ASSUME NEW own, NEW after, NEW unused, NEW all, Accounted(own, unused, all),
           \A s \in Spaces : after[s].ledger = own[s].ledger
    PROVE  Accounted(after, unused, all)
<1>1. \A s \in Spaces : LedgerFrames(after[s]) = LedgerFrames(own[s])
  BY SameLedger
<1>2. 1 \in Spaces /\ 2 \in Spaces
  BY DEF Spaces
<1> QED
  BY <1>1, <1>2 DEF Accounted

(* A frame that was not in use moves to the ledger of a space. *)
LEMMA AccountsTake ==
    ASSUME NEW own, NEW after, NEW unused, NEW all, Accounted(own, unused, all),
           NEW s \in Spaces, own[s] \in OwnerType, NEW frame \in Nat, frame \in unused,
           Records(own[s], frame, after[s]), \A t \in Spaces : t # s => after[t] = own[t]
    PROVE  Accounted(after, unused \ {frame}, all)
<1>1. PICK t \in Spaces : s # t /\ \A r \in Spaces : r = s \/ r = t
  BY OtherSpace
<1>2. PICK here, there : here = LedgerFrames(own[s]) /\ there = LedgerFrames(own[t])
  OBVIOUS
<1>3. Split(all, unused, here, there) /\ \A r \in Spaces : Distinct(own[r].ledger)
  BY <1>1, <1>2, SplitMeaning
<1>4. Split(all, unused \ {frame}, here \union {frame}, there)
  BY <1>3 DEF Split
<1>5. LedgerFrames(after[s]) = here \union {frame} /\ LedgerFrames(after[t]) = there
  BY <1>1, <1>2, RecordsFrame
<1>6. frame \notin here
  BY <1>3 DEF Split
<1>7. Distinct(after[s].ledger)
  BY <1>2, <1>3, <1>6, RecordsOrder
<1>8. \A r \in Spaces : Distinct(after[r].ledger)
  BY <1>1, <1>3, <1>7, Zenon
<1>9. Split(all, unused \ {frame}, LedgerFrames(after[s]), LedgerFrames(after[t]))
  BY <1>4, <1>5, Zenon
<1> QED
  BY <1>1, <1>8, <1>9, SplitMeaning, ZenonT(30)

(* The last frame of the ledger of a space goes back. *)
LEMMA AccountsGive ==
    ASSUME NEW own, NEW after, NEW unused, NEW all, Accounted(own, unused, all),
           NEW s \in Spaces, own[s] \in OwnerType, own[s].ledger # <<>>,
           Returns(own[s], after[s]), \A t \in Spaces : t # s => after[t] = own[t]
    PROVE  Accounted(after, unused \union {Last(own[s].ledger).frame}, all)
<1>1. PICK t \in Spaces : s # t /\ \A r \in Spaces : r = s \/ r = t
  BY OtherSpace
<1>2. PICK here, there : here = LedgerFrames(own[s]) /\ there = LedgerFrames(own[t])
  OBVIOUS
<1>3. Split(all, unused, here, there) /\ \A r \in Spaces : Distinct(own[r].ledger)
  BY <1>1, <1>2, SplitMeaning, ZenonT(30)
<1>4. PICK frame : frame = Last(own[s].ledger).frame
  OBVIOUS
<1>5. LedgerFrames(after[s]) = here \ {frame} /\ frame \in here
  BY <1>2, <1>3, <1>4, ReturnsFrame, Zenon DEF Distinct
<1>6. Split(all, unused \union {frame}, here \ {frame}, there)
  BY <1>3, <1>5 DEF Split
<1>7. LedgerFrames(after[t]) = there
  BY <1>1, <1>2
<1>8. \A r \in Spaces : Distinct(after[r].ledger)
  BY <1>1, <1>3, ReturnsOrder
<1>9. Split(all, unused \union {frame}, LedgerFrames(after[s]), LedgerFrames(after[t]))
  BY <1>5, <1>6, <1>7, Zenon
<1> QED
  BY <1>1, <1>4, <1>8, <1>9, SplitMeaning
-----------------------------------------------------------------------------
(* Two runs of pages, one of them at the bottom. *)

(* A is the bottom of M, B a run of M above it. *)
Placed(A, B, M) ==
    /\ \A f \in A : \A p \in M : p < f => p \in A
    /\ \A f \in B : \A g \in B : \A p \in M : f < p /\ p < g => p \in B
    /\ \A f \in A : \A g \in B : f < g

(* The first space takes the lowest free page while the second has none. *)
LEMMA PlacedTakeFirst ==
    ASSUME NEW A \in SUBSET Nat, NEW M \in SUBSET Nat, NEW U \in SUBSET Nat, NEW frame \in U,
           Placed(A, {}, M), U \union A = M, \A p \in U : frame <= p
    PROVE  Placed(A \union {frame}, {}, M)
<1>1. \A p \in M : p < frame => p \in A
  <2>1. \A p \in U : ~(p < frame)
    OBVIOUS
  <2> QED
    BY <2>1
<1> QED
  BY <1>1 DEF Placed

(* The second space takes the lowest free page above all that is held. *)
LEMMA PlacedTakeSecond ==
    ASSUME NEW A \in SUBSET Nat, NEW B \in SUBSET Nat, NEW M \in SUBSET Nat,
           NEW U \in SUBSET Nat, NEW frame \in U, Placed(A, B, M), U \union A \union B = M,
           \A p \in U : frame <= p, \A f \in A \union B : f < frame
    PROVE  Placed(A, B \union {frame}, M)
<1>1. \A p \in M : p < frame => p \in A \union B
  <2>1. \A p \in U : ~(p < frame)
    OBVIOUS
  <2> QED
    BY <2>1
<1>2. ASSUME NEW f \in B \union {frame}, NEW g \in B \union {frame}, NEW p \in M, f < p, p < g
      PROVE  p \in B
  <2>1. /\ f \in Nat /\ g \in Nat /\ p \in Nat /\ frame \in Nat
        /\ f = frame \/ f < frame
        /\ g = frame \/ g < frame
    OBVIOUS
  <2>2. p < frame /\ f # frame
    BY <1>2, <2>1
  <2>3. p \in A \union B /\ f \in B
    BY <1>1, <2>2
  <2>4. p \notin A
    <3>1. p \in A => p < f
      BY <2>3 DEF Placed
    <3> QED
      BY <1>2, <2>1, <3>1
  <2> QED
    BY <2>3, <2>4
<1> QED
  BY <1>2 DEF Placed

(* Giving back the highest page keeps either run. *)
LEMMA PlacedGive ==
    ASSUME NEW A \in SUBSET Nat, NEW B \in SUBSET Nat, NEW M \in SUBSET Nat, NEW frame \in Nat,
           Placed(A, B, M)
    PROVE  /\ (\A f \in A : f <= frame) => Placed(A \ {frame}, B, M)
           /\ (\A f \in B : f <= frame) => Placed(A, B \ {frame}, M)
<1>1. ASSUME \A f \in A : f <= frame, NEW f \in A \ {frame}, NEW p \in M, p < f
      PROVE  p \in A \ {frame}
  <2>1. p \in A /\ p # frame
    BY <1>1 DEF Placed
  <2> QED
    BY <2>1
<1>2. ASSUME \A f \in B : f <= frame, NEW f \in B \ {frame}, NEW g \in B \ {frame}, NEW p \in M,
             f < p, p < g
      PROVE  p \in B \ {frame}
  <2>1. p \in B /\ p # frame
    BY <1>2 DEF Placed
  <2> QED
    BY <2>1
<1> QED
  BY <1>1, <1>2 DEF Placed

(* A held page right below a free one is the highest of its space. *)
LEMMA HighestBelow ==
    ASSUME NEW A \in SUBSET Nat, NEW B \in SUBSET Nat, NEW M \in SUBSET Nat, Placed(A, B, M),
           A \subseteq M, B \subseteq M, NEW p \in Nat, NEW q \in M, q \notin A, q \notin B, p < q,
           \A f \in M : p < f => q <= f
    PROVE  /\ p \in A => \A f \in A : f <= p
           /\ p \in B => \A f \in B : f <= p
<1>1. ASSUME NEW f \in M, f # q, ~(f <= p) PROVE q < f
  BY <1>1
<1>2. ASSUME p \in A, NEW f \in A PROVE f <= p
  <2>1. SUFFICES ASSUME ~(f <= p) PROVE FALSE
    OBVIOUS
  <2>2. q < f
    BY <1>1, <1>2, <2>1
  <2> QED
    BY <1>2, <2>2 DEF Placed
<1>3. ASSUME p \in B, NEW f \in B PROVE f <= p
  <2>1. SUFFICES ASSUME ~(f <= p) PROVE FALSE
    OBVIOUS
  <2>2. q < f
    BY <1>1, <1>3, <2>1, SMTT(30)
  <2> QED
    BY <1>3, <2>2 DEF Placed
<1> QED
  BY <1>2, <1>3
=============================================================================

---------------------------- MODULE KernelProofs ----------------------------
(***************************************************************************)
(* Proofs about Kernel, for every machine and every part of its frames     *)
(* that the memory map leaves to the allocator.                            *)
(*                                                                         *)
(* The kernel re-checks its global state at the start of every function:   *)
(* the inductive invariant KernelInv says what that state is when each     *)
(* function is entered, and so that no such check can fail.                *)
(***************************************************************************)
EXTENDS Kernel, TLAPS, WellFoundedInduction

KernelFunctions ==
    {"isolation_entry", "user", "isolation_continuation", "run_scheduler",
     "resume_scheduled_task", "teardown_exited_task", "complete_teardown",
     "scheduler_success", "halted"}

Owners == [state : {"None", "Inactive", "Active"}, root : Roots \cup {Recovery},
           generation : Nat]

Contexts == [task : Tasks \cup {NoTask}, root : Roots \cup {Recovery}, generation : Nat]

Lifecycle == {"Waiting", "Staged", "Running", "Exited", "Closing", "Dead"}

KernelTypeOK ==
    /\ pc \in KernelFunctions /\ frames \in SUBSET Roots
    /\ owners \in [Tasks -> Owners] /\ taskOwner \in Owners
    /\ context \in [Tasks -> Contexts]
    /\ life \in [Tasks -> Lifecycle]

(* The stages with two tasks. *)
Scheduled == {"cooperative", "supervised", "journaled"}

(* The task owns an address space in this state, and the context saved for *)
(* the task is of that space.                                              *)
Holds(t, state) ==
    /\ owners[t].state = state
    /\ owners[t].root \in Roots \ {0}
    /\ context[t] = SavedContext(t, owners[t])

(* A task that neither runs nor is torn down. *)
Resting(t) ==
    \/ life[t] \in {"Waiting", "Staged"} /\ Holds(t, "Inactive")
    \/ life[t] = "Dead" /\ owners[t] = NoOwner

OthersRest(t) == \A u \in Tasks \ {t} : Resting(u)

AllGone == \A t \in Tasks : life[t] = "Dead" /\ owners[t] = NoOwner

Unclaimed == current = NoTask /\ active = NoContext

Idle ==
    /\ cr3 = Recovery /\ taskOwner = NoOwner /\ runtime = "None" /\ Unclaimed /\ AllGone

ActiveContext(t, root, continuation) ==
    [present |-> TRUE, task |-> t, root |-> root, continuation |-> continuation]

(* The single task of the isolation stage owns the only address space. *)
Isolated ==
    /\ stage = "isolation" /\ runtime = "None"
    /\ taskOwner.state = "Active" /\ taskOwner.root \in Roots
    /\ current = NoTask /\ active = ActiveContext(1, taskOwner.root, TRUE)
    /\ AllGone

InStage ==
    /\ stage \in Scheduled /\ runtime = stage /\ taskOwner = NoOwner
    /\ stage = "cooperative" => \A t \in Tasks : life[t] # "Staged"

TaskRuns ==
    /\ InStage
    /\ current \in Tasks /\ life[current] = "Running"
    /\ Holds(current, "Active") /\ OthersRest(current)
    /\ cr3 = owners[current].root
    /\ active = ActiveContext(current, cr3, FALSE)

AtUser == (Isolated /\ cr3 = taskOwner.root) \/ TaskRuns

AtResume ==
    /\ InStage /\ cr3 = Recovery /\ Unclaimed
    /\ next \in Tasks /\ life[next] = "Running"
    /\ Holds(next, "Inactive") /\ OthersRest(next)

AtTeardown ==
    /\ InStage /\ cr3 = Recovery
    /\ next \in Tasks /\ life[next] = "Exited"
    /\ Holds(next, "Inactive") /\ OthersRest(next)

AtComplete ==
    /\ InStage /\ cr3 = Recovery /\ Unclaimed
    /\ next \in Tasks /\ life[next] = "Closing"
    /\ owners[next] = NoOwner /\ OthersRest(next)

AtSuccess == InStage /\ cr3 = Recovery /\ Unclaimed /\ AllGone

(* What holds when each function is entered. *)
OnEntry ==
    /\ pc = "isolation_entry" => stage = "isolation" /\ Idle
    /\ pc = "user" => AtUser
    /\ pc = "isolation_continuation" => Isolated /\ cr3 = Recovery
    /\ pc = "run_scheduler" => stage \in Scheduled /\ Idle
    /\ pc = "resume_scheduled_task" => AtResume
    /\ pc = "teardown_exited_task" => AtTeardown
    /\ pc = "complete_teardown" => AtComplete
    /\ pc = "scheduler_success" => AtSuccess

KernelInv ==
    /\ KernelTypeOK
    /\ FailsOnlyForCause
    /\ pc # "halted" => stopped = FALSE /\ failure = "None"
    /\ OnEntry
-----------------------------------------------------------------------------
(* A non-empty set of naturals has a least element, which Min selects. *)
LEMMA LeastElement ==
    ASSUME NEW S \in SUBSET Nat, S # {}
    PROVE  Min(S) \in S /\ \A y \in S : Min(S) <= y
<1>1. PICK x \in S : \A y \in S : <<y, x>> \notin OpToRel(<, Nat)
  BY WFMin, NatLessThanWellFounded, Zenon
<1>2. \A y \in S : ~(y < x)
  BY <1>1, Zenon DEF OpToRel
<1>3. \A y \in S : x <= y
  BY <1>2
<1> QED
  BY <1>1, <1>3, Zenon DEF Min

(* FirstFailure is Ok when no check holds, and otherwise reports the first *)
(* check that does.                                                        *)
LEMMA FirstFailureMeaning ==
    ASSUME NEW checks, NEW n \in Nat, Len(checks) = n
    PROVE  \/ FirstFailure(checks) = "Ok" /\ (\A i \in 1 .. n : ~checks[i][1])
           \/ \E i \in 1 .. n : /\ checks[i][1]
                                /\ FirstFailure(checks) = checks[i][2]
                                /\ \A j \in 1 .. i - 1 : ~checks[j][1]
<1> DEFINE I == {i \in 1 .. n : checks[i][1]}
<1>1. FirstFailure(checks) = IF I = {} THEN "Ok" ELSE checks[Min(I)][2]
  BY Zenon DEF FirstFailure
<1>2. CASE I = {}
  BY <1>1, <1>2
<1>3. CASE I # {}
  <2>1. I \in SUBSET Nat
    OBVIOUS
  <2> HIDE DEF I
  <2>2. PICK k : k = Min(I)
    OBVIOUS
  <2>3. k \in I /\ \A y \in I : k <= y
    BY <1>3, <2>1, <2>2, LeastElement
  <2>4. k \in 1 .. n /\ checks[k][1] /\ \A j \in 1 .. k - 1 : ~checks[j][1]
    BY <2>3 DEF I
  <2>5. FirstFailure(checks) = checks[k][2]
    BY <1>1, <1>3, <2>2, <2>4
  <2> QED
    BY <2>4, <2>5
<1> QED
  BY <1>2, <1>3

(* Two checks in order. *)
LEMMA FirstOfTwo ==
    ASSUME NEW a \in BOOLEAN, NEW b \in BOOLEAN, NEW x, NEW y
    PROVE  FirstFailure(<< <<a, x>>, <<b, y>> >>) =
              IF a THEN x ELSE IF b THEN y ELSE "Ok"
<1> DEFINE c == << <<a, x>>, <<b, y>> >>
<1>1. Len(c) = 2 /\ c[1][1] = a /\ c[1][2] = x /\ c[2][1] = b /\ c[2][2] = y
  OBVIOUS
<1> HIDE DEF c
<1>2. \/ FirstFailure(c) = "Ok" /\ (\A i \in 1 .. 2 : ~c[i][1])
      \/ \E i \in 1 .. 2 : /\ c[i][1] /\ FirstFailure(c) = c[i][2]
                           /\ \A j \in 1 .. i - 1 : ~c[j][1]
  BY <1>1, FirstFailureMeaning, Zenon
<1>3. FirstFailure(c) = IF a THEN x ELSE IF b THEN y ELSE "Ok"
  BY <1>1, <1>2
<1> QED
  BY <1>3 DEF c

(* Five checks of which none holds. *)
LEMMA NoneOfFive ==
    ASSUME NEW v, NEW w, NEW x, NEW y, NEW z
    PROVE  FirstFailure(<< <<FALSE, v>>, <<FALSE, w>>, <<FALSE, x>>, <<FALSE, y>>,
                           <<FALSE, z>> >>) = "Ok"
<1> DEFINE s == << <<FALSE, v>>, <<FALSE, w>>, <<FALSE, x>>, <<FALSE, y>>, <<FALSE, z>> >>
<1>1. Len(s) = 5 /\ \A i \in 1 .. 5 : ~s[i][1]
  OBVIOUS
<1> HIDE DEF s
<1>2. FirstFailure(s) = "Ok"
  BY <1>1, FirstFailureMeaning, Zenon
<1> QED
  BY <1>2 DEF s

(* A first check that holds is the one reported. *)
LEMMA FirstReported ==
    ASSUME NEW checks, Len(checks) \in Nat, Len(checks) > 0, checks[1][1]
    PROVE  FirstFailure(checks) = checks[1][2]
<1>1. \/ FirstFailure(checks) = "Ok" /\ (\A i \in 1 .. Len(checks) : ~checks[i][1])
      \/ \E i \in 1 .. Len(checks) : /\ checks[i][1]
                           /\ FirstFailure(checks) = checks[i][2]
                           /\ \A j \in 1 .. i - 1 : ~checks[j][1]
  BY FirstFailureMeaning
<1>2. PICK i \in 1 .. Len(checks) :
         FirstFailure(checks) = checks[i][2] /\ \A j \in 1 .. i - 1 : ~checks[j][1]
  BY <1>1
<1>3. i = 1
  BY <1>2
<1> QED
  BY <1>2, <1>3
-----------------------------------------------------------------------------
(* The identifiers, the absent owner and the constant tables. *)
LEMMA KernelFacts ==
    /\ Tasks = {1, 2} /\ NoTask \notin Tasks /\ Recovery \notin Roots
    /\ NoOwner \in Owners /\ NoOwner.state = "None"
    /\ \A s \in Scheduled : FollowedBy[s] \in Scheduled \cup {"success"}
    /\ \A s \in Scheduled : FollowedBy[s] = "success" <=> s = "journaled"
    /\ FollowedBy["isolation"] = "cooperative"
    /\ \A s \in Scheduled, t \in Tasks : Generations[s][t] \in Nat
    /\ \A s \in Scheduled : Profile[s].first \in Tasks
    /\ \A s \in Scheduled : Profile[s].staged = Tasks \ {Profile[s].first} \/ s = "cooperative"
    /\ Profile["cooperative"].staged = {}
<1>1. Tasks = {1, 2} /\ NoTask \notin Tasks /\ Recovery \notin Roots
  BY RootAssumption DEF Tasks, NoTask
<1>2. NoOwner \in Owners /\ NoOwner.state = "None"
  BY DEF NoOwner, Owners
<1>3. /\ \A s \in Scheduled : FollowedBy[s] \in Scheduled \cup {"success"}
      /\ \A s \in Scheduled : FollowedBy[s] = "success" <=> s = "journaled"
      /\ FollowedBy["isolation"] = "cooperative"
  BY DEF Scheduled, FollowedBy
<1>4. \A s \in Scheduled, t \in Tasks : Generations[s][t] \in Nat
  BY DEF Scheduled, Generations, Tasks
<1>5. /\ \A s \in Scheduled : Profile[s].first \in Tasks
      /\ \A s \in Scheduled : Profile[s].staged = Tasks \ {Profile[s].first} \/ s = "cooperative"
      /\ Profile["cooperative"].staged = {}
  BY DEF Scheduled, Profile, Tasks
<1> QED
  BY <1>1, <1>2, <1>3, <1>4, <1>5

(* The initial state is idle. *)
LEMMA KernelInitInv == KernelInit => KernelInv
<1> SUFFICES ASSUME KernelInit PROVE KernelInv
  OBVIOUS
<1>1. KernelTypeOK
  <2>1. SavedContext(NoTask, NoOwner) \in Contexts
    BY DEF SavedContext, NoOwner, NoTask, Contexts
  <2> QED
    BY <2>1, KernelFacts DEF KernelInit, KernelTypeOK, KernelFunctions, Lifecycle
<1>2. FailsOnlyForCause /\ stopped = FALSE /\ failure = "None"
  BY DEF KernelInit, FailsOnlyForCause
<1>3. stage = "isolation" /\ Idle
  BY DEF KernelInit, Idle, Unclaimed, AllGone
<1>4. OnEntry
  BY <1>3 DEF KernelInit, OnEntry
<1> QED
  BY <1>1, <1>2, <1>4 DEF KernelInv

(* A kernel that has stopped need only have had cause. *)
LEMMA StoppedInv ==
    ASSUME pc' = "halted", KernelTypeOK', FailsOnlyForCause'
    PROVE  KernelInv'
BY DEF KernelInv, OnEntry

(* kernel_failure changes nothing but the reason. *)
LEMMA FailureInv ==
    ASSUME KernelInv, pc' = "halted",
           UNCHANGED <<frames, stage, taskOwner, owners, context, life>>,
           \/ failure' \in {"address_space_construction", "address_space_teardown",
                            "exited_owner_teardown", "user_fault_classification",
                            "trap_context_capture"}
           \/ failure' = "journal_reference" /\ stage = "journaled"
           \/ /\ failure' \in {"scheduler_initial_context", "scheduler_publication_rollback"}
              /\ 0 \in frames /\ stage # "isolation"
    PROVE  KernelInv'
<1>1. KernelTypeOK'
  BY DEF KernelInv, KernelTypeOK, KernelFunctions
<1>2. FailsOnlyForCause'
  BY DEF FailsOnlyForCause
<1> QED
  BY <1>1, <1>2, StoppedInv

(* The next function is entered in the state it expects. *)
LEMMA EnteredInv ==
    ASSUME KernelInv, pc # "halted", KernelTypeOK', OnEntry', stopped' = FALSE,
           UNCHANGED failure
    PROVE  KernelInv'
<1>1. failure' = "None"
  BY DEF KernelInv
<1> QED
  BY <1>1 DEF KernelInv, FailsOnlyForCause
-----------------------------------------------------------------------------
(* isolation_entry finds the recovery root loaded, and loads the root of   *)
(* the space it built.                                                     *)
LEMMA IsolationEntryInv == KernelInv /\ IsolationEntry => KernelInv'
<1> SUFFICES ASSUME KernelInv, IsolationEntry PROVE KernelInv'
  OBVIOUS
<1>1. /\ pc = "isolation_entry" /\ stage = "isolation" /\ Idle
      /\ stopped = FALSE /\ KernelTypeOK
  BY DEF IsolationEntry, KernelInv, OnEntry
<1>2. cr3 = Recovery
  BY <1>1 DEF Idle
<1>3. CASE KernelFailure("address_space_construction")
  BY <1>3, FailureInv DEF KernelFailure, Stops, globals, dispatcher
<1>4. CASE ~KernelFailure("address_space_construction")
  <2>1. PICK root \in frames :
           /\ taskOwner' = Activated(Owner(root, Generations.isolation[1]))
           /\ active' = ActiveContext(1, root, TRUE)
           /\ cr3' = root
    BY <1>2, <1>4 DEF IsolationEntry, ActiveContext
  <2>2. /\ pc' = "user" /\ failure' = failure
        /\ UNCHANGED <<frames, stage, owners, runtime, context, current, life, stopped>>
    BY <1>2, <1>4 DEF IsolationEntry, Goto, dispatcher
  <2>3. taskOwner' = [state |-> "Active", root |-> root, generation |-> 1]
    BY <2>1 DEF Activated, Owner, Generations
  <2>4. /\ taskOwner' \in Owners /\ taskOwner'.state = "Active"
        /\ taskOwner'.root = root /\ root \in Roots
    BY <1>1, <2>3 DEF Owners, KernelTypeOK
  <2>5. KernelTypeOK'
    BY <1>1, <2>2, <2>4 DEF KernelTypeOK, KernelFunctions
  <2>6. AtUser'
    BY <1>1, <2>1, <2>2, <2>4 DEF AtUser, Isolated, Idle, Unclaimed, AllGone
  <2>7. OnEntry'
    BY <2>2, <2>6 DEF OnEntry
  <2> QED
    BY <1>1, <2>2, <2>5, <2>7, EnteredInv, Zenon
<1> QED
  BY <1>3, <1>4

(* The exception handler resumes the kernel only in the isolation stage,   *)
(* with the recovery root loaded.                                          *)
LEMMA UserFaultInv == KernelInv /\ UserFault => KernelInv'
<1> SUFFICES ASSUME KernelInv, UserFault PROVE KernelInv'
  OBVIOUS
<1>1. pc = "user" /\ AtUser /\ stopped = FALSE /\ KernelTypeOK
  BY DEF UserFault, KernelInv, OnEntry
<1>2. PICK probe \in BOOLEAN :
         IF FaultExpected(probe)
         THEN /\ cr3' = Recovery
              /\ Goto("isolation_continuation", NoTask)
              /\ UNCHANGED <<stage, globals, dispatcher>>
         ELSE KernelFailure("user_fault_classification")
  BY DEF UserFault
<1>3. CASE ~FaultExpected(probe)
  BY <1>2, <1>3, FailureInv DEF KernelFailure, Stops, globals, dispatcher
<1>4. CASE FaultExpected(probe)
  <2>1. /\ cr3' = Recovery /\ pc' = "isolation_continuation" /\ failure' = failure
        /\ UNCHANGED <<frames, stage, taskOwner, owners, runtime, context, current, active, life,
                       stopped>>
    BY <1>2, <1>4 DEF Goto, globals, dispatcher
  <2>2. Isolated
    BY <1>1, <1>4, KernelFacts, Zenon DEF FaultExpected, AtUser, TaskRuns, InStage
  <2>3. Isolated'
    BY <2>1, <2>2 DEF Isolated, AllGone
  <2>4. KernelTypeOK'
    BY <1>1, <2>1 DEF KernelTypeOK, KernelFunctions
  <2>5. OnEntry'
    BY <2>1, <2>3 DEF OnEntry
  <2> QED
    BY <1>1, <2>1, <2>4, <2>5, EnteredInv, Zenon
<1> QED
  BY <1>3, <1>4

(* isolation_continuation finds the active owner, gives it up and leaves   *)
(* nothing of the stage behind.                                            *)
LEMMA IsolationContinuationInv == KernelInv /\ IsolationContinuation => KernelInv'
<1> SUFFICES ASSUME KernelInv, IsolationContinuation PROVE KernelInv'
  OBVIOUS
<1>1. /\ pc = "isolation_continuation" /\ Isolated /\ cr3 = Recovery
      /\ stopped = FALSE /\ KernelTypeOK
  BY DEF IsolationContinuation, KernelInv, OnEntry
<1>2. taskOwner.state = "Active" /\ taskOwner # NoOwner
  BY <1>1, KernelFacts DEF Isolated
<1>3. FirstFailure(<< <<cr3 # Recovery, "recovery_root_restore">>,
                      <<taskOwner = NoOwner, "task_owner_missing">> >>) = "Ok"
  BY <1>1, <1>2, FirstOfTwo, Zenon
<1>4. /\ taskOwner' = NoOwner
      /\ \/ Stops("address_space_teardown") /\ UNCHANGED <<stage, active>>
         \/ /\ active' = NoContext /\ stage' = FollowedBy[stage]
            /\ Goto("run_scheduler", NoTask)
      /\ UNCHANGED <<cr3, owners, runtime, context, current, life, stopped>>
  BY <1>2, <1>3 DEF IsolationContinuation, dispatcher
<1>5. CASE Stops("address_space_teardown") /\ UNCHANGED <<stage, active>>
  <2>1. KernelTypeOK'
    BY <1>1, <1>4, <1>5, KernelFacts DEF Stops, KernelTypeOK, KernelFunctions
  <2>2. FailsOnlyForCause'
    BY <1>5 DEF Stops, FailsOnlyForCause
  <2> QED
    BY <1>5, <2>1, <2>2, StoppedInv DEF Stops
<1>6. CASE /\ active' = NoContext /\ stage' = FollowedBy[stage]
           /\ Goto("run_scheduler", NoTask)
  <2>1. pc' = "run_scheduler" /\ failure' = failure /\ frames' = frames /\ stage' = "cooperative"
    BY <1>1, <1>6, KernelFacts DEF Goto, Isolated
  <2>2. KernelTypeOK'
    BY <1>1, <1>4, <2>1, KernelFacts DEF KernelTypeOK, KernelFunctions
  <2>3. Idle'
    BY <1>1, <1>4, <1>6 DEF Idle, Isolated, Unclaimed, AllGone
  <2>4. OnEntry'
    BY <2>1, <2>3 DEF OnEntry, Scheduled
  <2> QED
    BY <1>1, <1>4, <2>1, <2>2, <2>4, EnteredInv, Zenon
<1> QED
  BY <1>4, <1>5, <1>6
-----------------------------------------------------------------------------
(* A built address space is owned, inactive, and its context saved. *)
LEMMA BuiltSpaces ==
    ASSUME NEW s \in Scheduled, NEW roots \in [Tasks -> Roots \ {0}],
           owners' = [t \in Tasks |-> Owner(roots[t], Generations[s][t])],
           context' = [t \in Tasks |-> SavedContext(t, owners'[t])]
    PROVE  /\ owners' \in [Tasks -> Owners] /\ context' \in [Tasks -> Contexts]
           /\ \A t \in Tasks : Holds(t, "Inactive")'
<1>1. \A t \in Tasks : roots[t] \in Roots \ {0} /\ Generations[s][t] \in Nat
  BY KernelFacts
<1>2. \A t \in Tasks :
         owners'[t] = [state |-> "Inactive", root |-> roots[t], generation |-> Generations[s][t]]
  BY DEF Owner
<1>3. \A t \in Tasks : owners'[t] \in Owners /\ owners'[t].state = "Inactive"
                         /\ owners'[t].root \in Roots \ {0} /\ owners'[t].generation \in Nat
  <2> SUFFICES ASSUME NEW t \in Tasks
               PROVE  /\ owners'[t] \in Owners /\ owners'[t].state = "Inactive"
                      /\ owners'[t].root \in Roots \ {0} /\ owners'[t].generation \in Nat
    OBVIOUS
  <2>1. PICK root \in Roots \ {0}, generation \in Nat :
           owners'[t] = [state |-> "Inactive", root |-> root, generation |-> generation]
    BY <1>1, <1>2
  <2> QED
    BY <2>1 DEF Owners
<1>4. \A t \in Tasks : context'[t] = SavedContext(t, owners'[t])
  OBVIOUS
<1>5. \A t \in Tasks : context'[t] \in Contexts
  BY <1>3, <1>4 DEF SavedContext, Contexts
<1> QED
  BY <1>3, <1>4, <1>5 DEF Holds

(* Publishing a pair whose roots are not zero leaves its first task to     *)
(* resume.                                                                 *)
LEMMA PublishedInv ==
    ASSUME KernelInv, pc = "run_scheduler", stage \in Scheduled, Idle, stopped = FALSE,
           KernelTypeOK, NEW roots \in [Tasks -> Roots \ {0}],
           NEW built, NEW saved, Publish(built, saved),
           owners' = [t \in Tasks |-> Owner(roots[t], Generations[stage][t])],
           context' = [t \in Tasks |-> SavedContext(t, owners'[t])]
    PROVE  KernelInv'
<1> DEFINE first == Profile[stage].first
           staged == Profile[stage].staged
<1>1. /\ runtime' = stage
      /\ life' = [Published(staged) EXCEPT ![first] = "Running"]
      /\ pc' = "resume_scheduled_task" /\ next' = first /\ failure' = failure
      /\ UNCHANGED <<frames, stage, cr3, taskOwner, current, active, stopped>>
  BY DEF Publish, Goto
<1>2. /\ first \in Tasks
      /\ stage = "cooperative" => staged = {}
  BY KernelFacts
<1> HIDE DEF first, staged
<1>3. /\ owners' \in [Tasks -> Owners] /\ context' \in [Tasks -> Contexts]
      /\ \A t \in Tasks : Holds(t, "Inactive")'
  BY BuiltSpaces
<1>4. \A t \in Tasks : life'[t] = IF t = first THEN "Running"
                                  ELSE IF t \in staged THEN "Staged" ELSE "Waiting"
  BY <1>1, <1>2 DEF Published
<1>5. life' \in [Tasks -> Lifecycle]
  BY <1>1, <1>2 DEF Published, Lifecycle
<1>6. KernelTypeOK'
  BY <1>1, <1>3, <1>5 DEF KernelTypeOK, KernelFunctions
<1>7. InStage'
  BY <1>1, <1>2, <1>4 DEF InStage, Idle
<1>8. OthersRest(next)'
  BY <1>1, <1>3, <1>4 DEF OthersRest, Resting
<1>9. AtResume'
  BY <1>1, <1>2, <1>3, <1>4, <1>7, <1>8 DEF AtResume, Idle, Unclaimed
<1>10. OnEntry'
  BY <1>1, <1>9 DEF OnEntry
<1> QED
  BY <1>1, <1>6, <1>10, EnteredInv, Zenon

(* The scheduler entry points find nothing left of an earlier stage, and   *)
(* select the first task of the profile.                                   *)
LEMMA RunSchedulerInv == KernelInv /\ RunScheduler => KernelInv'
<1> SUFFICES ASSUME KernelInv, RunScheduler PROVE KernelInv'
  OBVIOUS
<1>1. /\ pc = "run_scheduler" /\ stage \in Scheduled /\ Idle
      /\ stopped = FALSE /\ KernelTypeOK
  BY DEF RunScheduler, KernelInv, OnEntry
<1>2. /\ (cr3 # Recovery) = FALSE
      /\ (taskOwner # NoOwner \/ runtime # "None" \/ \E t \in Tasks : owners[t] # NoOwner) = FALSE
  BY <1>1 DEF Idle, AllGone
<1>3. FirstFailure(<< <<cr3 # Recovery, "scheduler_recovery_root">>,
                      <<taskOwner # NoOwner \/ runtime # "None"
                          \/ \E t \in Tasks : owners[t] # NoOwner,
                        "scheduler_publication_state">> >>) = "Ok"
  BY <1>2, FirstOfTwo, Zenon
<1> DEFINE Built(roots) == [t \in Tasks |-> Owner(roots[t], Generations[stage][t])]
           Saved(roots) == [t \in Tasks |-> SavedContext(t, Built(roots)[t])]
           Valid(roots) == \A t \in Tasks : ContextValid(Saved(roots)[t], t, Built(roots)[t])
<1>4. CASE KernelFailure("address_space_construction")
  BY <1>4, FailureInv DEF KernelFailure, Stops, globals, dispatcher
<1>5. CASE ~KernelFailure("address_space_construction")
  <2>1. PICK roots \in [Tasks -> frames] :
           IF Valid(roots)
           THEN Publish(Built(roots), Saved(roots))
           ELSE \/ KernelFailure("scheduler_publication_rollback")
                \/ KernelFailure("scheduler_initial_context")
    BY <1>3, <1>5, Zenon DEF RunScheduler
  <2>2. \A t \in Tasks : /\ Saved(roots)[t] = SavedContext(t, Built(roots)[t])
                         /\ Saved(roots)[t].root = roots[t]
    BY DEF SavedContext, Owner
  <2>3. CASE ~Valid(roots)
    <3>1. \E t \in Tasks : roots[t] = 0
      BY <2>2, <2>3, Zenon DEF ContextValid
    <3>2. 0 \in frames /\ stage # "isolation"
      BY <1>1, <3>1 DEF Scheduled
    <3>3. /\ pc' = "halted"
          /\ failure' \in {"scheduler_initial_context", "scheduler_publication_rollback"}
          /\ UNCHANGED <<frames, stage, taskOwner, owners, context, life>>
      BY <2>1, <2>3 DEF KernelFailure, Stops, globals, dispatcher
    <3> QED
      BY <3>2, <3>3, FailureInv
  <2>4. CASE Valid(roots)
    <3>1. roots \in [Tasks -> Roots \ {0}]
      <4>1. \A t \in Tasks : roots[t] # 0
        BY <2>2, <2>4, Zenon DEF ContextValid
      <4> QED
        BY <1>1, <4>1 DEF KernelTypeOK
    <3>2. Publish(Built(roots), Saved(roots))
      BY <2>1, <2>4
    <3>3. /\ owners' = [t \in Tasks |-> Owner(roots[t], Generations[stage][t])]
          /\ context' = [t \in Tasks |-> SavedContext(t, owners'[t])]
      BY <3>2, Zenon DEF Publish
    <3> QED
      BY <1>1, <3>1, <3>2, <3>3, PublishedInv
  <2> QED
    BY <2>3, <2>4
<1> QED
  BY <1>4, <1>5

(* resume_scheduled_task finds the selected task running, its owner        *)
(* inactive and its context its own, and loads its root.                   *)
LEMMA ResumeScheduledTaskInv == KernelInv /\ ResumeScheduledTask => KernelInv'
<1> SUFFICES ASSUME KernelInv, ResumeScheduledTask PROVE KernelInv'
  OBVIOUS
<1>1. /\ pc = "resume_scheduled_task" /\ AtResume
      /\ stopped = FALSE /\ KernelTypeOK
  BY DEF ResumeScheduledTask, KernelInv, OnEntry
<1>2. /\ next \in Tasks /\ OwnerOf(next) = owners[next] /\ InStage
      /\ owners[next] \in Owners /\ Holds(next, "Inactive") /\ OthersRest(next)
  BY <1>1 DEF AtResume, OwnerOf, KernelTypeOK
<1> DEFINE a == runtime = "None"
           b == ~IsRunning(next)
           c == OwnerOf(next) = NoOwner
           d == OwnerOf(next).state # "Inactive"
           e == ~ContextValid(context[next], next, OwnerOf(next))
<1>3. a = FALSE /\ b = FALSE /\ c = FALSE /\ d = FALSE /\ e = FALSE
  BY <1>1, <1>2, KernelFacts DEF AtResume, Holds, IsRunning, InStage, Scheduled,
     ContextValid, SavedContext
<1>4. FirstFailure(<< <<runtime = "None", "task_runtime_missing">>,
                      <<~IsRunning(next), "scheduler_selected_state">>,
                      <<OwnerOf(next) = NoOwner, "task_owner_missing">>,
                      <<OwnerOf(next).state # "Inactive", "task_owner_state">>,
                      <<~ContextValid(context[next], next, OwnerOf(next)),
                        "task_context_validation">> >>) = "Ok"
  <2> HIDE DEF a, b, c, d, e
  <2>1. FirstFailure(<< <<a, "task_runtime_missing">>, <<b, "scheduler_selected_state">>,
                        <<c, "task_owner_missing">>, <<d, "task_owner_state">>,
                        <<e, "task_context_validation">> >>) = "Ok"
    BY <1>3, NoneOfFive, Zenon
  <2> QED
    BY <2>1, Zenon DEF a, b, c, d, e
<1>5. /\ owners' = [owners EXCEPT ![next] = Activated(owners[next])]
      /\ current' = next
      /\ active' = ActiveContext(next, owners[next].root, FALSE)
      /\ cr3' = context[next].root
      /\ pc' = "user" /\ failure' = failure
      /\ UNCHANGED <<frames, stage, taskOwner, runtime, context, life, stopped>>
  BY <1>2, <1>4, Zenon DEF ResumeScheduledTask, Goto, dispatcher, ActiveContext
<1>6. /\ Activated(owners[next]) \in Owners /\ Activated(owners[next]).state = "Active"
      /\ Activated(owners[next]).root = owners[next].root
      /\ Activated(owners[next]).generation = owners[next].generation
  BY <1>2 DEF Activated, Owners
<1>7. /\ owners' \in [Tasks -> Owners]
      /\ owners'[next] = Activated(owners[next])
      /\ \A t \in Tasks \ {next} : owners'[t] = owners[t]
  BY <1>1, <1>2, <1>5, <1>6 DEF KernelTypeOK
<1>8. KernelTypeOK'
  BY <1>1, <1>5, <1>7 DEF KernelTypeOK, KernelFunctions
<1>9. Holds(current, "Active")'
  BY <1>2, <1>5, <1>6, <1>7 DEF Holds, SavedContext
<1>10. OthersRest(current)'
  BY <1>2, <1>5, <1>7, SMTT(30) DEF OthersRest, Resting, Holds
<1>11. cr3' = owners'[next].root /\ cr3' = owners[next].root
  <2>1. context[next] = SavedContext(next, owners[next])
    BY <1>2, Zenon DEF Holds
  <2>2. context[next].root = owners[next].root
    BY <2>1 DEF SavedContext
  <2> QED
    BY <1>5, <1>6, <1>7, <2>2, Zenon
<1>12. TaskRuns'
  BY <1>1, <1>2, <1>5, <1>9, <1>10, <1>11, Zenon DEF TaskRuns, AtResume, InStage
<1>13. OnEntry'
  BY <1>5, <1>12 DEF OnEntry, AtUser
<1> QED
  BY <1>1, <1>5, <1>8, <1>13, EnteredInv, Zenon
-----------------------------------------------------------------------------
(* A trap in the stage that has no runtime stops the kernel. *)
LEMMA TrapInIsolation == Isolated => TrapStatus = "trap_runtime_missing"
<1> SUFFICES ASSUME Isolated PROVE TrapStatus = "trap_runtime_missing"
  OBVIOUS
<1> DEFINE a == runtime = "None"
           b == ~IsRunning(current)
           c == OwnerOf(current) = NoOwner
           d == OwnerOf(current).state # "Active"
           e == active # [present |-> TRUE, task |-> current, root |-> OwnerOf(current).root,
                          continuation |-> FALSE]
           checks == << <<a, "trap_runtime_missing">>, <<b, "trap_running_task">>,
                        <<c, "trap_owner_missing">>, <<d, "trap_owner_inactive">>,
                        <<e, "trap_active_owner">> >>
<1>1. a = TRUE
  BY DEF Isolated
<1>2. TrapStatus = FirstFailure(checks)
  BY Zenon DEF TrapStatus
<1> HIDE DEF a, b, c, d, e
<1>3. Len(checks) = 5 /\ checks[1][1] /\ checks[1][2] = "trap_runtime_missing"
  BY <1>1
<1> HIDE DEF checks
<1>4. FirstFailure(checks) = checks[1][2]
  BY <1>3, FirstReported
<1> QED
  BY <1>2, <1>3, <1>4

(* A trap of a scheduled task finds that task in every global. *)
LEMMA TrapOfTask == KernelTypeOK /\ TaskRuns => TrapStatus = "Ok"
<1> SUFFICES ASSUME KernelTypeOK, TaskRuns PROVE TrapStatus = "Ok"
  OBVIOUS
<1> DEFINE a == runtime = "None"
           b == ~IsRunning(current)
           c == OwnerOf(current) = NoOwner
           d == OwnerOf(current).state # "Active"
           e == active # [present |-> TRUE, task |-> current, root |-> OwnerOf(current).root,
                          continuation |-> FALSE]
<1>1. OwnerOf(current) = owners[current] /\ owners[current].state = "Active"
  BY DEF TaskRuns, OwnerOf, Holds
<1>2. a = FALSE /\ b = FALSE /\ c = FALSE /\ d = FALSE /\ e = FALSE
  BY <1>1, KernelFacts DEF TaskRuns, InStage, Scheduled, IsRunning, ActiveContext
<1>3. TrapStatus = FirstFailure(<< <<a, "trap_runtime_missing">>, <<b, "trap_running_task">>,
                                   <<c, "trap_owner_missing">>, <<d, "trap_owner_inactive">>,
                                   <<e, "trap_active_owner">> >>)
  BY Zenon DEF TrapStatus
<1> HIDE DEF a, b, c, d, e
<1> QED
  BY <1>2, <1>3, NoneOfFive, Zenon

(* Recovering the owner leaves the task with its space, not loaded. *)
LEMMA RecoveredTask ==
    ASSUME KernelTypeOK, TaskRuns, TrapRecovers
    PROVE  /\ owners' \in [Tasks -> Owners] /\ context' \in [Tasks -> Contexts]
           /\ owners'[current].state = "Inactive" /\ owners'[current].root \in Roots \ {0}
           /\ context'[current] = SavedContext(current, owners'[current])
           /\ \A t \in Tasks \ {current} : owners'[t] = owners[t] /\ context'[t] = context[t]
<1> DEFINE new == [owners[current] EXCEPT !.state = "Inactive"]
<1>1. /\ current \in Tasks /\ owners[current] \in Owners /\ owners[current].root \in Roots \ {0}
      /\ owners \in [Tasks -> Owners] /\ context \in [Tasks -> Contexts]
  BY DEF KernelTypeOK, TaskRuns, Holds
<1>2. /\ new \in Owners /\ new.state = "Inactive" /\ new.root = owners[current].root
      /\ new.generation = owners[current].generation
  BY <1>1 DEF Owners
<1>3. /\ owners' = [owners EXCEPT ![current] = new]
      /\ context' = [context EXCEPT ![current] = SavedContext(current, owners[current])]
  BY DEF TrapRecovers
<1>4. SavedContext(current, owners[current]) \in Contexts
  BY <1>1 DEF SavedContext, Contexts, Owners
<1>5. SavedContext(current, owners[current]) = SavedContext(current, new)
  BY <1>2 DEF SavedContext
<1> HIDE DEF new
<1> QED
  BY <1>1, <1>2, <1>3, <1>4, <1>5 DEF Holds

(* A trap leaves the kernel with a task to resume, or one to tear down. *)
LEMMA TrapInv == KernelInv /\ Trap => KernelInv'
<1> SUFFICES ASSUME KernelInv, Trap PROVE KernelInv'
  OBVIOUS
<1>1. pc = "user" /\ AtUser /\ stopped = FALSE /\ KernelTypeOK
  BY DEF Trap, KernelInv, OnEntry
<1>2. cr3' = Recovery /\ stage' = stage /\ taskOwner' = taskOwner /\ runtime' = runtime
  BY DEF Trap
<1>3. CASE Isolated
  <2>1. TrapStatus = "trap_runtime_missing"
    BY <1>3, TrapInIsolation
  <2>2. /\ pc' = "halted" /\ failure' = "trap_runtime_missing" /\ frames' = frames
        /\ UNCHANGED <<owners, context, life>>
    BY <2>1 DEF Trap, Stops, dispatcher
  <2>3. KernelTypeOK'
    BY <1>1, <1>2, <2>2 DEF KernelTypeOK, KernelFunctions
  <2>4. FailsOnlyForCause'
    BY <1>2, <1>3, <2>2 DEF FailsOnlyForCause, Isolated
  <2> QED
    BY <2>2, <2>3, <2>4, StoppedInv
<1>4. CASE TaskRuns
  <2>1. TrapStatus = "Ok"
    BY <1>1, <1>4, TrapOfTask
  <2>2. /\ TrapRecovers
        /\ \/ Stops("trap_context_capture") /\ UNCHANGED <<current, active, dispatcher>>
           \/ /\ \E task \in Tasks : Resumes(task) /\ Goto("resume_scheduled_task", task)
              /\ current' = NoTask /\ active' = NoContext
           \/ /\ Exit(current) /\ Goto("teardown_exited_task", current)
              /\ UNCHANGED <<current, active>>
    BY <2>1, Zenon DEF Trap
  <2>3. /\ owners' \in [Tasks -> Owners] /\ context' \in [Tasks -> Contexts]
        /\ owners'[current].state = "Inactive" /\ owners'[current].root \in Roots \ {0}
        /\ context'[current] = SavedContext(current, owners'[current])
        /\ \A t \in Tasks \ {current} : owners'[t] = owners[t] /\ context'[t] = context[t]
    BY <1>1, <1>4, <2>2, RecoveredTask
  <2>4. /\ InStage /\ current \in Tasks /\ life[current] = "Running" /\ OthersRest(current)
        /\ life \in [Tasks -> Lifecycle]
    BY <1>1, <1>4 DEF TaskRuns, KernelTypeOK
  <2>5. \A t \in Tasks \ {current} :
           \/ /\ life[t] \in {"Waiting", "Staged"} /\ owners'[t].state = "Inactive"
              /\ owners'[t].root \in Roots \ {0} /\ context'[t] = SavedContext(t, owners'[t])
           \/ life[t] = "Dead" /\ owners'[t] = NoOwner
    BY <2>3, <2>4 DEF OthersRest, Resting, Holds
  <2>6. CASE Stops("trap_context_capture") /\ UNCHANGED <<current, active, dispatcher>>
    <3>1. /\ pc' = "halted" /\ failure' = "trap_context_capture"
          /\ life' = life /\ frames' = frames
      BY <2>6 DEF Stops, dispatcher
    <3>2. KernelTypeOK'
      BY <1>1, <1>2, <2>3, <3>1 DEF KernelTypeOK, KernelFunctions
    <3>3. FailsOnlyForCause'
      BY <3>1 DEF FailsOnlyForCause
    <3> QED
      BY <3>1, <3>2, <3>3, StoppedInv
  <2>7. CASE /\ \E task \in Tasks : Resumes(task) /\ Goto("resume_scheduled_task", task)
             /\ current' = NoTask /\ active' = NoContext
    <3>1. PICK task \in Tasks : Resumes(task) /\ Goto("resume_scheduled_task", task)
      BY <2>7
    <3>2. pc' = "resume_scheduled_task" /\ next' = task /\ failure' = failure /\ frames' = frames
      BY <3>1 DEF Goto
    <3>3. /\ life' \in [Tasks -> Lifecycle] /\ stopped' = FALSE
          /\ life'[task] = "Running"
          /\ \A t \in Tasks \ {task, current} :
                \/ life'[t] = life[t]
                \/ life[t] = "Staged" /\ life'[t] = "Waiting"
          /\ task # current => life[task] = "Waiting" /\ life'[current] = "Waiting"
      <4>1. CASE task = current /\ UNCHANGED dispatcher
        BY <1>1, <2>4, <4>1 DEF dispatcher
      <4>2. CASE task = current /\ \E staged \in Tasks : Launch(current, staged)
        BY <1>1, <2>4, <4>2 DEF Launch, Becomes, Lifecycle
      <4>3. CASE Switch(current, task)
        BY <1>1, <2>4, <4>3 DEF Switch, Lifecycle
      <4> QED
        BY <3>1, <4>1, <4>2, <4>3, Zenon DEF Resumes
    <3>4. KernelTypeOK'
      BY <1>1, <1>2, <2>3, <3>2, <3>3 DEF KernelTypeOK, KernelFunctions
    <3>5. InStage'
      BY <1>2, <2>4, <3>3 DEF InStage
    <3>6. Holds(next, "Inactive")'
      BY <2>3, <2>5, <3>2, <3>3 DEF Holds
    <3>7. OthersRest(next)'
      <4> SUFFICES ASSUME NEW t \in Tasks, t # task PROVE Resting(t)'
        BY <3>2 DEF OthersRest
      <4>1. CASE t = current
        BY <2>3, <3>3, <4>1 DEF Resting, Holds
      <4>2. CASE t # current
        BY <2>5, <3>3, <4>2 DEF Resting, Holds
      <4> QED
        BY <4>1, <4>2
    <3>8. AtResume'
      BY <1>2, <2>7, <3>2, <3>3, <3>5, <3>6, <3>7 DEF AtResume, Unclaimed
    <3>9. OnEntry'
      BY <3>2, <3>8 DEF OnEntry
    <3> QED
      BY <1>1, <3>2, <3>3, <3>4, <3>9, EnteredInv, Zenon
  <2>8. CASE /\ Exit(current) /\ Goto("teardown_exited_task", current)
             /\ UNCHANGED <<current, active>>
    <3>1. pc' = "teardown_exited_task" /\ next' = current /\ failure' = failure /\ frames' = frames
      BY <2>8 DEF Goto
    <3>2. /\ life' \in [Tasks -> Lifecycle] /\ stopped' = FALSE /\ life'[current] = "Exited"
          /\ \A t \in Tasks \ {current} : life'[t] = life[t]
      BY <1>1, <2>4, <2>8 DEF Exit, Becomes, Lifecycle
    <3>3. KernelTypeOK'
      BY <1>1, <1>2, <2>3, <3>1, <3>2 DEF KernelTypeOK, KernelFunctions
    <3>4. InStage' /\ Holds(next, "Inactive")'
      BY <1>2, <2>3, <2>4, <3>1, <3>2 DEF InStage, Holds
    <3>5. OthersRest(next)'
      BY <2>5, <3>1, <3>2 DEF OthersRest, Resting, Holds
    <3>6. AtTeardown'
      BY <1>2, <2>4, <3>1, <3>2, <3>4, <3>5 DEF AtTeardown
    <3>7. OnEntry'
      BY <3>1, <3>6 DEF OnEntry
    <3> QED
      BY <1>1, <3>1, <3>2, <3>3, <3>7, EnteredInv, Zenon
  <2> QED
    BY <2>2, <2>6, <2>7, <2>8
<1> QED
  BY <1>1, <1>3, <1>4 DEF AtUser
-----------------------------------------------------------------------------
(* teardown_exited_task finds the exited task's owner inactive. *)
LEMMA TeardownExitedTaskInv == KernelInv /\ TeardownExitedTask => KernelInv'
<1> SUFFICES ASSUME KernelInv, TeardownExitedTask PROVE KernelInv'
  OBVIOUS
<1>1. /\ pc = "teardown_exited_task" /\ AtTeardown /\ stopped = FALSE /\ KernelTypeOK
  BY DEF TeardownExitedTask, KernelInv, OnEntry
<1>2. /\ next \in Tasks /\ life[next] = "Exited" /\ owners[next].state = "Inactive"
      /\ InStage /\ cr3 = Recovery /\ OthersRest(next)
  BY <1>1 DEF AtTeardown, Holds
<1>3. /\ BeginTeardown(next) /\ TeardownClears
      /\ owners' = [owners EXCEPT ![next] = NoOwner]
      /\ Stops("exited_owner_teardown") \/ Goto("complete_teardown", next)
      /\ UNCHANGED <<stage, cr3, taskOwner, runtime, context>>
  BY <1>2, Zenon DEF TeardownExitedTask
<1>4. /\ life' \in [Tasks -> Lifecycle] /\ life'[next] = "Closing" /\ stopped' = FALSE
      /\ \A t \in Tasks \ {next} : life'[t] = life[t]
  BY <1>1, <1>2, <1>3 DEF KernelTypeOK, BeginTeardown, Becomes, Lifecycle
<1>5. /\ owners' \in [Tasks -> Owners] /\ owners'[next] = NoOwner
      /\ \A t \in Tasks \ {next} : owners'[t] = owners[t]
  BY <1>1, <1>2, <1>3, KernelFacts DEF KernelTypeOK
<1>6. CASE Stops("exited_owner_teardown")
  <2>1. KernelTypeOK'
    BY <1>1, <1>3, <1>4, <1>5, <1>6 DEF KernelTypeOK, KernelFunctions, Stops
  <2>2. FailsOnlyForCause'
    BY <1>6 DEF FailsOnlyForCause, Stops
  <2> QED
    BY <1>6, <2>1, <2>2, StoppedInv DEF Stops
<1>7. CASE Goto("complete_teardown", next)
  <2>1. pc' = "complete_teardown" /\ next' = next /\ failure' = failure /\ frames' = frames
    BY <1>7 DEF Goto
  <2>2. KernelTypeOK'
    BY <1>1, <1>3, <1>4, <1>5, <2>1, SMTT(30) DEF KernelTypeOK, KernelFunctions
  <2>3. InStage' /\ OthersRest(next)'
    BY <1>2, <1>3, <1>4, <1>5, <2>1 DEF InStage, OthersRest, Resting, Holds
  <2>4. AtComplete'
    BY <1>2, <1>3, <1>4, <1>5, <2>1, <2>3 DEF AtComplete, Unclaimed, TeardownClears
  <2>5. OnEntry'
    BY <2>1, <2>4 DEF OnEntry
  <2> QED
    BY <1>1, <1>4, <2>1, <2>2, <2>5, EnteredInv, Zenon
<1> QED
  BY <1>3, <1>6, <1>7

(* complete_teardown fails only for a workload that was never launched;    *)
(* otherwise one task is left to resume, or none.                          *)
LEMMA CompleteExitedTaskInv == KernelInv /\ CompleteExitedTask => KernelInv'
<1> SUFFICES ASSUME KernelInv, CompleteExitedTask PROVE KernelInv'
  OBVIOUS
<1>1. pc = "complete_teardown" /\ AtComplete /\ stopped = FALSE /\ KernelTypeOK
  BY DEF CompleteExitedTask, KernelInv, OnEntry
<1>2. /\ next \in Tasks /\ life[next] = "Closing" /\ owners[next] = NoOwner
      /\ InStage /\ cr3 = Recovery /\ Unclaimed /\ OthersRest(next)
  BY <1>1 DEF AtComplete
<1>3. UNCHANGED <<stage, cr3, taskOwner, owners, runtime, context, current, active>>
  BY DEF CompleteExitedTask, globals
<1>4. CASE TeardownStops(next) /\ Stops("teardown_state_transition")
  <2>1. stage \in {"supervised", "journaled"}
    BY <1>2, <1>4 DEF TeardownStops, InStage, Scheduled
  <2>2. KernelTypeOK'
    BY <1>1, <1>3, <1>4 DEF KernelTypeOK, KernelFunctions, Stops, TeardownStops
  <2>3. FailsOnlyForCause'
    BY <1>3, <1>4, <2>1 DEF FailsOnlyForCause, Stops
  <2> QED
    BY <1>4, <2>2, <2>3, StoppedInv DEF Stops
<1>5. CASE /\ CompleteTeardown(next)
           /\ IF \A t \in Tasks : life'[t] = "Dead"
              THEN Goto("scheduler_success", NoTask)
              ELSE \E t \in Tasks : life'[t] = "Running" /\ Goto("resume_scheduled_task", t)
  <2>1. /\ \A u \in Tasks : life[u] # "Staged"
        /\ life' = [u \in Tasks |-> CASE u = next -> "Dead"
                                      [] u # next /\ life[u] = "Waiting" -> "Running"
                                      [] OTHER -> life[u]]
        /\ stopped' = FALSE
    BY <1>1, <1>5 DEF CompleteTeardown
  <2>2. /\ life'[next] = "Dead"
        /\ \A u \in Tasks \ {next} :
              \/ life[u] = "Waiting" /\ life'[u] = "Running" /\ Holds(u, "Inactive")
              \/ life[u] = "Dead" /\ life'[u] = "Dead" /\ owners[u] = NoOwner
    BY <1>2, <2>1 DEF OthersRest, Resting
  <2>3. life' \in [Tasks -> Lifecycle]
    <3>1. \A u \in Tasks : life'[u] \in Lifecycle
      BY <2>2 DEF Lifecycle
    <3> QED
      BY <2>1, <3>1
  <2>4. InStage'
    BY <1>2, <1>3, <2>2 DEF InStage
  <2>5. CASE \A t \in Tasks : life'[t] = "Dead"
    <3>1. pc' = "scheduler_success" /\ failure' = failure /\ frames' = frames
      BY <1>5, <2>5 DEF Goto
    <3>2. KernelTypeOK'
      BY <1>1, <1>3, <2>3, <3>1 DEF KernelTypeOK, KernelFunctions
    <3>3. AllGone'
      BY <1>2, <1>3, <2>2, <2>5 DEF AllGone
    <3>4. OnEntry'
      BY <1>2, <1>3, <2>4, <3>1, <3>3 DEF OnEntry, AtSuccess, Unclaimed
    <3> QED
      BY <1>1, <2>1, <3>1, <3>2, <3>4, EnteredInv, Zenon
  <2>6. CASE ~\A t \in Tasks : life'[t] = "Dead"
    <3>1. PICK t \in Tasks : life'[t] = "Running" /\ Goto("resume_scheduled_task", t)
      BY <1>5, <2>6
    <3>2. pc' = "resume_scheduled_task" /\ next' = t /\ failure' = failure /\ frames' = frames
      BY <3>1 DEF Goto
    <3>3. KernelTypeOK'
      BY <1>1, <1>3, <2>3, <3>2, SMTT(30) DEF KernelTypeOK, KernelFunctions
    <3>4. Holds(next, "Inactive")'
      BY <1>3, <2>2, <3>1, <3>2, SMTT(30) DEF Holds
    <3>5. OthersRest(next)'
      <4> SUFFICES ASSUME NEW u \in Tasks \ {t} PROVE Resting(u)'
        BY <3>2, SMTT(30) DEF OthersRest
      <4>1. t # next /\ u = next
        BY <1>2, <2>2, <3>1, KernelFacts, SMTT(30)
      <4> QED
        BY <1>2, <1>3, <2>2, <4>1 DEF Resting
    <3>6. AtResume'
      BY <1>2, <1>3, <2>4, <3>1, <3>2, <3>4, <3>5 DEF AtResume, Unclaimed
    <3>7. OnEntry'
      BY <3>2, <3>6 DEF OnEntry
    <3> QED
      BY <1>1, <2>1, <3>2, <3>3, <3>7, EnteredInv, Zenon
  <2> QED
    BY <2>5, <2>6
<1> QED
  BY <1>4, <1>5 DEF CompleteExitedTask

(* scheduler_success finds no residue, and leaves the kernel idle. *)
LEMMA SchedulerSuccessInv == KernelInv /\ SchedulerSuccess => KernelInv'
<1> SUFFICES ASSUME KernelInv, SchedulerSuccess PROVE KernelInv'
  OBVIOUS
<1>1. pc = "scheduler_success" /\ AtSuccess /\ stopped = FALSE /\ KernelTypeOK
  BY DEF SchedulerSuccess, KernelInv, OnEntry
<1>2. /\ InStage /\ cr3 = Recovery /\ Unclaimed /\ AllGone
      /\ stage \in Scheduled /\ runtime # "None"
  BY <1>1 DEF AtSuccess, InStage, Scheduled
<1>3. ~(\/ \E t \in Tasks : life[t] # "Dead" \/ owners[t] # NoOwner
        \/ current # NoTask \/ active.present)
  BY <1>2 DEF AllGone, Unclaimed, NoContext
<1>4. CASE stage = "journaled" /\ KernelFailure("journal_reference")
  BY <1>4, FailureInv DEF KernelFailure, Stops, globals, dispatcher
<1>5. CASE ~(stage = "journaled" /\ KernelFailure("journal_reference"))
  <2>1. /\ runtime' = "None" /\ stage' = FollowedBy[stage]
        /\ pc' = IF stage = "journaled" THEN "halted" ELSE "run_scheduler"
        /\ failure' = failure /\ frames' = frames
        /\ UNCHANGED <<cr3, taskOwner, owners, context, current, active, life, stopped>>
    BY <1>2, <1>3, <1>5 DEF SchedulerSuccess, Goto, dispatcher
  <2>2. KernelTypeOK'
    BY <1>1, <2>1 DEF KernelTypeOK, KernelFunctions
  <2>3. CASE stage = "journaled"
    <3>1. FailsOnlyForCause'
      BY <1>1, <2>1 DEF KernelInv, FailsOnlyForCause
    <3> QED
      BY <2>1, <2>2, <2>3, <3>1, StoppedInv
  <2>4. CASE stage # "journaled"
    <3>1. stage' \in Scheduled
      BY <1>2, <2>1, <2>4, KernelFacts
    <3>2. Idle'
      BY <1>2, <2>1 DEF Idle, InStage, Unclaimed, AllGone
    <3>3. OnEntry'
      BY <2>1, <2>4, <3>1, <3>2 DEF OnEntry
    <3> QED
      BY <1>1, <2>1, <2>2, <3>3, EnteredInv, Zenon
  <2> QED
    BY <2>3, <2>4
<1> QED
  BY <1>4, <1>5
-----------------------------------------------------------------------------
(* Every step of the kernel, of a task or of a fault keeps the invariant. *)
LEMMA KernelNextInv ==
    KernelInv /\ [KernelStep \/ Trap \/ UserFault \/ Halted]_kernelVars => KernelInv'
<1> SUFFICES ASSUME KernelInv, [KernelStep \/ Trap \/ UserFault \/ Halted]_kernelVars
             PROVE  KernelInv'
  OBVIOUS
<1>1. CASE KernelStep
  BY <1>1, IsolationEntryInv, IsolationContinuationInv, RunSchedulerInv,
     ResumeScheduledTaskInv, TeardownExitedTaskInv, CompleteExitedTaskInv,
     SchedulerSuccessInv DEF KernelStep
<1>2. CASE UNCHANGED kernelVars
  <2>1. KernelTypeOK'
    BY <1>2 DEF kernelVars, KernelInv, KernelTypeOK
  <2>2. FailsOnlyForCause' /\ (pc # "halted" => stopped = FALSE /\ failure = "None")'
    BY <1>2 DEF kernelVars, KernelInv, FailsOnlyForCause
  <2>3. OnEntry'
    BY <1>2, Zenon DEF kernelVars, KernelInv, OnEntry, AtUser, AtResume, AtTeardown, AtComplete,
       AtSuccess, Isolated, TaskRuns, InStage, Idle, Unclaimed, AllGone, OthersRest, Resting,
       Holds
  <2> QED
    BY <2>1, <2>2, <2>3 DEF KernelInv
<1> QED
  BY <1>1, <1>2, TrapInv, UserFaultInv DEF Halted

(* What each kernel function relies on holds whenever it is entered. *)
THEOREM KernelInvariant == KernelSpec => []KernelInv
<1>1. KernelInv /\ [KernelStep \/ Trap \/ UserFault \/ Halted]_kernelVars => KernelInv'
  BY KernelNextInv
<1> QED
  BY <1>1, KernelInitInv, PTL DEF KernelSpec

(* No consistency check of the kernel fails, whatever the tasks do: it     *)
(* stops only for the causes FailsOnlyForCause lists.                      *)
THEOREM KernelFailsOnlyForCause == KernelSpec => []FailsOnlyForCause
<1>1. KernelInv => FailsOnlyForCause
  BY DEF KernelInv
<1> QED
  BY <1>1, KernelInvariant, PTL

(* User code runs only in the address space of the task that the runtime   *)
(* says is running, which is the only active one; kernel code runs on the  *)
(* recovery root.                                                          *)
THEOREM OneActiveSpace == KernelSpec => []UserRunsInOwnSpace
<1>1. KernelInv => UserRunsInOwnSpace
  <2> SUFFICES ASSUME KernelInv PROVE UserRunsInOwnSpace
    OBVIOUS
  <2> DEFINE all == {taskOwner} \union {owners[t] : t \in Tasks}
             running == IF stage = "isolation" THEN taskOwner ELSE OwnerOf(current)
  <2>1. KernelTypeOK /\ OnEntry
    BY DEF KernelInv
  <2>2. pc \notin {"user", "halted"} => cr3 = Recovery
    BY <2>1 DEF KernelTypeOK, KernelFunctions, OnEntry, Idle, AtResume, AtTeardown,
       AtComplete, AtSuccess
  <2>3. ASSUME pc = "user", Isolated, cr3 = taskOwner.root
        PROVE  /\ {owner \in all : owner.state = "Active"} = {running}
               /\ cr3 = running.root
               /\ active.present /\ active.root = cr3
               /\ stage # "isolation" => IsRunning(current) /\ active.task = current
    <3>1. running = taskOwner /\ taskOwner.state = "Active" /\ all = {taskOwner, NoOwner}
      BY <2>3, KernelFacts, SMTT(30) DEF Isolated, AllGone
    <3> QED
      BY <2>3, <3>1, KernelFacts DEF Isolated, ActiveContext
  <2>4. ASSUME pc = "user", TaskRuns
        PROVE  /\ {owner \in all : owner.state = "Active"} = {running}
               /\ cr3 = running.root
               /\ active.present /\ active.root = cr3
               /\ stage # "isolation" => IsRunning(current) /\ active.task = current
    <3>1. running = owners[current] /\ owners[current].state = "Active" /\ taskOwner = NoOwner
      BY <2>4 DEF TaskRuns, InStage, Scheduled, OwnerOf, Holds
    <3>2. \A t \in Tasks \ {current} : owners[t].state # "Active"
      BY <2>4, KernelFacts DEF TaskRuns, OthersRest, Resting, Holds
    <3>3. current \in Tasks
      BY <2>4 DEF TaskRuns
    <3>4. {owner \in all : owner.state = "Active"} = {running}
      BY <3>1, <3>2, <3>3, KernelFacts
    <3> QED
      BY <2>4, <3>1, <3>4 DEF TaskRuns, ActiveContext, IsRunning
  <2>5. pc = "user" => (Isolated /\ cr3 = taskOwner.root) \/ TaskRuns
    BY <2>1 DEF OnEntry, AtUser
  <2> QED
    BY <2>2, <2>3, <2>4, <2>5, Zenon DEF UserRunsInOwnSpace
<1> QED
  BY <1>1, KernelInvariant, PTL
=============================================================================

------------------------------- MODULE Kernel -------------------------------
(* The kernel proper: four stages one after the other, first a single task whose
   page fault must be contained, then two tasks under each runtime profile. Each
   action is one function of arch_x86_64.rs that does not return; pc names the
   function that runs next, or user code. What a runtime does with a trap is any
   step the Dispatcher allows; building and tearing down address spaces, modelled
   in KernelMemory, either succeed or stop the kernel.                          *)
EXTENDS Dispatcher, Checks

CONSTANTS
    Roots,          \* the frames of the machine, by their address: 0 may be one
    Recovery        \* RECOVERY_STATE's root: a page of the kernel's image

ASSUME RootAssumption == Recovery \notin Roots

VARIABLES
    frames,         \* the frames the memory map leaves to the allocator
    stage, pc,
    next,           \* the argument of the function that runs next: a task
    cr3,            \* the active page-table root
    taskOwner,      \* TASK_OWNER
    owners,         \* TASK_OWNERS
    runtime,        \* TASK_RUNTIME: the profile, or "None"
    context,        \* the saved context of each task of the runtime
    current,        \* CURRENT_TASK
    active,         \* ACTIVE_CONTEXT
    failure         \* why kernel_failure was called

kernelVars == <<frames, stage, pc, next, cr3, taskOwner, owners, runtime, context, current, active,
                failure, life, stopped>>

globals == <<taskOwner, owners, runtime, context, current, active>>

NoTask == 0

NoOwner == [state |-> "None", root |-> Recovery, generation |-> 0]

NoContext == [present |-> FALSE, task |-> 0, root |-> Recovery, continuation |-> FALSE]

Owner(root, generation) == [state |-> "Inactive", root |-> root, generation |-> generation]

Activated(owner) == [owner EXCEPT !.state = "Active"]

\* TaskContextV1 as far as validate compares it with the task and its owner.
SavedContext(task, owner) ==
    [task |-> task, root |-> owner.root, generation |-> owner.generation]

\* TaskContextV1::validate: the context is of this task and its space, and the
\* root is not zero.
ContextValid(saved, task, owner) == saved = SavedContext(task, owner) /\ saved.root # 0

\* TASK_GENERATION and the generations of the pairs.
Generations == [isolation |-> <<1>>, cooperative |-> <<2, 3>>, supervised |-> <<4, 5>>,
                journaled |-> <<4, 5>>]

FollowedBy == [isolation |-> "cooperative", cooperative |-> "supervised",
               supervised |-> "journaled", journaled |-> "success"]

\* Which task each profile dispatches first, and which it stages.
Profile == [cooperative |-> [first |-> 2, staged |-> {}],
            supervised  |-> [first |-> 1, staged |-> {2}],
            journaled   |-> [first |-> 1, staged |-> {2}]]

KernelInit ==
    /\ frames \in SUBSET Roots
    /\ stage = "isolation" /\ pc = "isolation_entry" /\ next = NoTask
    /\ cr3 = Recovery
    /\ taskOwner = NoOwner /\ owners = [t \in Tasks |-> NoOwner]
    /\ runtime = "None" /\ context = [t \in Tasks |-> SavedContext(NoTask, NoOwner)]
    /\ current = NoTask /\ active = NoContext
    /\ failure = "None"
    /\ life = [t \in Tasks |-> "Dead"] /\ stopped = FALSE

-----------------------------------------------------------------------------

\* The function calls another, or kernel_failure; neither returns.
Goto(function, task) == pc' = function /\ next' = task /\ UNCHANGED <<failure, frames>>

Stops(reason) == pc' = "halted" /\ next' = NoTask /\ failure' = reason /\ UNCHANGED frames

\* kernel_failure before anything was changed.
KernelFailure(reason) == Stops(reason) /\ UNCHANGED <<stage, cr3, globals, dispatcher>>

OwnerOf(task) == IF task \in Tasks THEN owners[task] ELSE NoOwner

IsRunning(task) == task \in Tasks /\ life[task] = "Running"

-----------------------------------------------------------------------------
(* The isolation stage *)

IsolationEntry ==
    /\ pc = "isolation_entry"
    /\ IF cr3 # Recovery
       THEN KernelFailure("recovery_root_switch")
       ELSE \/ KernelFailure("address_space_construction")
            \/ /\ \E root \in frames :
                     /\ taskOwner' = Activated(Owner(root, Generations.isolation[1]))
                     /\ active' = [present |-> TRUE, task |-> 1, root |-> root,
                                   continuation |-> TRUE]
                     /\ cr3' = root
               /\ Goto("user", NoTask)
               /\ UNCHANGED <<stage, owners, runtime, context, current, dispatcher>>

\* classify_expected_user_fault: the fault is the probe's write to the one
\* unmapped address, or another.
FaultExpected(probe) ==
    /\ taskOwner.state = "Active"
    /\ active.present /\ active.continuation /\ active.task = 1 /\ active.root = cr3
    /\ probe

\* makopa_exception_dispatch, in any stage.
UserFault ==
    /\ pc = "user"
    /\ \E probe \in BOOLEAN :
          IF FaultExpected(probe)
          THEN /\ cr3' = Recovery
               /\ Goto("isolation_continuation", NoTask)
               /\ UNCHANGED <<stage, globals, dispatcher>>
          ELSE KernelFailure("user_fault_classification")

IsolationContinuation ==
    LET wrong == FirstFailure(<< <<cr3 # Recovery, "recovery_root_restore">>,
                                 <<taskOwner = NoOwner, "task_owner_missing">> >>)
    IN  /\ pc = "isolation_continuation"
        /\ IF wrong # "Ok"
           THEN KernelFailure(wrong)
           ELSE /\ taskOwner' = NoOwner
                /\ IF taskOwner.state # "Active"
                   THEN Stops("task_recovery_state") /\ UNCHANGED <<stage, active>>
                   ELSE \/ Stops("address_space_teardown") /\ UNCHANGED <<stage, active>>
                        \/ /\ active' = NoContext /\ stage' = FollowedBy[stage]
                           /\ Goto("run_scheduler", NoTask)
                /\ UNCHANGED <<cr3, owners, runtime, context, current, dispatcher>>

-----------------------------------------------------------------------------
(* The stages with two tasks *)

\* The runtime is made, selects its first task and, with the owners, is stored.
Publish(built, saved) ==
    LET profile == Profile[stage] IN
    /\ owners' = built /\ context' = saved /\ runtime' = stage
    /\ life' = [Published(profile.staged) EXCEPT ![profile.first] = "Running"]
    /\ Goto("resume_scheduled_task", profile.first)
    /\ UNCHANGED <<stage, cr3, taskOwner, current, active, stopped>>

\* run_scheduler, run_supervised_scheduler and run_journaled_scheduler.
RunScheduler ==
    LET wrong == FirstFailure(<< <<cr3 # Recovery, "scheduler_recovery_root">>,
                                 <<taskOwner # NoOwner \/ runtime # "None"
                                     \/ \E t \in Tasks : owners[t] # NoOwner,
                                   "scheduler_publication_state">> >>)
    IN  /\ pc = "run_scheduler"
        /\ IF wrong # "Ok"
           THEN KernelFailure(wrong)
           ELSE \/ KernelFailure("address_space_construction")
                \/ \E roots \in [Tasks -> frames] :
                      LET built == [t \in Tasks |-> Owner(roots[t], Generations[stage][t])]
                          saved == [t \in Tasks |-> SavedContext(t, built[t])]
                      IN  /\ IsInjective(roots)
                          /\ IF \A t \in Tasks : ContextValid(saved[t], t, built[t])
                             THEN Publish(built, saved)
                             ELSE \/ KernelFailure("scheduler_publication_rollback")
                                  \/ KernelFailure("scheduler_initial_context")

ResumeScheduledTask ==
    LET owner == OwnerOf(next)
        wrong == FirstFailure(<< <<runtime = "None", "task_runtime_missing">>,
                                 <<~IsRunning(next), "scheduler_selected_state">>,
                                 <<owner = NoOwner, "task_owner_missing">>,
                                 <<owner.state # "Inactive", "task_owner_state">>,
                                 <<~ContextValid(context[next], next, owner),
                                   "task_context_validation">> >>)
    IN  /\ pc = "resume_scheduled_task"
        /\ IF wrong # "Ok"
           THEN KernelFailure(wrong)
           ELSE /\ owners' = [owners EXCEPT ![next] = Activated(@)]
                /\ current' = next
                /\ active' = [present |-> TRUE, task |-> next, root |-> owner.root,
                              continuation |-> FALSE]
                /\ cr3' = context[next].root
                /\ Goto("user", NoTask)
                /\ UNCHANGED <<stage, taskOwner, runtime, context, dispatcher>>

TrapStatus ==
    LET owner == OwnerOf(current) IN
    FirstFailure(<< <<runtime = "None", "trap_runtime_missing">>,
                    <<~IsRunning(current), "trap_running_task">>,
                    <<owner = NoOwner, "trap_owner_missing">>,
                    <<owner.state # "Active", "trap_owner_inactive">>,
                    <<active # [present |-> TRUE, task |-> current, root |-> owner.root,
                                continuation |-> FALSE], "trap_active_owner">> >>)

\* The outcomes of handle_trap that resume a task: the caller, or another.
Resumes(task) ==
    \/ task = current /\ UNCHANGED dispatcher
    \/ task = current /\ \E staged \in Tasks : Launch(current, staged)
    \/ Switch(current, task)

\* Fault: the owner is not recovered.
TrapRecoversKeepsActive ==
    /\ context' = [context EXCEPT ![current] = SavedContext(current, owners[current])]
    /\ UNCHANGED owners

\* The owner is recovered and the trap frame becomes the saved context.
TrapRecovers ==
    /\ owners' = [owners EXCEPT ![current].state = "Inactive"]
    /\ context' = [context EXCEPT ![current] = SavedContext(current, owners[current])]

\* makopa_task_trap_dispatch, after the trampoline has loaded the recovery root.
\* A task that traps with its registers outside the policy stops the kernel.
Trap ==
    /\ pc = "user"
    /\ cr3' = Recovery
    /\ IF TrapStatus # "Ok"
       THEN Stops(TrapStatus) /\ UNCHANGED <<owners, context, current, active, dispatcher>>
       ELSE /\ TrapRecovers
            /\ \/ /\ Stops("trap_context_capture")
                  /\ UNCHANGED <<current, active, dispatcher>>
               \/ /\ \E task \in Tasks :
                        Resumes(task) /\ Goto("resume_scheduled_task", task)
                  /\ current' = NoTask /\ active' = NoContext
               \/ /\ Exit(current)
                  /\ Goto("teardown_exited_task", current)
                  /\ UNCHANGED <<current, active>>
    /\ UNCHANGED <<stage, taskOwner, runtime>>

\* Fault: CURRENT_TASK and ACTIVE_CONTEXT outlive the task.
TeardownClearsNothing == UNCHANGED <<current, active>>

TeardownClears == current' = NoTask /\ active' = NoContext

\* teardown_exited_task up to complete_teardown.
TeardownExitedTask ==
    /\ pc = "teardown_exited_task"
    /\ IF life[next] # "Exited"
       THEN KernelFailure("handle_first_teardown")
       ELSE /\ BeginTeardown(next)
            /\ TeardownClears
            /\ owners' = [owners EXCEPT ![next] = NoOwner]
            /\ IF owners[next].state # "Inactive"
               THEN Stops("exited_owner_active")
               ELSE Stops("exited_owner_teardown") \/ Goto("complete_teardown", next)
            /\ UNCHANGED <<stage, cr3, taskOwner, runtime, context>>

\* Fault: a teardown that cannot complete leaves the kernel idle.
CompleteExitedTaskGivesUp ==
    /\ pc = "complete_teardown"
    /\ \/ TeardownStops(next) /\ Goto("halted", NoTask)
       \/ /\ CompleteTeardown(next)
          /\ IF \A t \in Tasks : life'[t] = "Dead"
             THEN Goto("scheduler_success", NoTask)
             ELSE \E t \in Tasks :
                     life'[t] = "Running" /\ Goto("resume_scheduled_task", t)
    /\ UNCHANGED <<stage, cr3, globals>>

\* The rest of it: the task that is left runs next, or the stage is over.
CompleteExitedTask ==
    /\ pc = "complete_teardown"
    /\ \/ /\ TeardownStops(next)
          /\ Stops("teardown_state_transition")
       \/ /\ CompleteTeardown(next)
          /\ IF \A t \in Tasks : life'[t] = "Dead"
             THEN Goto("scheduler_success", NoTask)
             ELSE \E t \in Tasks :
                     life'[t] = "Running" /\ Goto("resume_scheduled_task", t)
    /\ UNCHANGED <<stage, cr3, globals>>

\* scheduler_success; only the journaled profile compares what the tasks did
\* with the one history the reference tasks produce.
SchedulerSuccess ==
    LET residue == \/ \E t \in Tasks : life[t] # "Dead" \/ owners[t] # NoOwner
                   \/ current # NoTask \/ active.present
    IN  /\ pc = "scheduler_success"
        /\ IF runtime = "None"
           THEN KernelFailure("final_runtime_missing")
           ELSE IF residue
           THEN KernelFailure("scheduler_residual_state")
           ELSE \/ stage = "journaled" /\ KernelFailure("journal_reference")
                \/ /\ runtime' = "None"
                   /\ stage' = FollowedBy[stage]
                   /\ Goto(IF stage = "journaled" THEN "halted" ELSE "run_scheduler", NoTask)
                   /\ UNCHANGED <<cr3, taskOwner, owners, context, current, active, dispatcher>>

Halted == pc = "halted" /\ UNCHANGED kernelVars

KernelStep ==
    \/ IsolationEntry \/ IsolationContinuation
    \/ RunScheduler \/ ResumeScheduledTask \/ TeardownExitedTask \/ CompleteExitedTask
    \/ SchedulerSuccess

\* Interrupts are off, so the kernel runs until it enters user code; a task may
\* trap, fault or run on.
KernelSpec ==
    /\ KernelInit
    /\ [][KernelStep \/ Trap \/ UserFault \/ Halted]_kernelVars
    /\ WF_kernelVars(KernelStep)

-----------------------------------------------------------------------------
(* Properties *)

\* The kernel's own consistency checks never fail: over all stages and whatever
\* the tasks do, kernel_failure is reached only when memory runs out, a task leaves
\* its registers outside the policy, faults, or traps in the stage that has no
\* runtime, a supervisor ends without having launched its workload, the
\* journaled tasks did not produce the reference history, or, when the frame at
\* address zero is one the memory map offers, that frame became a task's root.
FailsOnlyForCause ==
    \/ failure \in {"None", "address_space_construction", "address_space_teardown",
                    "exited_owner_teardown", "user_fault_classification",
                    "trap_context_capture"}
    \/ failure = "trap_runtime_missing" /\ stage = "isolation"
    \/ failure = "teardown_state_transition" /\ stage \in {"supervised", "journaled"}
    \/ failure = "journal_reference" /\ stage = "journaled"
    \/ /\ failure \in {"scheduler_initial_context", "scheduler_publication_rollback"}
       /\ 0 \in frames /\ stage # "isolation"

\* User code runs only in the address space of the task the runtime says is
\* running: the loaded root is that task's, its owner is the only active one of
\* all owners, and the fault and trap handlers will find the same task.
UserRunsInOwnSpace ==
    LET all     == {taskOwner} \union {owners[t] : t \in Tasks}
        running == IF stage = "isolation" THEN taskOwner ELSE OwnerOf(current)
    IN  /\ pc = "user" =>
              /\ {owner \in all : owner.state = "Active"} = {running}
              /\ cr3 = running.root
              /\ active.present /\ active.root = cr3
              /\ stage # "isolation" => IsRunning(current) /\ active.task = current
        /\ pc \notin {"user", "halted"} => cr3 = Recovery

Gone(t) == life[t] = "Dead" /\ owners[t] = NoOwner

\* Every task that exits is torn down: its address space is given up and the
\* runtime has it dead, unless the kernel stops with a failure.
ExitReleasesSpace ==
    \A t \in Tasks : (life[t] = "Exited") ~> (Gone(t) \/ failure # "None")
=============================================================================

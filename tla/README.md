# MakopaOS: TLA+ models, checks and proofs

MakopaOS is a small capability kernel: a UEFI loader hands a memory map to a
kernel that runs two cooperating tasks, each in its own address space, under one
of three runtime profiles. A host tool decides which component bundles may be
admitted. This directory models them in TLA+ from the firmware's memory map to the
last teardown, checks the models with TLC on small instances, and proves with TLAPS,
for every value of the constants, the safety of the three profiles, of the kernel's
globals, of the frame allocator and of the address spaces over it.

Paths below are relative to the repository. `PROJECT.json` maps each definition
to the lines it models, and lists the runs, seeded faults, hazards and theorems.

## The system and its parts

| Part | Code | Module | Status |
| --- | --- | --- | --- |
| Capability tables | `crates/task-runtime/src/lib.rs` | `CapabilityTable` | modelled, proved about |
| Task slots, run queue, common traps, teardown | same | `TaskRuntime` | modelled, proved about |
| Cooperative profile: endpoint and inline message | same | `CooperativeRuntime` | modelled, safety proved |
| Supervised profile: launch, approval broker, effect cell | same | `SupervisedRuntime` | modelled, safety proved |
| Journaled profile: effect journal | same | `EffectJournal`, `JournaledRuntime` | modelled, safety and refinement proved |
| Publication rollback of the runtimes | same | - | not modelled |
| Saved contexts and trap frames | same | part of `TaskRuntime`, `Kernel` | partly |
| Physical frame allocator | `crates/frame-allocator` | `FrameAllocator`, `FrameClient` | modelled, refinement proved |
| Address-space ownership | `crates/address-space` | `AddressSpace`, `KernelMemory` | partly, safety proved |
| Kernel scheduler integration | `kernel/src/arch_x86_64.rs` | `Kernel`, `KernelMemory` | partly, safety proved |
| Kernel entry | `kernel/src/main.rs` | `Boot`, `Kernel` | partly |
| Boot contract: map normalisation, handoff validation | `crates/boot-contract` | `Normalizer`, `BootContract` | modelled |
| Kernel image plan | `crates/kernel-image` | `KernelImage` | modelled |
| UEFI loader | `loader/src/main.rs` | `Boot` | modelled |
| Host component admission | `tools/component-admission` | `SourceManifest`, `ComponentSurface`, `Admission` | partly |
| Scripts, legacy boot sector | `scripts`, `boot.asm` | - | not modelled |

The parts meet as follows. The loader normalises the firmware's map and enters
the kernel, which gives the map to the frame allocator. `run_scheduler` and its
supervised and journaled variants build two address spaces from the allocator,
publish a runtime and dispatch its first task. Each trap recovers the address
space, calls `handle_trap`, and resumes the task the runtime names. An exit calls
`begin_teardown`, tears the address space down, and calls `complete_teardown`.

## Modules

`CapabilityTable` holds pure operators on one table. `TaskRuntime` extends it
with the variables and actions both base profiles share. `CooperativeRuntime` and
`SupervisedRuntime` each extend `TaskRuntime` into a specification.
`JournaledRuntime` extends `SupervisedRuntime` and `EffectJournal`, as
`JournaledRuntime` in the code wraps `Runtime` and `EffectJournalV1`.
`FrameAllocator` holds the allocator's tables and operations, and `FrameClient`
calls them in any order on any map. `KernelMemory` composes `AddressSpace` with
`FrameAllocator`, as `KernelBackend` does. `Tables` holds the operations on arrays
that both use. `BootContract` and `KernelImage` hold the checks of the two crates as
operators, and `Normalizer` is `normalize_memory_regions` as a state machine.
`Boot` composes all three with the allocator into one behaviour: the loader up to
the jump, then `kernel_entry` up to the end of its frame probe. `Admission`
composes `SourceManifest` and `ComponentSurface` in the order of `verify_bundle`.
`Checks` holds the one idea they share: the first failing check names the error.

Three modules are abstract. `EffectLedger` and `FramePool` are what the journal and
the allocator implement. `Dispatcher` is what the kernel relies on in any runtime:
which task has the processor and how an exited one is brought to its end.
`Scheduling` states it as a specification with fairness, all three profiles
implement it (`CooperativeScheduling`, `SupervisedScheduling`), and `Kernel` is
built on its actions. So `Kernel` shows what the
kernel's globals do under every runtime, without the runtimes' own state.

**State.** `state`, `queue` and `caps` are the task slots, the run queue and the
capability tables. `reply[t]` is the result the saved context of `t` resumes
with. `failed` says that a runtime call returned `Err`, on which the kernel
stops. `endpoint`, `broker`, `effect`, `manifest` and `journal` are the objects of
the profiles. `spent`, `sent` and `received` are history variables: they record
what happened and no guard reads them, except that the length of `sent` is
bounded. `SupervisedHistory` adds one more to the supervised profile, the request
last shown to the supervisor.

**Steps.** One action is one call of `handle_trap`, `begin_teardown` or
`complete_teardown`. The kernel makes these calls on one processor with
interrupts disabled. A call that fails restores the state it began with. In
`AddressSpace` one action is one call to the backend, because any of them may be
refused between two others. In `Kernel` one action is one function that does not
return, and `pc` names the next. In `Normalizer` one action is one iteration of a
loop, in `ComponentSurface` one payload, in `SourceManifest` one line.

**Tasks.** A task may make any trap with any argument in the sets given, at any
time it runs. This is more than the fixed probe programs of the kernel do.

**validate.** Handlers end with `validate()?`. It is modelled as a predicate
(`CooperativeValid`, `SupervisedValid`, `JournaledValid`) and checked to be an
invariant, which shows that this `Err` branch is never taken.

**Faults.** An operator whose comment starts with "Fault:" is a plausible bug in
the definition that follows. No specification uses one. Each property is paired
in `PROJECT.json` with a fault that violates it.

## Runs

| Run | Configuration | What it checks |
| --- | --- | --- |
| `cooperative` | `MCCooperative.cfg` | validation, delivery, stale handles, authority, wake-ups; implements `Scheduling` |
| `supervised` | `MCSupervised.cfg` | broker, approval, effect and epochs agree through exhaustion; a decision falls on the request that was shown; implements `Scheduling` |
| `unlaunched_exit` | `MCUnlaunchedExit.cfg` | a violation, see Findings |
| `journaled` | `MCJournaled.cfg` | every transition recorded, legal lifecycles, attribution, outcomes |
| `journal_ledger` | `MCLedger.cfg` | implements `EffectLedger` and `Scheduling`, reclamation included; stable record reads |
| `frames` | `MCFrames.cfg` | the extent tables implement `FramePool`; some held frame can always be returned |
| `kernel_memory` | `MCKernelMemory.cfg` | frames accounted for, unreachable when returned, pair all-or-nothing, no return refused for fragmentation, calls end |
| `normalize` | `MCNormalizer.cfg` | the one-pass merge against a page-by-page reference; rejection exactly for a cause |
| `boot` | `MCBoot.cfg` | the image arrives whole, managed memory is spare, the kernel accepts its loader's handoff, halts only for a cause |
| `kernel` | `MCKernel.cfg` | the kernel's own checks never fail but for a root at address zero, user code runs in its own space, an exited task's space is released |
| `prefix_collision` | `MCPrefix.cfg` | a violation, see Findings |
| `admission` | `MCAdmission.cfg` | what is admitted is one build with its source tree; the accepted component surface |

Deadlock is checked in every run but the two of the admission tool, which ends with
a verdict; a stopped kernel stutters by an explicit action.

`ImplementsDispatcher` carries the liveness of the runtimes: once a task exits,
the calls the kernel owes are made and succeed, and the task that is left runs. A
runtime call that failed in any way but the one under Findings would not be a
step of `Scheduling`.

### Bounds

- *Cooperative.* Two slots (16 in the code) with two generations (2^60 - 1):
  slots are reused, retired, and full, and the table mixes retired and occupied
  slots. Three messages fill the slot, hand over, and outlive the sender.
  The proofs cover all sizes.
- *Supervised.* Four slots hold the supervisor's handles. One generation makes a
  close final. Sequence and epoch limits of 3 and 5 stand for `u64::MAX`, so both
  exhaustions happen, in the middle of a request too, and a request can be shown,
  end, and be followed by two others. The two arguments tell requests apart.
- *Journaled.* Seven records (16 in the code) hold two lifecycles and part of a
  third, so a submission is refused for room. The ledger run, which checks liveness
  and two refinements, uses smaller limits.
- *Frames.* Pages of two bytes and addresses to 13 allow unaligned and overflowing
  regions. Two extents make both tables overflow. Maps have up to three regions.
- *Kernel memory.* Five maps and a table of three extents: too few frames for one
  space, for two (a pair takes 14), all in one extent, and extents the spaces
  straddle, with and without a spare slot in the table.
- *Normalizer.* Six pages; every ordered map of up to two regions, with or without
  a third at the end, under up to two ordered overrides, of which those of one kind
  are required; and malformed tables. The room
  is 2 or 4 regions, so the output runs out of it.
- *Boot.* Pages of four bytes and seven pages in every arrangement of three types;
  six images, some of them to be refused; displays that are absent, end inside a page
  or at its end, lie over the kernel, or lie outside the listed memory.
- *Kernel.* Every subset of four frames, of which one is at address zero, may be left
  to the allocator: two tasks have different roots and a later stage reuses them.
  The four stages are the code's.
- *Admission.* Two dozen builds. Most differ from the first in one file, record,
  count or manifest, or break one rule, so that every comparison and every rule can
  be the one that refuses. Each file may come from any build. Paths are of up
  to three bytes with the separator and a byte sorting before it; nesting is of up
  to two units.

### Fairness

Weak fairness is assumed only of `KernelStep`, `JournaledKernelStep` and, in
`KernelMemory`, `Library`: kernel code that has begun runs to its end because
nothing preempts it. No fairness is assumed of tasks. ADR-0004 makes no fairness
claim for them, and a task may run for ever. None is assumed of `FinishReclamation`:
`scheduler_success` may stop the kernel before it (see the caveats).

## Findings

`unlaunched_exit`: a supervisor that exits while its workload is still `Staged`
never becomes `Dead`. `complete_teardown` calls `dispatch_next`, which finds an
empty queue and a task that is not dead, and returns `NoRunnableTask`. The kernel
stops. ADR-0004 and ADR-0006 say that teardown ends with `Dead`. The other runs
show that it is the only way a supervised or journaled runtime call fails
(`ImplementsDispatcher`: `TeardownStops` is the only step that stops).

`prefix_collision`: `SourceManifestV1::parse` compares a path only with the one
before it, and `-` and `.` sort before `/`. In the list `a`, `a-b`, `a/c` the first
path is a directory prefix of the third and the manifest is accepted. ADR-0008 says
"A file path cannot also be another entry's directory prefix." The bundle is still
refused later: `verify_staged_root` compares the manifest with a real directory
tree, in which no path is both a file and a directory.

## Proofs

The theorems hold for every value of the constants that satisfies the named
assumptions of the modules: table sizes, generation, sequence and epoch limits,
journal capacity, payloads, page size, address limit, extent-table size, memory
maps. Each `...Proofs` module extends the module it is about.

| Module | Theorem | What it states |
| --- | --- | --- |
| `CooperativeProofs` | `InductiveInvariant`, `TypeCorrect` | `IInv` and `TypeOK` |
| | `RuntimeNeverFails` | `validate` accepts every state and no call fails |
| | `Delivery` | messages arrive in order, none twice, at most one outstanding |
| | `DrainBeforePeerExited` | `PeerExited` is answered only after every accepted message was received |
| | `NoStaleHandle`, `NoAmplification` | a closed handle selects nothing again; rights stay within those of the first handle |
| | `WokenWithCause` | a blocked receiver is woken with a payload or told of its peer's end |
| `SupervisedProofs` | `SupervisedInvariant`, `SupervisedTypeCorrect` | `SupInv` and `TypeOK` |
| | `SupervisedAccepts` | `validate` accepts every state |
| | `BlockedTasksAreHeld` | the workload is blocked exactly while the broker holds its request |
| | `EffectsAreApproved` | the effect cell is written once, by the end of a request approved in the current epoch; no approval outlives its epoch |
| `JournaledProofs` | `JournaledInvariant`, `JournaledAccepts` | `JInv`; `validate` accepts every state |
| | `TransitionsAreRecorded`, `RecordsAreLifecycles` | every transition has its record; the records tell legal lifecycles |
| | `RecordsNameTheActor`, `WokenAsRecorded`, `ReadsAreStable` | who signs a record, what a woken workload is told, what a reader sees |
| | `LedgerRefinement` | the journal implements `EffectLedger` |
| `KernelProofs` | `KernelInvariant`, `KernelFailsOnlyForCause` | `KernelInv`; the kernel's own checks never fail but for a root at address zero |
| | `OneActiveSpace` | user code runs only in the space of the task the runtime runs |
| `FrameAllocatorProofs` | `AllocatorInvariant` | `AllocatorInv` |
| | `PoolRefinement` | the extent tables implement `FramePool` |
| | `NeverWedged` | while a frame is held, some held frame can be returned |
| `KernelMemoryProofs` | `MemoryInvariant`, `OrderInvariant` | `MemoryInv` and `OrderInv` |
| | `FramesAreAccounted` | each managed frame is unused or in one ledger, once |
| | `UnusedFramesUnreachable` | no page-table entry touches an unused frame |
| | `PublishedSpacesAreWhole` | a published space has all its frames and links, and is isolated |
| | `PairsAreAllOrNothing` | a failed pair or a finished stage leaves nothing behind |
| | `ReturnsAreAccepted` | no return of a frame is refused for fragmentation |

`TaskRuntimeProofs` holds lemmas about capability tables, the run queue and the
common traps; `AddressSpaceProofs` holds what each backend call keeps, whatever
allocator is behind it, and how two runs of pages change as frames come and go.

### The invariants

What the code's `validate` checks is not inductive. Each proof finds what it leaves
out, shows for each action that it keeps the sum, and derives the properties.

- *Cooperative, `IInv`.* `SchedInv`: a task is running, torn down or about to be
  dispatched, and the sender never blocks; hence `dispatch_next` always finds a
  task. `TableInv`: the generation of a slot is past every spent one or the slot is
  retired, and rights stay within the role. `EndpointInv`: a side is bound exactly
  while its table is live, and a blocked receiver faces an empty, bound endpoint.
  `MessageInv`: what was sent is what was received followed by the slot.
- *Supervised, `SupInv`.* The same for tasks and tables, and `BrokerInv`: the state
  of the broker fixes which of its fields are in use; a request is held exactly
  while the workload is blocked; the broker is dead exactly when the supervisor is;
  the manifest is present exactly while the workload's table is live. Its last
  conjunct says that the one call that fails is the end of a supervisor that never
  launched its workload (see Findings).
- *Journaled, `JInv`.* `SupInv` and `JournalInv`: the reservation and the last record
  are those of the request the broker holds, the epoch counts the records, and the
  free room is never less than the reservation. It is what makes the terminal record
  of an accepted request fit. The refinement of `EffectLedger` maps each step to an
  appended line or a stutter.
- *Kernel, `KernelInv`.* For each value of `pc`, what the globals must be on entry to
  that function: which owner is active, which root is loaded, whose the saved
  context is, and that no task is resumed with a root of zero.
- *Frames, `AllocatorInv`.* Both tables are canonical (aligned, sorted, apart, merged,
  within the address limit and the capacity) and every free page is managed. The
  loops over regions and extents are reasoned about by a least counterexample, since
  induction over data is out of the prover's reach. `NeverWedged` is a count: a
  table that is full of free extents, with as many managed ones at most, has a
  free extent that does not begin a managed one, so the frame before it is held.
- *Memory, `MemoryInv`.* `AllocatorInv`, `FramesAccounted`, and of the address spaces
  `ControlInv` (the call in progress, and what each phase leaves of the two owners)
  and `TablesInv` (whose each present page-table entry is, and how far a
  construction or an unwinding has come). Frames come back unlinked because an
  unwinding reaches its returns only with no entry left. `PairsAreAllOrNothing` needs
  that two canonical tables of the same pages are equal (`SameTable`).
- *Order, `OrderInv`.* The allocator gives the lowest page and a ledger returns its
  last first, so the first space holds the bottom of the managed pages and the
  second a run above it, until one of them is gone. At most one free extent then
  begins with no managed one unless the returned frame touches it, and the first
  managed extent begins no free one while the first space has a frame. So there are
  at most as many free extents as managed ones before a return that splits one, and
  one spare slot is enough.

### Only model-checked

- Liveness: `ImplementsDispatcher` (which carries that of the runtimes),
  `CallEnds`, `ExitReleasesSpace`. The prover has no rule for
  fairness and `ENABLED` that it can apply.
- `DecisionFitsShown`: it needs a history variable, and that no sequence is given
  out twice.
- `NormalizedFaithful` and `RejectsOnlyForCause`, `LoadedWhole`, `ManagedIsSpare`,
  `KernelAcceptsLoader` and `HaltsOnlyForCause`: they relate a table to what folds over
  the sources and the overrides say of each page, for tables of any length. That
  is induction over data.
- `AdmittedIsOneBuild` and `AcceptedSurface`: the parsers they rest on are
  recursions over the input for the same reason.

## What is left out, and caveats

- *Reclamation.* `scheduler_success` reclaims the journal only after checks that
  fit the fixed probe programs, such as exactly eleven records, and stops the kernel
  when one fails. Tasks run any program here, so `FinishReclamation` is a step that
  may be taken and need not be. That the journal is then sealed with nothing reserved,
  so that the call succeeds, is part of `ImplementsDispatcher` in `journal_ledger`: a
  refusal would be a stop that `Scheduling` does not have.
- *Errors that do not restore.* Some error returns of `JournaledRuntime` leave the
  base runtime changed. They are modelled as restoring. `ImplementsDispatcher`
  shows, in `journal_ledger`, that none of them is reached.
- *Publication rollback* runs only when a construction step is made to fail, which
  only the crate's tests do.
- *Manifest.* The registered manifest is a constant; the input is whether the
  manifest named is that one.
- *Registers, page-table bits, descriptor tables, assembly* are hardware detail. A
  context is the result it resumes with; a page table is a set of entries.
- *Mapping tokens, layout constants and the bootstrap page-table builder* of the
  address-space crate are not modelled; the kernel does not use mapping tokens.
- *Page zero.* Nothing keeps the frame at address zero from the allocator, which
  hands out the lowest frame first, and the address-space library takes it for a root.
  `TaskContextV1::validate` refuses a root of zero, so on a machine whose map leaves
  that page usable the first stage with two tasks gives the pair back and stops with
  "scheduler initial context". `FailsOnlyForCause` lists this among the causes, and
  only for a map that offers the page. `Kernel` lets any frame become a root, which
  covers the allocator's choice.
- *Runtime in Kernel.* `Kernel` takes any step of `Dispatcher` for a trap, and lets a
  construction or teardown fail at will. What the profiles and the memory library
  really do is in their own modules; one module with all of it is beyond TLC.
- *Firmware.* Allocation, the memory map and the display are external. The map is
  taken to be free of overlaps, and sorted as `memory_map.sort()` leaves it.
- *Admission.* A digest stands for what it was taken of, so collisions do not exist; a
  mismatch of a file's length and of its digest is one refusal. Document formats are
  a validity bit and a line count. The manifest parsed is the one that was compared;
  the payloads of the portable component are any in the set given. Argument parsing and bounded reads are left out,
  and so is the comparison of the two component profiles, which both parsers fix.
- *Scripts and the legacy boot sector* keep no state of the running system.

## Plan

Proofs that remain, in order: that every step of the profiles is a step of
`Dispatcher` (the safety half of `ImplementsDispatcher`); the cursor's invariant in
`Normalizer`, for the part that needs no fold; the order of checks in `Admission`.

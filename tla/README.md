# Lyra OS: specifications of the installer and its companions

TLA+ modules, TLC configurations and TLAPS proofs about the program in `src/`:
the Lyra OS desktop image, above all its graphical installer, which erases a disk
as root and therefore carries the logic that is most expensive to get wrong.
Paths below are relative to `src/` unless they end in `.tla` or `.cfg`.

Contents

1. The system: its parts, their state, how they interact
2. The modules: which part each one models and how it corresponds to the code
3. The runs: what each one checks, its bounds and why they are enough
4. Fairness
5. The proofs: what is proved, from what, and how
6. What the models found
7. Assumptions and abstractions
8. What is only model-checked, what is not modelled, and the plan

## 1. The system

### 1.1 The installer

An installation crosses three processes.

```
 lyra-install-lock (flock)
   └── installer window ── ui/app.js (one JavaScript thread)
          │  invoke / Channel          discover_storage, plan_install,
          ▼                            validate_install_config, execute_plan
       Tauri backend ── src-tauri/src/main.rs
          │  pkexec, one JSON line on stdin, one JSON event per line on stdout
          ▼
       lyra-installer-service (root) ── service/src/main.rs
          └── engine.rs ── operations/mod.rs (partitioning), operations/deploy.rs
                └── executor.rs: sgdisk, mkfs, mount, unsquashfs, chroot, ...
```

| part | source | state it keeps | operations | what makes it hard |
|---|---|---|---|---|
| wizard | `installer/ui/app.js` | page shown, selected disk and swap, plan, summary, confirmation, "installing", "terminal" | Next/Back, select disk or swap, tick the confirmation, install, answers of the backend | every handler is `async`: between an `await` and its continuation any other handler runs, and answers of independent calls arrive in any order |
| Tauri backend | `installer/src-tauri/src/main.rs` | none between calls; the evidence file `lyra-installer-result.json` | `execute_plan` (spawn, forward events, wait, judge, write evidence), discovery, planning, validation, restart | its judgement combines the exit status, the events, and their absence; its early returns leave the service behind; the window may vanish at any moment |
| single-instance lock | `installer/packaging/lyra-install-lock` | a `flock` | take it or refuse | the lock follows the window, not the privileged service |
| privileged service | `installer/service/src/main.rs`, `src/service/protocol.rs` | request, snapshot, the cancel flag shared by two threads | read the request, validate, check binaries, discover, translate, execute | a second thread cancels; every event is a `println!` that panics without a reader |
| execution engine | `installer/src/service/engine.rs`, `operation.rs` | completed operations, cleanup errors | `execute`: revalidate, perform in order; `unwind`: undo in reverse | failures while undoing a failure; cancellation between any two operations |
| command executor | `installer/src/service/executor.rs` | none | run a command of an allow-list of absolute paths | no time limit |
| storage discovery | `installer/src/storage/discovery.rs`, `device.rs` | the snapshot it returns | `lsblk`, `/proc/swaps`, `/proc/mdstat`, `vgs`/`pvs`, roles by cross-reference | sees less without privileges; the service looks again as root; what cannot be asked or parsed is silently absent |
| plan builder | `installer/src/storage/plan.rs` | none | `PlanBuilder::build`: possible or blocked, with the summary of what is erased | must give the same answer in two processes on two snapshots |
| partitioning | `installer/src/service/operations/mod.rs` | none of its own | `ReleaseDisk`, `CreatePartitionTable`, `Format*`, `CreateSubvolumes`, `Mount*`, `WriteFstab` | commands on a machine whose desktop mounts things by itself; partition numbers computed in two places |
| deployment | `installer/src/service/operations/deploy.rs` | none of its own | ~35 operations from `ExtractRootfs` to `SyncAndFinish` | their order: what the boot loader, the initramfs and the first snapshot see depends on what ran before |
| configuration validation | `installer/src/lib.rs` | none | `InstallConfig::validate` | a pure predicate on strings |

What makes each part correct, in one line:

- wizard: one execution at a time; a request that validation accepts, and that is
  what was confirmed; after a terminal event nothing is sent any more and the window
  is given back;
- backend and lock: success is reported and recorded only for a service that
  completed and exited with 0; nobody reads two services at once; a retry never
  writes on a disk that changed under its plan;
- service and engine: nothing is written before request and rebuilt plan agree;
  mounts nest and are released child first; each failure is reported once, first
  cause first; the exit status agrees with the stream; every run ends;
- discovery, plan and partitioning: nothing but what the summary listed is lost,
  no other disk is touched, members of arrays and groups in use are spared, the
  new table, its numbering and its formats agree;
- deployment: the first snapshot is clean and bootable, and a disk that boots
  never carries the password-less live account;
- mounts: no mount hides one the plan needs, what a service writes lands in the
  subvolume it is meant for, and neither a killed service nor a failing command is
  in the way of the next installation;
- update exercise: "passed" is said only of a machine that runs what the baseline
  described, restored from the snapshot it named, and no interruption lets a later
  phase go on from half an update.

### 1.2 Around the installer

| part | source | what it does | state | modelled |
|---|---|---|---|---|
| update and rollback exercise | `kiwi/root/usr/bin/lyra-update-smoke` | five phases over several reboots: baseline, update between two Snapper snapshots, verify, roll back, verify | a JSON state file on the ESP, written atomically | `UpdateQualification.tla` |
| OBS staging workflow | `scripts/obs-release.py` | seed staging, open a revision-pinned submit request, stage a rollback, verify what is released | the remote projects | no (section 8) |
| image build and release gate | `scripts/image-build.py`, `release-artifacts.py`, `release.py`, `audit-release-iso.py` | export sources, collect evidence, refuse an incomplete or dirty release | files | no (section 8) |
| smoke tests and measurements | `lyra-live-smoke`, `lyra-system-smoke`, `lyra-hardware-matrix`, `lyra-performance` | one pass of independent checks, a report | a report file | no: sequential checks without interaction |
| diagnostics | `lyra-report`, `lyra-report-redact` | collect and redact logs | an archive | no: text processing |
| session helpers | `lyra-xfce-first-login`, `lyra-localsearch-preflight`, `lyra-configure-btrfs-rollback` | first login defaults, a library check, the default subvolume of an existing system | a marker, `/etc/fstab` | the third is the same procedure as two operations of `TargetSystem.tla` |
| image description | `kiwi/config.xml`, `config.sh`, `edit_boot_config.sh` | packages and files of the live image | none | only as the input `Images` of `TargetSystem.tla` |
| developer scripts | `scripts/*.sh`, `packaging/`, `performance/` | build, upload, configure | none | no |
| VM and loop device tests | `scripts/check-installer-mount-vm.py`, `installer/service/test-loop-device.sh` | drive the real service | none | no: they exercise what is modelled |

## 2. The modules

```
 InstallTransaction          what one run of the service promises (abstract)
   ▲            ▲
   │ implements │ implements, one instance per service
 ExecutionEngine          InstallSession       windows, lock, services, evidence
                          Wizard               inside one window

 StoragePlan ──► DiskPreparation   plan, commands, disk
                 TargetMounts      mounts of several services, command by command
                 TargetSystem      deployment, accounts, boot, first snapshot

 UpdateQualification         the installed system: update, rollback, reboots

 proofs: ExecutionEngineProofs, TransactionProofs, InstallSessionProofs, WizardProofs,
         DiskPreparationProofs, TargetMountsProofs, TargetSystemProofs,
         UpdateQualificationProofs
```

They cut the system at its process and module boundaries, so that each can be
explored exhaustively. The cuts agree: the `Wizard` leaves to `InstallSession` how
an execution ends and takes any ending; `InstallSession` keeps of a service what
`InstallTransaction` keeps, and checks that each of its services implements it, as
`ExecutionEngine` does with every mount and every line of output; `DiskPreparation`,
`TargetMounts` and `TargetSystem` are the contents of the engine's operations, in the
order the engine runs them: the first up to the formatted disk, the last from
`WriteFstab` on, and `TargetMounts` across all of them, with everything but mounting
left out. `TargetMounts` also carries the assumption the engine makes, that a mount
lies under earlier ones only, back to the list of subvolumes and the sort in
`plan_to_operations`. `UpdateQualification` starts where an installation ends, from a
disk with `/@` and its first snapshot.

Every module reads the same way: constants with their assumption, variables,
`TypeOK`, `Init`, actions in the order of the code, `Next`, `Spec`, and the
properties last, each with a comment naming the code it is about. Definitions
introduced by "Slip:" are plausible mistakes in the definition after them (a
dropped guard, a missing reset, an order swapped); no specification uses them,
they serve to show that each property can tell the mistake from the code.

### 2.1 `ExecutionEngine.tla`: the privileged service

`service/src/main.rs` and `engine.rs`, from the request line to the exit status.

| state | code |
|---|---|
| `pc` | the line the main thread is at: the early exits of `main` (`reading` … `starting`), `revalidate`, the loop of `execute`, `unwind` |
| `cancel`, `cancelAt` | the `AtomicBool` of the control thread; history of when it was set |
| `begun`, `done`, `undoing` | the loop index, `completed`, the reverse iteration of `unwind` |
| `mounted`, `leaked` | what the operations' `perform` and `undo` leave in the kernel: mounts of completed operations, staging mounts that a failing `CreateSubvolumes` could not release |
| `failed`, `cancelled`, `cleanupErrors` | the local results of `execute` |
| `events`, `listening`, `exit` | stdout, whether anybody reads it, the exit status (2 unreadable request, 1 failed, 0 completed, 101 panic, 137 killed) |

An operation is its position in the sequence. The constants say which positions
mount (`Mounts`), what lies under each mount point (`Under`, later in the sequence
because `plan_to_operations` sorts by depth) and which hold a staging mount while
they run (`Staging`). Each early return of `main` is a rejection (`Reject`); each
`println!` is an `Emit`, which either writes its line or, without a reader, panics:
the process ends with 101 and no unwind. A cancellation, a reader that disappears
and a kill may come between any two steps.

`InstallTransaction.tla` is the promise to the outside: preparing, working,
releasing, ended; progress only while working; what is held only shrinks while
releasing; completed and cancelled only with nothing held. `Transaction` states
that the engine implements it under the mapping `Phase`, `Result`.

### 2.2 `Wizard.tla`: the window

`ui/app.js`. One JavaScript thread: an action is the code between two `await`s. A
handler that waits is an element of `planCalls`, `summaryCalls` or `executions`;
its continuation is an action of its own, enabled in any order with the others.
`summary` is what page 6 displays, `consent` what it displayed when the
confirmation was ticked; `form` is read when the code reads it, at the click and
after the awaits, which is where stale values come from. `raced` records that the
form changed while a click on Next still waited for its answer: that answer shows
page 6 wherever the user is by then, so the summary may be that of another form.
`ConsentIsFresh` says that without such a race the request is what was confirmed,
and with one still sent under a confirmation of the summary on display; the race is
`RequestIsWhatWasShown`'s finding (section 6). Left out: rendering,
translation, the time zone map, the restart button.

### 2.3 `InstallSession.tla`: windows, services and evidence over time

A live session with several launches of the installer. `lock` is the flock of
`lyra-install-lock`; `app`, `ui` what each window is and shows; `phase`, `step`,
`begun`, `reported`, `exit` each service; `calls` the executions whose `execute_plan`
still reads their service; `disk` counts the changes of the disk (an operation may
make one, at any moment while it runs), `seen` and `snapshot` what a window and a
service found, and `samePlan` whether a written disk happens to yield the plan it was
made for; `evidence` the file `execute_plan` leaves. `Revalidate` is the comparison
with the service's own snapshot.

`execute_plan` returns in one of two ways. `ServiceReturns` is its judgement
(`Verdict`) of a service it has waited for. `GivesUp` is one of its early returns: the
request could not be written (`main.rs:467`), a line could not be read (486) or parsed
(492). It can happen at any moment of the call, leaves no evidence, and does not wait
for the child; a service still alive then is `abandoned`. Such a service, like one
whose window was closed, goes on until its next line of output, which nobody reads.

`disk` counts changes instead of saying that there was one: with a flag, a window
opened after one installation and retrying its own would look as if nothing had
changed since it looked, and a refusal of the code would be missing. The third
execution of the run is there for this.

### 2.4 `StoragePlan.tla`, `DiskPreparation.tla`: from discovery to a formatted disk

`StoragePlan` is `PlanBuilder::build` as operators over a snapshot: eligibility,
the ESP to reuse, capacities (MiB) of disks, arrays and groups, what is reserved,
what fits, and the erasure list. Every target (disk, new or existing array, existing
group), layer (direct, new group, existing group) and swap choice is there.

`DiskPreparation` holds the machine's block devices: `content` (signatures), `type`
(of partitions), `mounted`, `swapOn`, `active`, `lvMounted`, `running`. `Snapshot`
is what discovery derives from it, given the groups that were reported: none without
privileges (`Choose`, the wizard's plan), and to the service (`StartService`: its own
plan, the revalidation, the translation) either all that have a label or none, since a
`vgs` that is missing, fails or prints what cannot be parsed is an empty list
(`Reports`). Arrays are seen only at the levels `raid_level_from_str` knows
(`VisibleArrays`). Then `Perform` runs what `Operations` (ReleaseDisk, CreatePartitionTable, Format*)
puts together, one command a step, each of which fails when the kernel would refuse
it and may fail anyway. The commands still to run are `todo[tool]`, the arguments of
each tool: the code runs them tool by tool (`Rank`), and within a tool partitions by
number, the whole disk last (`First`), mount points by depth. Only the order of two
equally deep mount points is left open, neither of which can be in the way of the
other. `Automount`, `Unmount`, `Reformat` are the rest
of the machine.

### 2.5 `TargetSystem.tla`: deployment

One action per operation of `deployment_operations`, in the order `Order` lists them,
after `WriteFstab`. `root` is the subvolume `/` as far as later operations read it or
the snapshot keeps it: files of the live session and of the installer, accounts,
groups, connections, fstab lines, what the initramfs and the boot menu were made
from. A read-only snapshot is a copy of `root`. Operations fail before they changed
anything, and those made of several commands (extraction, account, connections,
rollback preparation) halfway too; a cancellation stops between two.

### 2.6 `TargetMounts.tla`: what is mounted where

Several services of one live session, one after the other, each for a disk of its own
choice. `mounts` is the kernel's table, a set of rows that say who mounted what where,
and with which operation; a path leads to the newest mount at it or at a parent
(`OnTop`, `MountsAt`), which is how a mount hides another. `StableSort` is
`sort_by_key`: it puts element `i` at `Position(key, i)`, the number of elements that
are not after it. `Operations` is the sequence the engine is given, cut down to what mounts, unmounts or
writes: `ReleaseDisk` (one `umount -R` per listed mount point, deepest first),
formatting, `CreateSubvolumes` with its staging mount, one `MountSubvolume` per
subvolume in `MountOrder`, the ESP, the virtual filesystems. `Undo` is the unwind,
which goes on after a failure. `Die` leaves everything mounted, and the next service
finds it. `MountsAssumption` has TLC check the list of `default_subvolumes` itself:
nothing is listed twice or before what it lies under, and nothing lies in the ESP or
in one of the virtual filesystems.

### 2.7 `UpdateQualification.tla`: update and rollback of an installed system

`lyra-update-smoke`. `disk` is every subvolume and what is installed in it, `default`
and `current` the default and the mounted one, `kernel` the running kernel; `workflow`
is the file on the ESP, the only thing both a reboot and a rollback leave alone;
`process` is the running command with what it knows. An action is the code between two
calls that change something outside: `RunChecks` and `CollectFacts` are the audit, the
`Decide...` actions what each phase makes of it and writes. `Kill`, `PowerLoss`,
`OrphanEnds` (a zypper that outlives the command that started it), `BootSnapshot` (an
operator who boots a read-only snapshot from the menu) and `Cleanup` (snapper's timer)
may come between any two.

## 3. The runs

| run | module | states | question |
|---|---|---|---|
| engine | `MCExecutionEngine` | 2.5 k | every run of the service: what it writes, leaves mounted, reports; that it ends; that it implements the transaction |
| wizard | `MCWizard` | 525 k | what may be executed with which consent, whatever the order of answers and clicks |
| session | `MCInstallSession` | 878 k | closing, killing, giving up, retrying: who is served, what evidence and window say |
| disk | `MCDiskPreparation` | 46 k | what is erased, with whose knowledge, and what a prepared disk looks like |
| mounts | `MCTargetMounts` | 481 k | what hides what, what a next service can release, what stays mounted |
| target | `MCTargetSystem` | 2.7 k | what the first snapshot and the installed system contain |
| qualification | `MCUpdateQualification` | 330 k | what a passed verdict and the workflow file are worth after any interruption |
| summary_vs_request | `MCWizard` | | a claim the window does not keep |
| lost_window, late_failure | `MCInstallSession` | | two claims about crashes that do not hold |
| release, whole_volume | `MCDiskPreparation` | | a claim of `ReleaseDisk` and one of discovery that do not hold |

Bounds, and why they are enough:

- **engine**: six operations (partition, staging mount, `/`, two nested mounts, a
  last one that mounts nothing). This has each kind of operation first, last and in
  between, and a chain of three nested mounts, so that a failed inner umount makes
  two outer ones busy. The proofs cover every length and every nesting.
- **wizard**: two disks, two swap choices (one combination has no plan), a valid and
  an invalid form, and `MaxCalls` = 2 waiting activations of each handler. Reordering
  needs two answers; a third activation adds no new pair. `TypeOK` lets `current`
  go past the last page by what is still waiting, since the code does (section 6).
- **session**: two windows, two operations, two executions in any constellation: a
  retry in one window, after a service that ended and beside one that was given up on,
  or an execution in each of two windows while the first one's service still works. A
  third execution is explored as a retry in a window that already found the disk
  written by the other, both having changed it; the constraint `ThirdIsALaterRetry`
  says so and keeps the run short. The proofs cover any number of windows, executions
  and operations in any constellation.
- **disk**: 31 machines, each one hazard of the code: empty, a filesystem, a
  physical volume or an array on the whole disk or on a partition, active or not, an
  array of a level discovery does not know, nested mounts, swap in use or not, an ESP on the target or elsewhere; 11 requests
  with every kind of target and layer; sizes at which the ESP and the swap partition
  decide. `MaxChanges` = 2 acts of others at any point between any two commands, so
  that one can undo or build on the other. The violation runs use 0: there the code
  alone is responsible. The proofs cover every machine, request and number of acts.
- **mounts**: two disks, three services, two faults. Five subvolumes instead of 21:
  `/`, one directly below it, two that share plain parent directories, and one that
  shares `/boot` with the ESP, so that every way two of the 21 can relate is there.
  Three services and two kills are what it takes for mounts of two disks to lie one
  over the other. The disks differ in nothing, and the run uses their symmetry (the
  only one that does; it checks safety only). The proofs cover every well-formed list
  and any number of disks, services and faults.
- **target**: the image as it is built and six images with one defect each, accounts
  that are new, known to the image, or `liveuser`; each kind of swap; failure and
  cancellation at each of the operations.
- **qualification**: two releases, two kernels (so an update changes either, both or
  nothing, with or without a reboot asked for), subvolumes up to 7, which is one
  complete exercise and the start of another, and one fault of any kind anywhere.
  Beyond the last subvolume snapper fails, as on a full disk. The proofs cover any
  number of each.

Deadlock is not checked where the system may rest: a window nobody clicks in, a
session whose windows are closed and whose executions are used up, a prepared or failed
disk, a finished deployment, a session without another service, a machine whose
operator does nothing. The engine checks it: it only stops in `Ended`.

Properties by hazard:

- *failing while cleaning up*: `MountsNest`, `OrderNeverBlocksUnwind`,
  `LeaksAreReported`, `NothingIsLeftMounted`, `VerdictIsHonest` (one terminal event at
  most, the first failure first, the exit status that belongs to it, and completed only
  with nothing mounted);
- *cancellation and crashes*: `CancelIsHonoured`, `EvidenceIsTruthful`,
  `StaleRetryNeverWrites`, `OneAttendedService`, `BootableHasNoLiveUser`,
  `OnlyOthersInterfere`, `WorkflowIsTruthful`, `InterruptedRollbackRecovers`;
- *stale data across an await, a process boundary or a reboot*: `WritesAreConfirmed`,
  `RequestsAreValid`, `ConsentIsFresh`, `LossesAreAgreed`, `MembersAreSpared`,
  `PassedMeansRestored`;
- *order of operations*: `SnapshotIsClean`, `SnapshotIsBootable`, `FstabMatchesLayout`,
  `CompletedIsUsable`, `NothingStale`, `WritesLandInTheirSubvolume`;
- *numbers computed twice, limits*: `NumbersAgree`, `PreparedIsInstallable`;
- *clicks and answers between awaits*: `OneExecution`;
- *progress*: `EveryRunEnds`, `InstallingEnds`, `VerdictsArrive`,
  `InterruptedRollbackRecovers`;
- *whole behaviours*: `Transaction`, `ServicesAreTransactions` (refinement).

## 4. Fairness

Only what the code schedules is fair, and only weakly:

- `ExecutionEngine`: the main thread (`Service`). It is a sequential program whose
  commands are assumed to end; that is an assumption, since `executor.rs` waits
  without a limit. The client's cancellation, the reader's disappearance and a kill
  are not fair: they may never happen.
- `InstallSession`: the services' steps, and `ServiceReturns`, the blocking task that
  reads the service's stdout to its end and waits for the child. Users, windows,
  kills and the errors that make `execute_plan` give up are not fair.
- `Wizard`: answers of the backend arrive (`SummaryAnswered`, `PlanAnswered`) and a
  started execution goes on (`ExecutionSteps`). For the running stage this rests on
  `VerdictsArrive`. Nothing is assumed of the user.

- `UpdateQualification`: a running command goes on (`CommandStep`; here every call
  does have a time limit, and the command sees it expire). Strong fairness is assumed
  of an operator who wants the rollback judged: whenever `prepare-rollback`,
  `verify-rollback` or a reboot is possible again and again, it is done at last. It is
  needed since a boot of a snapshot or another phase makes each of them possible only
  now and then. Kills, power loss, detours and cleanup are not fair.

`DiskPreparation`, `TargetMounts` and `TargetSystem` state safety only and have no
fairness.

## 5. The proofs

Eight modules hold theorems. Each rests on the named assumption of the module it is
about and on nothing else, and speaks of every value of the constants.

| module | theorem | property |
|---|---|---|
| `ExecutionEngineProofs` | `TypeCorrect` | `TypeOK`, and the control invariant |
| | `NestingHolds`, `UnwindOrderHolds` | `MountsNest`, `OrderNeverBlocksUnwind` |
| | `WritesHold`, `CancellationHolds` | `WritesAreConfirmed`, `CancelIsHonoured` |
| | `ReportingHolds`, `VerdictHolds` | `LeaksAreReported`, `VerdictIsHonest` |
| `TransactionProofs` | `ServiceIsTransaction` | `Transaction`: the refinement |
| `InstallSessionProofs` | `SessionTypes`, `AttendedServiceHolds` | `TypeOK`, `OneAttendedService` |
| | `EvidenceHolds`, `StaleRetryHolds` | `EvidenceIsTruthful`, `StaleRetryNeverWrites` |
| | `TransactionsHold`, `EachIsATransaction` | `ServicesAreTransactions`: the refinement, for every service |
| `WizardProofs` | `WizardTypes`, `OneExecutionHolds` | `TypeOK`, `OneExecution` |
| | `ConsentHolds`, `RequestsHold` | `ConsentIsFresh`, `RequestsAreValid` |
| `DiskPreparationProofs` | `Preparation`, `PreparationTyped` | the inductive invariant, `TypeOK` |
| | `NoUnannouncedLoss`, `NoMemberLost` | `LossesAreAgreed`, `MembersAreSpared` |
| | `FormattedAsNumbered`, `OldDataIsGone` | `NumbersAgree`, `NothingStale` |
| | `PreparedCanBeInstalled` | `PreparedIsInstallable` |
| `TargetMountsProofs` | `MountsAccounted`, `MountsTyped` | the inductive invariant, `TypeOK` |
| | `NothingIsHidden`, `NeverInItsOwnWay` | `WritesLandInTheirSubvolume`, `OnlyOthersInterfere` |
| | `AllIsUnmounted` | `NothingIsLeftMounted` |
| `TargetSystemProofs` | `TargetTypes` | `TypeOK` |
| | `SnapshotIsCleanAlways`, `SnapshotIsBootableAlways` | `SnapshotIsClean`, `SnapshotIsBootable` |
| | `BootableHasNoLiveUserAlways`, `FstabMatchesLayoutAlways`, `CompletedIsUsableAlways` | the other three of the run |
| `UpdateQualificationProofs` | `QualificationTypes` | `TypeOK` |
| | `VerdictIsSound`, `WorkflowIsSound` | `PassedMeansRestored`, `WorkflowIsTruthful` (an action property) |

None of the properties is inductive. Each follows from an invariant built in layers,
so that a layer's step uses the layers below.

### 5.1 The engine

For every number of operations, every set and nesting of mounts, every staging
operation and every set of plans and disks, from `ConstantsAssumption` and
`NoRequestAssumption`. The assumption that carries weight is that a mount lies under
earlier ones only (`\A c \in Under[m] : m < c`), which is what the sort in
`plan_to_operations` provides; `NoneCovers` in `TargetMountsProofs` proves it of the
mounts themselves, for every well-formed list of subvolumes.

1. `Control` (theorem `TypeCorrect`): where the main thread is and what it has done.
   While preparing nothing has begun; `looping` has `begun = done`, `performing` has
   `begun = done + 1`; a failure keeps that difference; whoever is past revalidation
   was `Accepted`; a leaked staging mount is that of the failing operation.
2. `MountState` (`MountsCorrect`): while the loop runs exactly the mounts of completed
   operations are in place; while the unwind runs, those it still has to visit are,
   and of the others only those whose umount failed. With the order of the sequence
   this gives nesting, and that an unwind without failures never meets a busy mount.
3. `SentState` (`SentCorrect`): the set of lines written. Working on the set instead
   of the sequence keeps `Append` out of the inductive step (`SentAppend`, `EmitSends`).
4. `Outcome` (`OutcomeCorrect`): exit status, lines, and what is mounted, together.
5. The order of the lines (`OrderKept`, `StreamHolds`), the only place that needs the
   sequence itself.

`VerdictHolds` puts the parts together. `ServiceIsTransaction` takes layers 1, 2 and 4
and shows, one action at a time, that a step is a step of `InstallTransaction` or
invisible: `PerformOk` advances, `PerformFails` turns back (possibly with one more
thing held), `UndoUnmounts` releases something that is held (layer 2: the unwind only
visits mounts still in place, and staging mounts are not among them), `Conclude` ends,
with nothing held unless it reports a failure, and any panic or kill is a crash.

### 5.2 The session

For any number of launches, executions and operations (`SessionAssumption`).
`ServiceState` says what a service did from where it is; `WindowState` that the lock is
held by the one running window and that attempts are numbered as they are started;
`AttendedState` that at most one `execute_plan` is at work, that of an open window which
shows it, and that a living service of an open window is read by its call or was
abandoned. `DiskState` is the layer `StaleRetryNeverWrites` needs: what a window saw is
older than every change its own attempts made, and, abandoned ones apart, an earlier
attempt of a window has ended when the next one looks, which therefore finds its
changes. `RetryState` then carries "the plan is the
same" from the comparison in `Revalidate` to the first write.

`TransactionsHold` needs the first layer only: a step of a service is one of its
`InstallTransaction` or invisible to it (`ServiceAdvances`), and steps of windows and of
other services are invisible (`OthersAreInvisible`), although they decide whether there
is a reader for its next line. The property puts the conjunction over the services
inside one `[][...]_vars`, the form TLC accepts for a parameterised instance;
`EachIsATransaction` states it as the specification of each service.

### 5.3 The window

For any disks, swap choices, forms and number of waiting calls (`WizardAssumption`).
`Single`: at most one execution, and "installing" exactly while there is one. `Settled`:
what a terminal event leaves behind. `Consented`: a ticked confirmation was given for
what is displayed, and an execution was started from one. `Displayed`: a form that
differs from the summary, without a race, has no answer of Next on its way and the
window before page 6, which only a new summary can bring it past; together they give
`Faithful`, that what an execution read at the click is what was confirmed.
`Validated`, `Selected`,
`Bounded` complete it; `Bounded` says how far past the last page the window can get.
`OneExecution` needs the first two together: a terminal event and the end of its
execution are two steps, and between them only the fitting of the window is left.

### 5.4 The disk

For every machine, request and number of acts of others that `DiskAssumption` allows. It
says of a machine (`Plausible`) what `lsblk` and `vgs` can show of one: a partition that
is not there has no content, a partitioned disk has no signature of its own, a group
that is active has a labelled physical volume. No bound is put on disks or partitions
per disk, except that three new ones fit (`MaxPartitions >= 3`).

The invariant `Inv` divides a run at three points. Before the service accepts, nothing
is lost and the machine is as plausible as it was (`Tidy`). The revalidation then
establishes `Agreement`, once and for good (`Acceptance`): the target is a disk, a
reused ESP is not on it, the root is large enough, every partition with content has its
line in the summary, and a whole disk with content of its own belongs to none of the
groups the service was told of, nor to an array it knows. The unprivileged plan says
nothing about volume groups, but a disk with partitions has no content of its own, and
the role of one without them is looked up again as root. What discovery misses, a group
because no report could be parsed or an array because of its level, is left to the
kernel: `Spared` says that a whole disk that was in use at that moment, or in a group
reported to the service, has not been written, because `wipefs` is the first command on
it and is refused while it is in use. Both together are `MembersAreSpared`; for
an unused member of a group nobody reported there is nothing, which is the finding
`whole_volume` (section 6). From then on the state of the target follows
from the commands that are left. Until the zap (`BeforeZap`) each device holds what it
held or, once `wipefs` was there, nothing; after it (`AfterZap`) a partition has type
`t` exactly when `Layout` has it and `todo` no longer does, and the same for its
content and `Format`. That the two agree is the lemma `FormattedForItsType`, about the
numbers the code computes twice. `History` ties what was lost to what the service saw,
because others may still mount and unmount, but no command of a later tool runs before
those of earlier ones (`Turns`).

`Esp` is a `CHOOSE` of the first partition in lsblk's order; that one exists takes a
least number, which the library has as `WFMin` (`LeastNumber`).

### 5.5 The mounts

For every list of subvolumes that is `WellFormed`, any disks and any number of services
and faults. `WellFormed` is what the code never checks of its own list and relies on:
`/` first, nothing twice or before what it lies under, nothing inside the ESP or a
virtual filesystem. TLC evaluates it for the list of `default_subvolumes`, the only one
`PlanBuilder` puts into a plan.

1. The sequence. `Sorted` says of a stable sort, for every key, that it is a permutation
   and that whatever comes first has the smaller key or the same key and the smaller
   place (positions are distinct and within range, so they are a permutation).
   `ParentsFirst` applies it to the subvolumes; `OperationsAre` and `KindsAre` give
   every operation of the sequence by its number; `NoneCovers` concludes that no
   operation mounts over what an earlier one mounted.
2. The mount table. Of the rows at a path at most one is on top (`TopIsUnique`), and
   nothing covers or lies in the newest mount of the service at work (`NewestIsFree`).
3. `Inv`. `Accounts`: a service's mounts are exactly those of the operations it has
   done and not undone, with the staging mount while subvolumes are created, unless one
   of its own umounts failed. `Releasing`: while it releases its disk it knows all that
   is mounted from it, as long as nothing was `buried`. `Creating`: which subvolumes
   exist, and that every directory made on the way is a prefix of one, so that no
   later subvolume meets it (`LeafIsNew`; this is what `WellFormed` forbids).
4. The properties: `NothingIsHidden` from `Accounts` and `NoneCovers`;
   `NeverInItsOwnWay` by showing for each command that the kernel takes it; and
   `AllIsUnmounted` from `Accounts` when nothing is left to undo. `Undo` only needs
   `NewestIsFree`: what it is about to unmount is the newest mount there is.

The proof found a conjunct of `TypeOK` (that `part` is 0 except in the two operations
that run several commands) which an implication before it had made empty; it now holds
as written.

### 5.6 The target

For any subvolumes, images, accounts, connections and files within `TargetAssumption`,
which says of the image what the code relies on and never checks: it knows `liveuser`,
none of its connections belongs to `liveuser`, its files are the two lists the code
removes, and an fstab of its own (which the extraction puts over the generated one) has
no line for `/`, so that `PrepareBtrfsRollback` finds no root line to strip and refuses
it. The layers say what holds of `root` from a position of `Order` on: `Accounts`,
`Contents`, `Fstab`, `Startable`; `Taken` carries them to the snapshot, after which only
the boot menu changes. `Positions` is the order itself, `Untouched` what each operation
leaves alone; a mistake in the order shows up as a layer that an operation breaks.

### 5.7 The update exercise

For any releases, kernels, snapshots and number of faults (`QualificationAssumption`).
`Control` ties a command's position to the phase in the file, which is what makes the
phases enough to tell an interrupted command from a finished one; `Observed` says what
a fact collected earlier is still worth (the kernel and the default root, but not the
list of snapshots, which the cleanup may shorten at any time); `Prepared` that from the
rollback on the default root remains a copy of the chosen snapshot, since no command
accepted in those phases installs anything and no zypper is left over from one that
was; `Passed` collects them at the verdict.

### 5.8 What is left to TLC

Liveness: `EveryRunEnds`, `InstallingEnds`, `VerdictsArrive`,
`InterruptedRollbackRecovers`, since fairness and `ENABLED` are out of the prover's
reach. Every invariant and every other action property of the passing runs is proved.
That `StoragePlan` computes capacities and sums as the code does (`RaidCapacity`,
`VolumesFit`, a fold) is not stated as a theorem either: what a fold gives for every
sequence takes induction over sequences, whose library theorems have an operator as a
parameter. No proof above needs it.

## 6. What the models found

Five claims of comments or documents that the code does not keep, each with a run that
shows a shortest behaviour:

| run | claim | behaviour |
|---|---|---|
| summary_vs_request | `installer/README.md:197`: the final button sends what the summary displays | Next fills in the summary and awaits the validation with the storage page still usable; a disk selected then is what is sent |
| lost_window | `src-tauri/src/main.rs:403`: losing the window must not interrupt an installation past the destructive boundary | the window's process is the reader of the service's stdout; `println!` panics |
| late_failure | `docs/installer-state-machine.md:62`: a failure after the first write is terminal | a service that dies without a Failed event makes `execute_plan` return an error, and the window offers a retry |
| release | `operations/mod.rs:209`, `:295`: ReleaseDisk releases active swap, and deactivates groups after what lives on their volumes was unmounted | `swapoff` of an inactive swap partition fails, and so does `umount` of the "mount point" `[SWAP]`; discovery keeps no mount points of logical volumes, so `vgchange -an` fails on a mounted one |
| whole_volume | `storage/discovery.rs:80`: a disk used whole as a physical volume isn't mistaken for a free, installable disk | no group is reported when `vgs` is missing, fails, or prints what does not parse; the disk of an inactive group is then free to the service too, and is wiped |

In `whole_volume` the third cause is not an accident: `VgRow.pv_name` (`discovery.rs:398`)
is a list of strings, while `vgs --reportformat json -o vg_name,pv_name,...` prints one
row per physical volume with a plain string, so that parsing fails whenever there is a
group. This rests on lvm2's documented output, which is not part of the sources; a
missing or failing `vgs` has the same effect by the code alone. An active group is
protected by the kernel, which refuses `wipefs` on a device in use
(`MembersAreSpared`).

The revalidation bounds the first and the third: a request whose choice and plan do
not belong together is refused (`WritesAreConfirmed`), and a retry on a disk already
written is refused unless the plan comes out the same (`StaleRetryNeverWrites`), except
beside a service that was given up on, which may still change the disk after the retry
has looked. The refusals of `release` happen before the first wipe.

Smaller disagreements met on the way, without a run of their own:

- `ui/i18n.js:7` counts the steps up to 07; two clicks on Next on page 6 each call
  `show(current + 1)` when their validation answers, and the second one passes the last
  page (`Bounded` in `WizardProofs` says how far);
- `src-tauri/src/main.rs:439` says the service is launched for the duration of this one
  call only; the early returns of `execute_plan` (467, 486, 492) neither kill the child
  nor wait for it, and it works on until its next line while the window offers a retry
  (`GivesUp`; the `abandoned` exceptions of `OneAttendedService` and
  `StaleRetryNeverWrites`);
- `storage/plan.rs:187` promises one entry per affected device in the list of what is
  erased; a disk without a partition table but with a filesystem yields none
  (`describe_disk_erasure` only lists partitions), so that `LossesAreAgreed` speaks of
  partitions;
- `protocol.rs:3` promises `Completed` or `Failed`; a cancelled run writes neither
  (`engine.rs:116`), which `VerdictIsHonest` states as it is;
- `device.rs:31` says only `Free` disks are offered; `eligible_disk` accepts occupied
  ones as well, and the rest of the code relies on that;
- `plan.rs:16` speaks of volume groups below the minimum size; no capacity is computed
  for an existing group;
- `mod.rs:325` says a disk has no partitions when the ESP is reused; since occupied
  disks are accepted it may have;
- `plan.rs:275` excludes the target disk from the search for an ESP to reuse, but not
  the members of a new array (which cannot be installed on yet);
- `ReleaseDisk` never stops an md array, so a member is found busy by `wipefs` when
  other partitions were already wiped;
- two services killed while working on different disks leave the mounts of one over
  those of the other; a third one's `umount -R` then reaches the other disk's mounts
  and its own stay, so that `wipefs` finds the disk busy and the run fails before it
  wrote. `OnlyOthersInterfere` names this as its exception (`buried`);
- `deploy.rs:8` names one operation that needs a chroot; `WriteKeyboard` is another;
- `docs/installer-state-machine.md:64` wants configuration writes to converge when
  repeated; `WriteHostname` appends to `/etc/hosts`;
- `validate_account` accepts names the image already has; `CreateUser` fails on them
  after the disk was erased (`CompletedIsUsable` holds since such runs do not complete);
- `lyra-update-smoke`: an update that asks for a reboot without bringing a kernel of
  another version can never be verified, since `verify-updated` takes a new kernel for
  the only sign of a reboot (the run has such repositories; their workflow stays in
  `updated`); the check "update path covered" of
  `verify-rollback` repeats what `verify-updated` demanded; `baseline` and
  `verify-updated` accept a machine that is not running its default root, which only
  `verify-rollback` refuses.

## 7. Assumptions and abstractions

- **Commands end.** No command of the installer has a time limit in the code; a hung
  one hangs the run.
- **A cancellation** reaches the service over stdin. The window drops stdin right after
  the request (`main.rs:465`), so only other clients of the service cancel;
  the engine is modelled for all of them.
- **The lock is not inherited by the service**: pkexec closes the descriptors it
  inherited. This is external behaviour, and why a window that closed frees the lock.
- **Others** mount and unmount at any time, but format only until the installation
  starts: afterwards nothing could hold, the code has no lock against it.
- **Evidence**: writing it may fail, which leaves the older file.
- **Removal of live-only files** succeeds; the code ignores its errors, and a
  property about files that could not be removed would only restate that.
- **Contents**: of a file, only what a later operation reads or a property tells apart
  is kept. Sizes are MiB. JSON and `lsblk` output are taken as parsed,
  `vgs` output as parsed or not at all.
- **The extraction**'s repair of the root directory's mode is left out.
- **RAID and LVM** targets are planned but not translated (`Translatable`): the
  service refuses them, as the code does.
- **Mounts**: swap and volume groups, the other half of `ReleaseDisk`, are in
  `DiskPreparation` and left out of `TargetMounts`; others keep mount points busy there
  but mount nothing.
- **The update exercise**: one `lyra-update-smoke` at a time (nothing in the code
  excludes two); a command refused for its phase changes nothing. snapper gives numbers
  after the highest one there is. An update installs all of what the repository offers,
  a mix of it and what was there, or a mix that `zypper verify` finds broken.

## 8. What is only model-checked, what is not modelled

Only model-checked: section 5.8. Partly modelled: the backend without
`restart_system` and the fitting of the window, the wizard without rendering,
translation and the time zone map, discovery without the parsing of what the tools
print (it enters as the machine's state, seen with or without privileges).

Not modelled:

- the command executor (a table lookup and a wait; its results are the success or
  failure of every command) and `InstallConfig::validate` (a predicate on strings that
  the models take as the set of valid configurations);
- the OBS staging workflow. The questions worth asking of `obs-release.py` are whether
  what `promote` submits is what its build check saw (it reads the revisions a second
  time), and whether the RPMs `health` downloads belong to the revisions whose
  provenance it proved; both are about a remote server others write to;
- the release gate, `image-build.py` and its companions: predicates over files of
  evidence, where the question is which evidence is tied to the image it comes with;
- smoke tests, measurements, diagnostics, session helpers, packaging and developer
  scripts, for the reasons in section 1.2.

In that order they are what a next step would take: `ReleasePromotion` (staging,
release and requests as state, developers and reviewers between the helper's calls),
`ReleaseGate`, and reference definitions for the capacities of `StoragePlan` and the
aggregation rules of `lyra-hardware-matrix`.

To repeat the checks: `tlc -config MCExecutionEngine.cfg MCExecutionEngine` (and so on
for each run of `PROJECT.json`; `WholeVolume.cfg` and the like belong to the MC module
named there), and `tlapm` on each of `ExecutionEngineProofs.tla`,
`TransactionProofs.tla`, `InstallSessionProofs.tla`, `WizardProofs.tla`,
`DiskPreparationProofs.tla`, `TargetMountsProofs.tla`, `TargetSystemProofs.tla` and
`UpdateQualificationProofs.tla`.

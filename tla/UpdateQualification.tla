------------------------ MODULE UpdateQualification ------------------------
(***************************************************************************)
(* lyra-update-smoke on an installed system: an operator takes the machine *)
(* through baseline, update, verify-updated, prepare-rollback and          *)
(* verify-rollback, with reboots in between.  The workflow file lives on   *)
(* the ESP and survives every reboot and rollback; a command's memory does *)
(* not survive its process; the running kernel only changes at a boot.     *)
(* Commands are killed, tools fail with or without their effect, zypper    *)
(* may outlive the command that started it, and snapshots are cleaned up.  *)
(* One command runs at a time.                                             *)
(***************************************************************************)
EXTENDS Integers

CONSTANTS
  Releases,       \* digests of /usr/lib/lyra-os/release and build-info
  Kernels,        \* what uname reports
  Release0,       \* those of the installed system
  Kernel0,
  Targets,        \* snapshots an operator asks to roll back to
  LastSnapshot,   \* bound on snapshot numbers: snapper fails beyond it
  Faults          \* bound on kills, failures, unhealthy audits and detours

Root == 0                         \* the subvolume /@ of the installation
First == 1                        \* the read-only "first root filesystem"
Subvolumes == Root..LastSnapshot
Commands == {"baseline", "update", "verify-updated", "prepare-rollback", "verify-rollback"}

ASSUME QualificationAssumption ==
  /\ LastSnapshot \in Nat \ {0}
  /\ Faults \in Nat
  /\ First \in Targets /\ Targets \subseteq Nat
  /\ Release0 \in Releases /\ Kernel0 \in Kernels

Identity == [release : Releases, kernel : Kernels]
Nothing == [exists |-> FALSE]
(* origin: the snapshot a rollback made this root from (itself otherwise). *)
Content == [exists : {TRUE}, release : Releases, kernel : Kernels, sound : BOOLEAN,
            readOnly : BOOLEAN, origin : Subvolumes]

VARIABLES
  disk,        \* disk[n]: the subvolume of that number, or Nothing
  default,     \* the Btrfs default subvolume
  current,     \* the subvolume mounted as /
  kernel,      \* the running kernel
  repository,  \* what an update installs, and whether zypper exits with 102
  orphan,      \* a zypper whose lyra-update-smoke is gone still runs
  workflow,    \* update-smoke-state.json
  process,     \* the running command: its next step and what it knows
  faults       \* faults left

booted == <<current, kernel>>
machine == <<disk, default, booted, orphan>>
vars == <<machine, repository, workflow, process, faults>>

Phases == {"none", "baseline", "baseline-failed", "update-started", "update-running",
           "update-failed", "updated", "updated-verified", "rollback-prepared",
           "rollback-verified"}

Steps == {"idle", "checks", "facts", "deciding", "pre", "recordPre", "refresh", "zypper", "post",
          "rollback", "recordRollback", "reporting"}

Workflow == [phase : Phases, rollback : Subvolumes, baseline : Identity, pre : Subvolumes,
             post : Subvolumes, reboot : BOOLEAN, verified : Kernels]

(* sane: every check of the audit passed so far; present, identity, at:    *)
(* the facts it collected; made: the snapshot last created; tries: zypper  *)
(* runs so far; status: of the report about to be written.                 *)
Process == [command : Commands \cup {"none"}, at : Steps, sane : BOOLEAN,
            present : SUBSET Subvolumes, identity : Identity, onDefault : BOOLEAN,
            made : Subvolumes, tries : 0..3,
            status : {"none", "incomplete", "failed", "passed"}]

TypeOK ==
  /\ disk \in [Subvolumes -> Content \cup {Nothing}]
  /\ default \in Subvolumes /\ disk[default] # Nothing
  /\ current \in Subvolumes /\ disk[current] # Nothing
  /\ kernel \in Kernels
  /\ repository \in [release : Releases, kernel : Kernels, reboot : BOOLEAN]
  /\ orphan \in BOOLEAN
  /\ workflow \in Workflow
  /\ process \in Process
  /\ faults \in 0..Faults

Identity0 == [release |-> Release0, kernel |-> Kernel0]

NewWorkflow(phase, rollback, identity) ==
  [phase |-> phase, rollback |-> rollback, baseline |-> identity, pre |-> Root, post |-> Root,
   reboot |-> FALSE, verified |-> Kernel0]

NoProcess ==
  [command |-> "none", at |-> "idle", sane |-> TRUE, present |-> {}, identity |-> Identity0,
   onDefault |-> FALSE, made |-> Root, tries |-> 0, status |-> "none"]

Init ==
  /\ disk = [n \in Subvolumes |->
               IF n \in {Root, First}
               THEN [exists |-> TRUE, release |-> Release0, kernel |-> Kernel0, sound |-> TRUE,
                     readOnly |-> n = First, origin |-> n]
               ELSE Nothing]
  /\ default = Root /\ current = Root /\ kernel = Kernel0
  /\ repository \in [release : Releases, kernel : Kernels, reboot : BOOLEAN]
  /\ repository.kernel # Kernel0 => repository.reboot
  /\ orphan = FALSE
  /\ workflow = NewWorkflow("none", Root, Identity0)
  /\ process = NoProcess
  /\ faults = Faults

-----------------------------------------------------------------------------
Snapshots == {n \in Subvolumes \ {Root} : disk[n] # Nothing}

(* snapper numbers a new snapshot after the highest one there is.          *)
NextNumber(n) == n - 1 \in Snapshots \cup {Root} /\ \A m \in Snapshots : m < n
HasRoom(count) == \E n \in Subvolumes : NextNumber(n) /\ n + count - 1 \in Subvolumes

Fault == faults > 0 /\ faults' = faults - 1

At(step) == process.at = step
Goto(step) == process' = [process EXCEPT !.at = step]
Stop(status) == process' = [process EXCEPT !.at = "reporting", !.status = status]
Enter(phase) == workflow' = [workflow EXCEPT !.phase = phase]

(* A command asks for its phase (require_phase); baseline for --restart if *)
(* there is a workflow already.                                            *)
Accepted(c) ==
  \/ c = "baseline"
  \/ c = "update" /\ workflow.phase = "baseline"
  \/ c = "verify-updated" /\ workflow.phase \in {"updated", "updated-verified"}
  \/ c = "prepare-rollback" /\ workflow.phase = "updated-verified"
  \/ c = "verify-rollback" /\ workflow.phase \in {"rollback-prepared", "rollback-verified"}

FirstStep(c) ==
  IF c = "update" THEN "pre" ELSE IF c = "prepare-rollback" THEN "rollback" ELSE "checks"

(* A command begins; update writes its first phase at once.  One that is   *)
(* refused reports the failure and changes nothing else.                   *)
Start(c) ==
  /\ process.command = "none" /\ Accepted(c)
  /\ process' = [NoProcess EXCEPT !.command = c, !.at = FirstStep(c)]
  /\ IF c = "update" THEN Enter("update-started") ELSE UNCHANGED workflow
  /\ UNCHANGED <<machine, repository, faults>>

-----------------------------------------------------------------------------
(* audit_system: the checks, and then the facts.                           *)

(* Slip: zypper verify is not asked.                                       *)
PackagesAreVerifiedNever == TRUE

(* zypper verify: it fails while another zypper holds the lock.            *)
PackagesAreVerified == disk[current].sound /\ ~orphan

RunChecks ==
  /\ At("checks")
  /\ \E sane \in BOOLEAN :
       /\ sane => PackagesAreVerified
       /\ IF sane = PackagesAreVerified THEN UNCHANGED faults ELSE Fault
       /\ process' = [process EXCEPT !.at = "facts", !.sane = sane, !.present = Snapshots]
  /\ UNCHANGED <<machine, repository, workflow>>

CollectFacts ==
  /\ At("facts")
  /\ process' = [process EXCEPT !.at = "deciding", !.onDefault = (default = current),
                  !.identity = [release |-> disk[current].release, kernel |-> kernel]]
  /\ UNCHANGED <<machine, repository, workflow, faults>>

Deciding(c) == At("deciding") /\ process.command = c

(* baseline lists the snapshots again, selects the one to roll back to and *)
(* replaces the workflow file.                                             *)
DecideBaseline ==
  /\ Deciding("baseline")
  /\ \/ /\ \E target \in Snapshots \cap Targets :
             workflow' = NewWorkflow(IF process.sane THEN "baseline" ELSE "baseline-failed",
                                     target, process.identity)
        /\ Stop(IF process.sane THEN "incomplete" ELSE "failed")
        /\ UNCHANGED faults
     \/ Fault /\ Stop("failed") /\ UNCHANGED workflow
  /\ UNCHANGED <<machine, repository>>

DecideUpdated ==
  /\ Deciding("update")
  /\ LET passed == process.sane /\ {workflow.pre, process.made} \subseteq process.present IN
       /\ workflow' = [workflow EXCEPT
            !.phase = IF passed THEN "updated" ELSE "update-failed",
            !.post = process.made, !.reboot = repository.reboot]
       /\ Stop(IF passed THEN "incomplete" ELSE "failed")
  /\ UNCHANGED <<machine, repository, faults>>

DecideVerifiedUpdate ==
  /\ Deciding("verify-updated")
  /\ LET passed == /\ process.sane /\ {workflow.pre, workflow.post} \subseteq process.present
                   /\ process.identity.kernel # workflow.baseline.kernel \/ ~workflow.reboot
     IN
       /\ IF passed
          THEN workflow' = [workflow EXCEPT !.phase = "updated-verified",
                                            !.verified = process.identity.kernel]
          ELSE UNCHANGED workflow
       /\ Stop(IF passed THEN "incomplete" ELSE "failed")
  /\ UNCHANGED <<machine, repository, faults>>

(* Slip: only a new kernel counts as an update.                            *)
UpdatePathIsCoveredByKernel == workflow.verified # workflow.baseline.kernel

UpdatePathIsCovered == ~workflow.reboot \/ workflow.verified # workflow.baseline.kernel

(* Slip: any root with the identity of the baseline will do.               *)
RestoredAnywhere ==
  process.sane /\ process.identity = workflow.baseline /\ UpdatePathIsCovered

Restored ==
  /\ process.sane /\ process.identity = workflow.baseline /\ UpdatePathIsCovered
  /\ process.onDefault

DecideRollback ==
  /\ Deciding("verify-rollback")
  /\ IF Restored THEN Enter("rollback-verified") ELSE UNCHANGED workflow
  /\ Stop(IF Restored THEN "passed" ELSE "failed")
  /\ UNCHANGED <<machine, repository, faults>>

-----------------------------------------------------------------------------
(* update_system.                                                          *)
Fail == Enter("update-failed") /\ Stop("failed")

(* A copy of subvolume source gets the number n.                           *)
Copy(source, readOnly, origin) ==
  [disk[source] EXCEPT !.readOnly = readOnly, !.origin = origin]

Snap(n) == NextNumber(n) /\ disk' = [disk EXCEPT ![n] = Copy(current, TRUE, n)]

(* snapper create: pre before, post after the update.  A failed call may   *)
(* have created its snapshot (a timeout).                                  *)
CreateSnapshot ==
  /\ At("pre") \/ At("post")
  /\ \/ /\ \E n \in Subvolumes :
             /\ Snap(n)
             /\ process' = [process EXCEPT
                  !.made = n, !.at = IF @ = "pre" THEN "recordPre" ELSE "checks"]
        /\ UNCHANGED <<workflow, faults>>
     \/ /\ UNCHANGED disk \/ \E n \in Subvolumes : Snap(n)
        /\ IF HasRoom(1) THEN Fault ELSE UNCHANGED faults
        /\ Fail
  /\ UNCHANGED <<default, booted, orphan, repository>>

RecordPre ==
  /\ At("recordPre")
  /\ workflow' = [workflow EXCEPT !.phase = "update-running", !.pre = process.made]
  /\ Goto("refresh")
  /\ UNCHANGED <<machine, repository, faults>>

Refresh ==
  /\ At("refresh")
  /\ \/ Goto("zypper") /\ UNCHANGED <<workflow, faults>>
     \/ Fault /\ Fail
  /\ UNCHANGED <<machine, repository>>

(* What a package transaction leaves of the mounted root, complete or not. *)
Installed(r, k, sound) ==
  [disk[current] EXCEPT !.release = r, !.kernel = k, !.sound = sound]
Updated == Installed(repository.release, repository.kernel, TRUE)

Becomes(content) == disk' = [disk EXCEPT ![current] = content]
BecomesMixed(soundness) ==
  \E r \in {disk[current].release, repository.release},
    k \in {disk[current].kernel, repository.kernel}, s \in soundness :
    Becomes(Installed(r, k, s))
TryAgain == process' = [process EXCEPT !.tries = @ + 1]

(* Slip: the package manager asks for another run for ever.                *)
UpdateForEver ==
  /\ At("zypper") /\ ~disk[current].readOnly
  /\ Becomes(Updated) /\ TryAgain
  /\ UNCHANGED <<default, booted, orphan, repository, workflow, faults>>

(* One zypper update: complete (0, or 102 for a reboot); restart needed    *)
(* (103), up to three times in all; failed or timed out half way.  A root  *)
(* that is a read-only snapshot cannot be updated.                         *)
Update ==
  /\ At("zypper")
  /\ \/ /\ ~disk[current].readOnly
        /\ \/ Becomes(Updated) /\ Goto("post") /\ UNCHANGED <<workflow, faults>>
           \/ /\ BecomesMixed({TRUE})
              /\ IF process.tries < 2 THEN TryAgain /\ UNCHANGED workflow ELSE Fail
              /\ UNCHANGED faults
           \/ Fault /\ Fail /\ BecomesMixed(BOOLEAN)
     \/ /\ disk[current].readOnly
        /\ Fail /\ UNCHANGED <<disk, faults>>
  /\ UNCHANGED <<default, booted, orphan, repository>>

-----------------------------------------------------------------------------
(* prepare_rollback.  snapper keeps a read-only copy of the default, makes *)
(* a writable copy of the target and makes that the default.               *)
RolledBack ==
  /\ disk[workflow.rollback] # Nothing
  /\ \E n \in Subvolumes :
       /\ NextNumber(n) /\ n + 1 \in Subvolumes
       /\ disk' = [disk EXCEPT
            ![n] = Copy(default, TRUE, n),
            ![n + 1] = Copy(workflow.rollback, FALSE, workflow.rollback)]
       /\ default' = n + 1

RunRollback ==
  /\ At("rollback")
  /\ \/ RolledBack /\ Goto("recordRollback") /\ UNCHANGED faults
     \/ /\ RolledBack \/ UNCHANGED <<disk, default>>
        /\ IF disk[workflow.rollback] # Nothing /\ HasRoom(2) THEN Fault ELSE UNCHANGED faults
        /\ Stop("failed")
  /\ UNCHANGED <<booted, orphan, repository, workflow>>

RecordRollback ==
  /\ At("recordRollback")
  /\ Enter("rollback-prepared") /\ Stop("incomplete")
  /\ UNCHANGED <<machine, repository, faults>>

(* The ESP cannot be written: an OSError, and the phase stays.             *)
WriteFails ==
  /\ At("deciding") \/ At("recordPre") \/ At("recordRollback")
  /\ Fault /\ Stop("failed")
  /\ UNCHANGED <<machine, repository, workflow>>

Report ==
  /\ At("reporting") /\ process' = NoProcess
  /\ UNCHANGED <<machine, repository, workflow, faults>>

-----------------------------------------------------------------------------
(* What happens around the commands.                                       *)

(* The process is killed; a zypper it had started may go on.               *)
Kill ==
  /\ process.command # "none" /\ process' = NoProcess
  /\ Fault
  /\ orphan' \in {orphan, orphan \/ (At("zypper") /\ ~disk[current].readOnly)}
  /\ UNCHANGED <<disk, default, booted, repository, workflow>>

OrphanEnds ==
  /\ orphan /\ orphan' = FALSE
  /\ BecomesMixed(BOOLEAN)
  /\ UNCHANGED <<default, booted, repository, workflow, process, faults>>

(* A boot of the default subvolume; or, from the GRUB menu, of a read-only *)
(* snapshot; or an unplanned one that interrupts whatever runs.            *)
BootInto(n) == current' = n /\ kernel' = disk'[n].kernel

Reboot ==
  /\ process.command = "none" /\ ~orphan
  /\ UNCHANGED disk /\ BootInto(default)
  /\ UNCHANGED <<default, orphan, repository, workflow, process, faults>>

BootSnapshot ==
  /\ process.command = "none" /\ ~orphan
  /\ UNCHANGED disk
  /\ \E n \in Snapshots : disk[n].readOnly /\ BootInto(n)
  /\ Fault
  /\ UNCHANGED <<default, orphan, repository, workflow, process>>

PowerLoss ==
  /\ process.command # "none" \/ orphan
  /\ \/ UNCHANGED disk
     \/ /\ orphan \/ (At("zypper") /\ ~disk[current].readOnly)
        /\ BecomesMixed(BOOLEAN)
  /\ BootInto(default)
  /\ orphan' = FALSE /\ process' = NoProcess
  /\ Fault
  /\ UNCHANGED <<default, repository, workflow>>

(* snapper-cleanup: everything but the first snapshot, the mounted root    *)
(* and the default.                                                        *)
Cleanup ==
  /\ \E n \in Snapshots \ {First, current, default} :
       disk[n].readOnly /\ disk' = [disk EXCEPT ![n] = Nothing]
  /\ Fault
  /\ UNCHANGED <<default, booted, orphan, repository, workflow, process>>

CommandStep ==
  \/ RunChecks \/ CollectFacts
  \/ DecideBaseline \/ DecideUpdated \/ DecideVerifiedUpdate \/ DecideRollback
  \/ CreateSnapshot \/ RecordPre \/ Refresh \/ Update
  \/ RunRollback \/ RecordRollback \/ WriteFails \/ Report

Next ==
  \/ \E c \in Commands : Start(c)
  \/ CommandStep
  \/ Kill \/ OrphanEnds \/ Reboot \/ BootSnapshot \/ PowerLoss \/ Cleanup

Spec == Init /\ [][Next]_vars

(* A running command goes on (each of its calls has a time limit), and an  *)
(* operator who wants the rollback judged keeps asking for the remaining   *)
(* phases and reboots.  Nobody has to disturb the machine.                 *)
FairSpec ==
  /\ Spec
  /\ WF_vars(CommandStep)
  /\ SF_vars(Start("prepare-rollback")) /\ SF_vars(Start("verify-rollback"))
  /\ SF_vars(Reboot)

-----------------------------------------------------------------------------
(* What verify-rollback calls passed: the machine runs the default root,   *)
(* that root is a writable copy of the snapshot chosen by the baseline and *)
(* nothing has been installed into it since, it is sound, and it is the    *)
(* system the baseline described.                                          *)
PassedMeansRestored ==
  process.status = "passed" =>
    /\ workflow.phase = "rollback-verified"
    /\ current = default /\ kernel = disk[current].kernel
    /\ LET root == disk[current] target == disk[workflow.rollback] IN
         /\ root.origin = workflow.rollback /\ ~root.readOnly /\ root.sound
         /\ [release |-> root.release, kernel |-> root.kernel] = workflow.baseline
         /\ target # Nothing => root = [target EXCEPT !.readOnly = FALSE,
                                                      !.origin = root.origin]

(* kiwi/README.md: a killed process or a failed zypper leaves a state that *)
(* cannot be validated silently.  A step that moves the workflow forward   *)
(* never starts from what an update left behind that no command is running *)
(* for; a baseline is never taken under a running zypper; and an update is *)
(* only called done when the root holds all of it and so does the snapshot *)
(* that was taken last.                                                    *)
WorkflowIsTruthful ==
  [][ workflow' # workflow =>
      /\ (\/ workflow.phase \in {"baseline-failed", "update-failed"}
          \/ workflow.phase \in {"update-started", "update-running"} /\ process.command # "update")
         => process.command = "baseline"
      /\ workflow'.phase = "baseline" =>
           /\ ~orphan /\ disk[current].sound
           /\ workflow'.baseline = [release |-> disk[current].release, kernel |-> kernel]
      /\ workflow'.phase = "updated" /\ process.command = "update" =>
           /\ disk[current] = Updated
           /\ disk[process.made] \in {Nothing, [Updated EXCEPT !.readOnly = TRUE, !.origin = process.made]} ]_vars

(* A rollback interrupted anywhere, also between snapper and the workflow  *)
(* file, can be taken up again: unless the operator starts over, the disk  *)
(* is full, or the target is gone or is not what the baseline described,   *)
(* the exercise reaches its verdict.                                       *)
Hopeless ==
  \/ disk[workflow.rollback] = Nothing
  \/ LET target == disk[workflow.rollback] IN
       \/ ~target.sound
       \/ [release |-> target.release, kernel |-> target.kernel] # workflow.baseline
  \/ workflow.phase = "updated-verified" /\ ~HasRoom(2)

InterruptedRollbackRecovers ==
  (workflow.phase \in {"updated-verified", "rollback-prepared"}) ~>
    (workflow.phase \in {"rollback-verified", "baseline", "baseline-failed"} \/ Hopeless)
=============================================================================

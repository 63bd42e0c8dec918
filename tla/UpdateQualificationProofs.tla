--------------------- MODULE UpdateQualificationProofs ---------------------
(***************************************************************************)
(* The verdict of the update and rollback exercise, for any number of      *)
(* snapshots, any identities, any targets and any number of faults.        *)
(* Control says which step belongs to which command and phase; Observed    *)
(* what the memory of a process is worth; Prepared what the default root   *)
(* is once a rollback was recorded.                                        *)
(***************************************************************************)
EXTENDS UpdateQualification, TLAPS

UpdateSteps == {"pre", "recordPre", "refresh", "zypper", "post"}
AuditSteps == {"checks", "facts", "deciding"}

Control ==
  /\ (process.command = "none") <=> At("idle")
  /\ process.at \in UpdateSteps => process.command = "update"
  /\ process.at \in {"pre", "recordPre"} => workflow.phase = "update-started"
  /\ process.at \in {"refresh", "zypper", "post"} => workflow.phase = "update-running"
  /\ process.at \in AuditSteps /\ process.command = "update" => workflow.phase = "update-running"
  /\ process.at \in AuditSteps /\ process.command = "verify-updated" =>
       workflow.phase \in {"updated", "updated-verified"}
  /\ process.at \in AuditSteps /\ process.command = "verify-rollback" =>
       workflow.phase \in {"rollback-prepared", "rollback-verified"}
  /\ process.at \in AuditSteps => process.command # "prepare-rollback"
  /\ process.at \in {"rollback", "recordRollback"} =>
       process.command = "prepare-rollback" /\ workflow.phase = "updated-verified"
  /\ orphan => workflow.phase \in {"update-running", "baseline-failed"}
  /\ orphan => process.command \notin {"update", "verify-rollback"}

IsUpdated(content) ==
  content.release = repository.release /\ content.kernel = repository.kernel /\ content.sound

Observed ==
  /\ process.at \in {"facts", "deciding"} /\ process.sane => disk[current].sound /\ ~orphan
  /\ At("deciding") /\ process.sane =>
       /\ process.identity = [release |-> disk[current].release, kernel |-> kernel]
       /\ process.onDefault = (default = current)
  /\ At("post") \/ (process.at \in AuditSteps /\ process.command = "update") =>
       IsUpdated(disk[current])
  /\ process.at \in AuditSteps /\ process.command = "update" =>
       disk[process.made] \in {Nothing, Copy(current, TRUE, process.made)}

Prepared ==
  workflow.phase \in {"rollback-prepared", "rollback-verified"} \/ At("recordRollback") =>
    /\ disk[default].origin = workflow.rollback /\ ~disk[default].readOnly
    /\ disk[workflow.rollback] # Nothing =>
         disk[default] = Copy(workflow.rollback, FALSE, workflow.rollback)
    /\ current = default => kernel = disk[current].kernel

Passed ==
  process.status = "passed" =>
    /\ process.command = "verify-rollback" /\ At("reporting")
    /\ workflow.phase = "rollback-verified"
    /\ current = default /\ disk[current].sound
    /\ [release |-> disk[current].release, kernel |-> kernel] = workflow.baseline

IInv == TypeOK /\ Control /\ Observed /\ Prepared /\ Passed

-----------------------------------------------------------------------------
LEMMA Constants ==
  /\ LastSnapshot \in Nat \ {0} /\ Faults \in Nat
  /\ Release0 \in Releases /\ Kernel0 \in Kernels
  /\ Root \in Subvolumes /\ First \in Subvolumes
  BY QualificationAssumption DEF Root, First, Subvolumes

(* Whatever is installed into a subvolume, or copied from one, is content. *)
LEMMA ContentFields ==
  ASSUME NEW c \in Content
  PROVE  /\ c = [exists |-> c.exists, release |-> c.release, kernel |-> c.kernel,
                 sound |-> c.sound, readOnly |-> c.readOnly, origin |-> c.origin]
         /\ c.exists = TRUE /\ c.release \in Releases /\ c.kernel \in Kernels
         /\ c.sound \in BOOLEAN /\ c.readOnly \in BOOLEAN /\ c.origin \in Subvolumes
         /\ c # Nothing
  <1>1. c = [exists |-> c.exists, release |-> c.release, kernel |-> c.kernel,
             sound |-> c.sound, readOnly |-> c.readOnly, origin |-> c.origin]
    BY DEF Content
  <1>2. /\ c.exists = TRUE /\ c.release \in Releases /\ c.kernel \in Kernels
        /\ c.sound \in BOOLEAN /\ c.readOnly \in BOOLEAN /\ c.origin \in Subvolumes
    BY DEF Content
  <1>3. c # Nothing
    BY <1>2 DEF Nothing
  <1> QED BY <1>1, <1>2, <1>3

LEMMA InstalledContent ==
  ASSUME NEW c \in Content, NEW r \in Releases, NEW k \in Kernels, NEW s \in BOOLEAN
  PROVE  [c EXCEPT !.release = r, !.kernel = k, !.sound = s] \in Content
  BY ContentFields DEF Content

LEMMA CopiedContent ==
  ASSUME NEW c \in Content, NEW ro \in BOOLEAN, NEW o \in Subvolumes
  PROVE  [c EXCEPT !.readOnly = ro, !.origin = o] \in Content
  BY ContentFields DEF Content

LEMMA CopyType ==
  ASSUME TypeOK, NEW m \in Subvolumes, disk[m] # Nothing, NEW ro \in BOOLEAN,
         NEW o \in Subvolumes
  PROVE  Copy(m, ro, o) \in Content /\ Copy(m, ro, o) # Nothing
  <1>1. disk[m] \in Content
    BY DEF TypeOK
  <1>2. Copy(m, ro, o) \in Content
    BY <1>1, CopiedContent DEF Copy
  <1> QED BY <1>2, ContentFields

LEMMA InstallType ==
  ASSUME TypeOK,
         NEW r \in {disk[current].release, repository.release},
         NEW k \in {disk[current].kernel, repository.kernel}, NEW sound \in BOOLEAN
  PROVE  Installed(r, k, sound) \in Content /\ Installed(r, k, sound) # Nothing
  <1>1. disk[current] \in Content
    BY DEF TypeOK
  <1>2. disk[current].release \in Releases /\ disk[current].kernel \in Kernels
    BY <1>1, ContentFields
  <1>3. r \in Releases /\ k \in Kernels
    BY <1>2 DEF TypeOK
  <1>4. Installed(r, k, sound) \in Content
    BY <1>1, <1>3, InstalledContent DEF Installed
  <1> QED BY <1>4, ContentFields

(* A new number names no subvolume that exists.                            *)
LEMMA NewNumber ==
  ASSUME TypeOK, NEW n \in Subvolumes, NextNumber(n)
  PROVE  /\ n # Root /\ disk[n] = Nothing /\ n # current /\ n # default
         /\ \A m \in Subvolumes : m > n => disk[m] = Nothing
  <1>1. n - 1 \in Nat /\ \A m \in Snapshots : m < n
    BY Constants DEF NextNumber, Snapshots, Subvolumes, Root
  <1>2. n # Root
    BY <1>1, Constants DEF Root, Subvolumes
  <1>3. n \notin Snapshots /\ \A m \in Subvolumes : m > n => m \notin Snapshots
    BY <1>1, Constants DEF Subvolumes, Root
  <1>4. disk[n] = Nothing /\ \A m \in Subvolumes : m > n => disk[m] = Nothing
    BY <1>2, <1>3, Constants DEF Snapshots, Subvolumes, Root
  <1> QED BY <1>2, <1>4 DEF TypeOK

-----------------------------------------------------------------------------
(* Types.                                                                  *)
LEMMA ProcessType ==
  ASSUME process \in Process
  PROVE  /\ \A a \in Steps : [process EXCEPT !.at = a] \in Process
         /\ \A status \in {"incomplete", "failed", "passed"} :
              [process EXCEPT !.at = "reporting", !.status = status] \in Process
         /\ \A c \in Commands : [NoProcess EXCEPT !.command = c, !.at = FirstStep(c)] \in Process
         /\ NoProcess \in Process
  <1>1. NoProcess \in Process
    BY Constants DEF Process, NoProcess, Steps, Identity0, Identity
  <1>2. ASSUME NEW a \in Steps
        PROVE  [process EXCEPT !.at = a] \in Process
    BY DEF Process
  <1>3. ASSUME NEW status \in {"incomplete", "failed", "passed"}
        PROVE  [process EXCEPT !.at = "reporting", !.status = status] \in Process
    BY DEF Process, Steps
  <1>4. ASSUME NEW c \in Commands
        PROVE  [NoProcess EXCEPT !.command = c, !.at = FirstStep(c)] \in Process
    <2>1. FirstStep(c) \in Steps
      BY DEF FirstStep, Steps
    <2> QED BY <1>1, <2>1 DEF Process
  <1> QED BY <1>1, <1>2, <1>3, <1>4

LEMMA WorkflowType ==
  ASSUME workflow \in Workflow
  PROVE  /\ \A p \in Phases : [workflow EXCEPT !.phase = p] \in Workflow
         /\ \A p \in Phases, n \in Subvolumes, i \in Identity : NewWorkflow(p, n, i) \in Workflow
  BY Constants DEF Workflow, NewWorkflow

LEMMA FaultType ==
  ASSUME faults \in 0..Faults, Fault \/ UNCHANGED faults
  PROVE  faults' \in 0..Faults
  BY Constants DEF Fault

LEMMA TypeInit == Init => TypeOK
  <1> SUFFICES ASSUME Init PROVE TypeOK
    OBVIOUS
  <1>1. disk \in [Subvolumes -> Content \cup {Nothing}] /\ disk[Root] # Nothing
    BY Constants DEF Init, Content, Nothing
  <1>2. workflow \in Workflow
    BY Constants DEF Init, Workflow, NewWorkflow, Phases, Identity0, Identity
  <1>3. process \in Process
    BY Constants DEF Init, Process, NoProcess, Steps, Identity0, Identity
  <1>4. default = Root /\ current = Root /\ kernel \in Kernels /\ orphan \in BOOLEAN
    BY Constants DEF Init
  <1>5. repository \in [release : Releases, kernel : Kernels, reboot : BOOLEAN]
    BY DEF Init
  <1>6. faults \in 0..Faults
    BY Constants DEF Init
  <1> QED BY <1>1, <1>2, <1>3, <1>4, <1>5, <1>6, Constants DEF TypeOK

-----------------------------------------------------------------------------
(* What the steps do to the disk.                                          *)
DiskType(d) == d \in [Subvolumes -> Content \cup {Nothing}]
Kept(m) == disk'[m] = disk[m]

LEMMA InstallStep ==
  ASSUME TypeOK, NEW soundness \in SUBSET BOOLEAN, BecomesMixed(soundness)
  PROVE  /\ DiskType(disk') /\ disk'[current] # Nothing
         /\ \A m \in Subvolumes \ {current} : Kept(m)
         /\ disk'[current].sound \in soundness
  <1>1. PICK r \in {disk[current].release, repository.release},
             k \in {disk[current].kernel, repository.kernel}, sound \in soundness :
             Becomes(Installed(r, k, sound))
    BY DEF BecomesMixed
  <1>2. Installed(r, k, sound) \in Content /\ Installed(r, k, sound) # Nothing
    BY InstallType
  <1>3. disk[current] \in Content
    BY DEF TypeOK
  <1>4. Installed(r, k, sound).sound = sound
    BY <1>3, ContentFields DEF Installed
  <1> QED BY <1>1, <1>2, <1>4 DEF Becomes, TypeOK, DiskType, Kept

LEMMA UpdateStep ==
  ASSUME TypeOK, Becomes(Updated)
  PROVE  /\ DiskType(disk') /\ disk'[current] # Nothing
         /\ \A m \in Subvolumes \ {current} : Kept(m)
         /\ IsUpdated(disk'[current])
  <1>1. Updated \in Content /\ Updated # Nothing
    BY InstallType DEF Updated
  <1>2. disk[current] \in Content
    BY DEF TypeOK
  <1>3. IsUpdated(Updated)
    BY <1>2, ContentFields DEF Updated, Installed, IsUpdated
  <1> QED BY <1>1, <1>3 DEF Becomes, TypeOK, DiskType, Kept

LEMMA SnapStep ==
  ASSUME TypeOK, NEW n \in Subvolumes, Snap(n)
  PROVE  /\ DiskType(disk') /\ disk[n] = Nothing /\ disk'[n] = Copy(current, TRUE, n)
         /\ n # current /\ n # default
         /\ \A m \in Subvolumes \ {n} : Kept(m)
  <1>1. NextNumber(n) /\ disk' = [disk EXCEPT ![n] = Copy(current, TRUE, n)]
    BY DEF Snap
  <1>2. disk[n] = Nothing /\ n # current /\ n # default
    BY <1>1, NewNumber
  <1>3. Copy(current, TRUE, n) \in Content
    BY CopyType DEF TypeOK
  <1> QED BY <1>1, <1>2, <1>3 DEF TypeOK, DiskType, Kept

LEMMA RollbackStep ==
  ASSUME TypeOK, RolledBack
  PROVE  /\ DiskType(disk') /\ default' \in Subvolumes
         /\ disk[default'] = Nothing /\ disk[workflow.rollback] # Nothing
         /\ disk'[default'] = Copy(workflow.rollback, FALSE, workflow.rollback)
         /\ disk'[default'] # Nothing
         /\ \A m \in Subvolumes : disk[m] # Nothing => Kept(m)
  <1>1. PICK n \in Subvolumes :
          /\ NextNumber(n) /\ n + 1 \in Subvolumes
          /\ disk' = [disk EXCEPT
               ![n] = Copy(default, TRUE, n),
               ![n + 1] = Copy(workflow.rollback, FALSE, workflow.rollback)]
          /\ default' = n + 1
    BY DEF RolledBack
  <1>2. workflow.rollback \in Subvolumes /\ disk[workflow.rollback] # Nothing
    BY DEF RolledBack, TypeOK, Workflow
  <1>3. n + 1 > n /\ n + 1 # n
    BY Constants DEF Subvolumes, Root
  <1>4. disk[n] = Nothing /\ disk[n + 1] = Nothing
    BY <1>1, <1>3, NewNumber
  <1>5. Copy(default, TRUE, n) \in Content
    BY CopyType DEF TypeOK
  <1>6. /\ Copy(workflow.rollback, FALSE, workflow.rollback) \in Content
        /\ Copy(workflow.rollback, FALSE, workflow.rollback) # Nothing
    BY <1>2, CopyType
  <1>7. DiskType(disk')
    BY <1>1, <1>5, <1>6 DEF TypeOK, DiskType
  <1>8. disk'[default'] = Copy(workflow.rollback, FALSE, workflow.rollback)
    BY <1>1, <1>3 DEF TypeOK
  <1>9. \A m \in Subvolumes : disk[m] # Nothing => Kept(m)
    BY <1>1, <1>4 DEF TypeOK, Kept
  <1> QED BY <1>1, <1>2, <1>4, <1>6, <1>7, <1>8, <1>9

-----------------------------------------------------------------------------
LEMMA TypeStep == TypeOK /\ [Next]_vars => TypeOK'
  <1> SUFFICES ASSUME TypeOK, [Next]_vars PROVE TypeOK'
    OBVIOUS
  <1>u. CASE UNCHANGED vars
    BY <1>u DEF vars, machine, booted, TypeOK
  <1>m. ASSUME UNCHANGED <<machine, repository>>, workflow' \in Workflow, process' \in Process,
               Fault \/ UNCHANGED faults
        PROVE  TypeOK'
    <2>1. UNCHANGED <<disk, default, current, kernel, orphan, repository>>
      BY <1>m DEF machine, booted
    <2> QED BY <1>m, <2>1, FaultType DEF TypeOK
  <1>w. /\ workflow \in Workflow /\ process \in Process /\ current \in Subvolumes
        /\ disk[current] \in Content
    BY DEF TypeOK
  <1>s. ASSUME NEW c \in Commands, Start(c) PROVE TypeOK'
    <2>1. process' \in Process
      BY <1>s, <1>w, ProcessType DEF Start
    <2>2. workflow' \in Workflow
      BY <1>s, <1>w, WorkflowType DEF Start, Enter, Phases
    <2> QED BY <1>s, <2>1, <2>2, <1>m DEF Start
  <1>1. CASE RunChecks
    <2>1. PICK sane \in BOOLEAN :
            process' = [process EXCEPT !.at = "facts", !.sane = sane, !.present = Snapshots]
      BY <1>1 DEF RunChecks
    <2>2. process' \in Process
      BY <2>1, <1>w DEF Process, Steps, Snapshots
    <2> QED BY <1>1, <2>2, <1>w, <1>m DEF RunChecks
  <1>2. CASE CollectFacts
    <2>1. [release |-> disk[current].release, kernel |-> kernel] \in Identity
      BY <1>w, ContentFields DEF Identity, TypeOK
    <2>2. process' \in Process
      BY <1>2, <2>1, <1>w DEF CollectFacts, Process, Steps
    <2> QED BY <1>2, <2>2, <1>w, <1>m DEF CollectFacts
  <1>3. CASE DecideBaseline
    <2>1. process' \in Process
      BY <1>3, <1>w, ProcessType DEF DecideBaseline, Stop
    <2>2. process.identity \in Identity
      BY <1>w DEF Process
    <2>3. workflow' \in Workflow
      BY <1>3, <1>w, <2>2, WorkflowType DEF DecideBaseline, Phases, Snapshots
    <2> QED BY <1>3, <2>1, <2>3, <1>m DEF DecideBaseline
  <1>4. CASE DecideUpdated
    <2>1. process' \in Process
      BY <1>4, <1>w, ProcessType DEF DecideUpdated, Stop
    <2>2. process.made \in Subvolumes /\ repository.reboot \in BOOLEAN
      BY <1>w DEF Process, TypeOK
    <2>3. workflow' \in Workflow
      BY <1>4, <1>w, <2>2 DEF DecideUpdated, Phases, Workflow
    <2> QED BY <1>4, <2>1, <2>3, <1>m DEF DecideUpdated
  <1>5. CASE DecideVerifiedUpdate
    <2>1. process' \in Process
      BY <1>5, <1>w, ProcessType DEF DecideVerifiedUpdate, Stop
    <2>2. process.identity.kernel \in Kernels
      BY <1>w DEF Process, Identity
    <2>3. workflow' \in Workflow
      BY <1>5, <1>w, <2>2 DEF DecideVerifiedUpdate, Phases, Workflow
    <2> QED BY <1>5, <2>1, <2>3, <1>m DEF DecideVerifiedUpdate
  <1>6. CASE DecideRollback
    <2>1. process' \in Process
      BY <1>6, <1>w, ProcessType DEF DecideRollback, Stop
    <2>2. workflow' \in Workflow
      BY <1>6, <1>w, WorkflowType DEF DecideRollback, Enter, Phases
    <2> QED BY <1>6, <2>1, <2>2, <1>m DEF DecideRollback
  <1>f. ASSUME Fail PROVE workflow' \in Workflow /\ process' \in Process
    BY <1>f, <1>w, WorkflowType, ProcessType DEF Fail, Enter, Stop, Phases
  <1>7. CASE CreateSnapshot
    <2>1. UNCHANGED <<default, current, kernel, orphan, repository>>
      BY <1>7 DEF CreateSnapshot, booted
    <2>2. UNCHANGED disk \/ \E n \in Subvolumes : Snap(n)
      BY <1>7 DEF CreateSnapshot
    <2>3. DiskType(disk') /\ disk'[default] # Nothing /\ disk'[current] # Nothing
      BY <2>2, SnapStep DEF TypeOK, DiskType, Kept
    <2>4. workflow' \in Workflow
      BY <1>7, <1>w, <1>f DEF CreateSnapshot
    <2>5. process' \in Process
      <3>1. ASSUME NEW n \in Subvolumes,
                   process' = [process EXCEPT
                     !.made = n, !.at = IF @ = "pre" THEN "recordPre" ELSE "checks"]
            PROVE  process' \in Process
        BY <3>1, <1>w DEF Process, Steps
      <3> QED BY <1>7, <1>f, <3>1 DEF CreateSnapshot
    <2>6. Fault \/ UNCHANGED faults
      BY <1>7 DEF CreateSnapshot
    <2> QED BY <2>1, <2>3, <2>4, <2>5, <2>6, FaultType DEF TypeOK, DiskType
  <1>8. CASE RecordPre
    <2>1. process' \in Process
      BY <1>8, <1>w, ProcessType DEF RecordPre, Goto, Steps
    <2>2. process.made \in Subvolumes
      BY <1>w DEF Process
    <2>3. workflow' \in Workflow
      BY <1>8, <1>w, <2>2 DEF RecordPre, Phases, Workflow
    <2> QED BY <1>8, <2>1, <2>3, <1>m DEF RecordPre
  <1>9. CASE Refresh
    <2>1. process' \in Process
      BY <1>9, <1>w, <1>f, ProcessType DEF Refresh, Goto, Steps
    <2>2. workflow' \in Workflow
      BY <1>9, <1>w, <1>f DEF Refresh
    <2> QED BY <1>9, <2>1, <2>2, <1>m DEF Refresh
  <1>10. CASE Update
    <2>1. UNCHANGED <<default, current, kernel, orphan, repository>>
      BY <1>10 DEF Update, booted
    <2>2. UNCHANGED disk \/ Becomes(Updated) \/ BecomesMixed({TRUE}) \/ BecomesMixed(BOOLEAN)
      BY <1>10 DEF Update
    <2>3. DiskType(disk') /\ disk'[default] # Nothing /\ disk'[current] # Nothing
      BY <2>2, UpdateStep, InstallStep DEF TypeOK, DiskType, Kept
    <2>4. workflow' \in Workflow
      BY <1>10, <1>w, <1>f DEF Update
    <2>5. process' \in Process
      <3>1. ASSUME process.tries < 2, TryAgain PROVE process' \in Process
        BY <3>1, <1>w DEF TryAgain, Process
      <3>2. ASSUME Goto("post") PROVE process' \in Process
        BY <3>2, <1>w, ProcessType DEF Goto, Steps
      <3> QED BY <1>10, <1>f, <3>1, <3>2 DEF Update
    <2>6. Fault \/ UNCHANGED faults
      BY <1>10 DEF Update
    <2> QED BY <2>1, <2>3, <2>4, <2>5, <2>6, FaultType DEF TypeOK, DiskType
  <1>11. CASE RunRollback
    <2>1. UNCHANGED <<current, kernel, orphan, repository, workflow>>
      BY <1>11 DEF RunRollback, booted
    <2>2. RolledBack \/ UNCHANGED <<disk, default>>
      BY <1>11 DEF RunRollback
    <2>3. /\ DiskType(disk') /\ default' \in Subvolumes
          /\ disk'[default'] # Nothing /\ disk'[current] # Nothing
      BY <2>2, RollbackStep DEF TypeOK, DiskType, Kept
    <2>4. process' \in Process
      BY <1>11, <1>w, ProcessType DEF RunRollback, Goto, Stop, Steps
    <2>5. Fault \/ UNCHANGED faults
      BY <1>11 DEF RunRollback
    <2> QED BY <2>1, <2>3, <2>4, <2>5, FaultType DEF TypeOK, DiskType
  <1>12. CASE RecordRollback
    <2>1. process' \in Process /\ workflow' \in Workflow
      BY <1>12, <1>w, ProcessType, WorkflowType DEF RecordRollback, Stop, Enter, Phases
    <2> QED BY <1>12, <2>1, <1>m DEF RecordRollback
  <1>13. CASE WriteFails
    BY <1>13, <1>w, <1>m, ProcessType DEF WriteFails, Stop
  <1>14. CASE Report
    BY <1>14, <1>w, <1>m, ProcessType DEF Report
  <1>15. CASE Kill
    <2>1. UNCHANGED <<disk, default, current, kernel, repository, workflow>>
      BY <1>15 DEF Kill, booted
    <2>2. process' \in Process /\ orphan' \in BOOLEAN /\ Fault
      BY <1>15, <1>w, ProcessType DEF Kill, TypeOK
    <2> QED BY <2>1, <2>2, FaultType DEF TypeOK
  <1>16. CASE OrphanEnds
    <2>1. UNCHANGED <<default, current, kernel, repository, workflow, process, faults>>
      BY <1>16 DEF OrphanEnds, booted
    <2>2. DiskType(disk') /\ disk'[default] # Nothing /\ disk'[current] # Nothing
      BY <1>16, InstallStep DEF OrphanEnds, TypeOK, DiskType, Kept
    <2> QED BY <1>16, <2>1, <2>2 DEF OrphanEnds, TypeOK, DiskType
  <1>b. ASSUME NEW n \in Subvolumes, DiskType(disk'), disk'[n] # Nothing, disk'[default] # Nothing,
               BootInto(n), process' \in Process, orphan' \in BOOLEAN,
               UNCHANGED <<default, repository, workflow>>, Fault \/ UNCHANGED faults
        PROVE  TypeOK'
    <2>1. disk'[n].kernel \in Kernels
      BY <1>b, ContentFields DEF DiskType
    <2> QED BY <1>b, <2>1, FaultType DEF TypeOK, BootInto, DiskType
  <1>17. CASE Reboot
    BY <1>17, <1>b DEF Reboot, TypeOK, DiskType
  <1>18. CASE BootSnapshot
    <2>1. PICK n \in Snapshots : BootInto(n)
      BY <1>18 DEF BootSnapshot
    <2>2. n \in Subvolumes /\ disk[n] # Nothing
      BY DEF Snapshots
    <2>3. DiskType(disk') /\ disk'[n] # Nothing /\ disk'[default] # Nothing
      BY <1>18, <2>2 DEF BootSnapshot, TypeOK, DiskType
    <2> QED BY <1>18, <2>1, <2>2, <2>3, <1>b, <1>w DEF BootSnapshot, TypeOK
  <1>19. CASE PowerLoss
    <2>1. UNCHANGED disk \/ BecomesMixed(BOOLEAN)
      BY <1>19 DEF PowerLoss
    <2>2. DiskType(disk') /\ disk'[default] # Nothing
      BY <2>1, InstallStep DEF TypeOK, DiskType, Kept
    <2>3. process' \in Process
      BY <1>19, <1>w, ProcessType DEF PowerLoss
    <2> QED BY <1>19, <2>2, <2>3, <1>b DEF PowerLoss, TypeOK
  <1>20. CASE Cleanup
    <2>1. UNCHANGED <<default, current, kernel, orphan, repository, workflow, process>>
      BY <1>20 DEF Cleanup, booted
    <2>2. DiskType(disk') /\ disk'[default] # Nothing /\ disk'[current] # Nothing
      BY <1>20 DEF Cleanup, TypeOK, DiskType
    <2> QED BY <1>20, <2>1, <2>2, FaultType DEF Cleanup, TypeOK, DiskType
  <1> QED BY <1>u, <1>s, <1>1, <1>2, <1>3, <1>4, <1>5, <1>6, <1>7, <1>8, <1>9, <1>10, <1>11,
             <1>12, <1>13, <1>14, <1>15, <1>16, <1>17, <1>18, <1>19, <1>20
          DEF Next, CommandStep

(* Every state of the exercise is well typed.                              *)
THEOREM QualificationTypes == Spec => []TypeOK
  BY TypeInit, TypeStep, PTL DEF Spec

-----------------------------------------------------------------------------
(* Which step belongs to which command and phase.                          *)
LEMMA ProcessFields ==
  ASSUME process \in Process
  PROVE  /\ \A a : [process EXCEPT !.at = a].at = a
         /\ \A a : [process EXCEPT !.at = a].command = process.command
         /\ \A a : [process EXCEPT !.at = a].sane = process.sane
         /\ \A a : [process EXCEPT !.at = a].made = process.made
         /\ \A a : [process EXCEPT !.at = a].status = process.status
         /\ \A t : [process EXCEPT !.at = "reporting", !.status = t].at = "reporting"
         /\ \A t : [process EXCEPT !.at = "reporting", !.status = t].status = t
         /\ \A t : [process EXCEPT !.at = "reporting", !.status = t].command = process.command
  BY DEF Process

LEMMA ControlInit == Init => Control
  BY DEF Init, Control, At, NoProcess, NewWorkflow, UpdateSteps, AuditSteps

LEMMA ControlStep == TypeOK /\ Control /\ Observed /\ [Next]_vars => Control'
  <1> SUFFICES ASSUME TypeOK, Control, Observed, [Next]_vars PROVE Control'
    OBVIOUS
  <1> USE DEF At, UpdateSteps, AuditSteps
  <1>w. workflow \in Workflow /\ process \in Process
    BY DEF TypeOK
  <1>u. CASE UNCHANGED vars
    BY <1>u DEF vars, machine, booted, Control
  <1>r. ASSUME NEW status, Stop(status), process.at # "idle", UNCHANGED orphan,
               orphan => workflow'.phase \in {"update-running", "baseline-failed"}
        PROVE  Control'
    <2>1. process'.at = "reporting" /\ process'.command = process.command
      BY <1>r, <1>w, ProcessFields DEF Stop
    <2> QED BY <1>r, <2>1 DEF Control
  <1>g. ASSUME NEW step, process' = [process EXCEPT !.at = step], UNCHANGED orphan
        PROVE  process'.at = step /\ process'.command = process.command
    BY <1>g, <1>w, ProcessFields
  <1>f. ASSUME Fail, process.command = "update", UNCHANGED orphan PROVE Control'
    <2>1. process.at # "idle" /\ ~orphan
      BY <1>f DEF Control
    <2> QED BY <1>f, <2>1, <1>r DEF Fail
  <1>n. ASSUME process' = NoProcess, orphan' => workflow'.phase \in {"update-running", "baseline-failed"}
        PROVE  Control'
    BY <1>n DEF NoProcess, Control
  <1>s. ASSUME NEW c \in Commands, Start(c) PROVE Control'
    <2>1. process'.command = c /\ process'.at = FirstStep(c) /\ Accepted(c)
      BY <1>s DEF Start, NoProcess
    <2>2. workflow'.phase = (IF c = "update" THEN "update-started" ELSE workflow.phase)
      BY <1>s, <1>w DEF Start, Enter, Workflow
    <2>3. UNCHANGED orphan
      BY <1>s DEF Start, machine
    <2>4. ~(orphan /\ c \in {"update", "verify-rollback"})
      BY <2>1 DEF Control, Accepted
    <2> QED BY <2>1, <2>2, <2>3, <2>4 DEF Control, Accepted, FirstStep, Commands
  <1>1. CASE RunChecks
    <2>1. process.at = "checks" /\ UNCHANGED <<orphan, workflow>>
      BY <1>1 DEF RunChecks, machine
    <2>2. process'.at = "facts" /\ process'.command = process.command
      BY <1>1, <1>w DEF RunChecks, Process
    <2> QED BY <2>1, <2>2 DEF Control
  <1>2. CASE CollectFacts
    <2>1. process.at = "facts" /\ UNCHANGED <<orphan, workflow>>
      BY <1>2 DEF CollectFacts, machine
    <2>2. process'.at = "deciding" /\ process'.command = process.command
      BY <1>2, <1>w DEF CollectFacts, Process
    <2> QED BY <2>1, <2>2 DEF Control
  <1>3. CASE DecideBaseline
    <2>1. process.at = "deciding" /\ UNCHANGED orphan
      BY <1>3 DEF DecideBaseline, Deciding, machine
    <2>2. workflow' = workflow \/
            workflow'.phase = IF process.sane THEN "baseline" ELSE "baseline-failed"
      BY <1>3 DEF DecideBaseline, NewWorkflow
    <2>3. process.sane => ~orphan
      BY <2>1 DEF Observed
    <2>4. orphan => workflow'.phase \in {"update-running", "baseline-failed"}
      BY <2>2, <2>3 DEF Control
    <2>5. \E status \in {"incomplete", "failed"} : Stop(status)
      BY <1>3 DEF DecideBaseline
    <2> QED BY <2>1, <2>4, <2>5, <1>r
  <1>4. CASE DecideUpdated
    <2>1. process.at = "deciding" /\ process.command = "update" /\ UNCHANGED orphan
      BY <1>4 DEF DecideUpdated, Deciding, machine
    <2>2. \E status \in {"incomplete", "failed"} : Stop(status)
      BY <1>4 DEF DecideUpdated
    <2> QED BY <2>1, <2>2, <1>r DEF Control
  <1>5. CASE DecideVerifiedUpdate
    <2>1. process.at = "deciding" /\ process.command = "verify-updated" /\ UNCHANGED orphan
      BY <1>5 DEF DecideVerifiedUpdate, Deciding, machine
    <2>2. \E status \in {"incomplete", "failed"} : Stop(status)
      BY <1>5 DEF DecideVerifiedUpdate
    <2>3. ~orphan
      BY <2>1 DEF Control
    <2> QED BY <2>1, <2>2, <2>3, <1>r
  <1>6. CASE DecideRollback
    <2>1. process.at = "deciding" /\ process.command = "verify-rollback" /\ UNCHANGED orphan
      BY <1>6 DEF DecideRollback, Deciding, machine
    <2>2. \E status \in {"passed", "failed"} : Stop(status)
      BY <1>6 DEF DecideRollback
    <2> QED BY <2>1, <2>2, <1>r DEF Control
  <1>7. CASE CreateSnapshot
    <2>1. process.at \in {"pre", "post"} /\ process.command = "update" /\ UNCHANGED orphan
      BY <1>7 DEF CreateSnapshot, Control
    <2>2. CASE Fail
      BY <2>1, <2>2, <1>f
    <2>3. CASE ~Fail
      <3>1. UNCHANGED workflow /\ process'.command = "update"
            /\ process'.at = IF process.at = "pre" THEN "recordPre" ELSE "checks"
        BY <1>7, <2>1, <2>3, <1>w DEF CreateSnapshot, Process
      <3> QED BY <2>1, <3>1 DEF Control
    <2> QED BY <2>2, <2>3
  <1>8. CASE RecordPre
    <2>1. process.at = "recordPre" /\ process.command = "update" /\ UNCHANGED orphan
      BY <1>8 DEF RecordPre, Control, machine
    <2>2. workflow'.phase = "update-running" /\ process' = [process EXCEPT !.at = "refresh"]
      BY <1>8, <1>w DEF RecordPre, Workflow, Goto
    <2> QED BY <2>1, <2>2, <1>g DEF Control
  <1>9. CASE Refresh
    <2>1. process.at = "refresh" /\ process.command = "update" /\ UNCHANGED orphan
      BY <1>9 DEF Refresh, Control, machine
    <2>2. CASE Fail
      BY <2>1, <2>2, <1>f
    <2>3. CASE Goto("zypper") /\ UNCHANGED workflow
      <3>1. process'.at = "zypper" /\ process'.command = "update"
        BY <2>1, <2>3, <1>g DEF Goto
      <3> QED BY <2>1, <2>3, <3>1 DEF Control
    <2> QED BY <1>9, <2>2, <2>3 DEF Refresh
  <1>10. CASE Update
    <2>1. process.at = "zypper" /\ process.command = "update" /\ UNCHANGED orphan
      BY <1>10 DEF Update, Control
    <2>2. CASE Fail
      BY <2>1, <2>2, <1>f
    <2>3. CASE Goto("post") /\ UNCHANGED workflow
      <3>1. process'.at = "post" /\ process'.command = "update"
        BY <2>1, <2>3, <1>g DEF Goto
      <3> QED BY <2>1, <2>3, <3>1 DEF Control
    <2>4. CASE TryAgain /\ UNCHANGED workflow
      <3>1. process'.at = "zypper" /\ process'.command = "update"
        BY <2>1, <2>4, <1>w DEF TryAgain, Process
      <3> QED BY <2>1, <2>4, <3>1 DEF Control
    <2> QED BY <1>10, <2>2, <2>3, <2>4 DEF Update
  <1>11. CASE RunRollback
    <2>1. process.at = "rollback" /\ UNCHANGED <<orphan, workflow>>
      BY <1>11 DEF RunRollback
    <2>2. process.command = "prepare-rollback" /\ ~orphan
      BY <2>1 DEF Control
    <2>3. CASE Stop("failed")
      BY <2>1, <2>2, <2>3, <1>r
    <2>4. CASE Goto("recordRollback")
      <3>1. process'.at = "recordRollback" /\ process'.command = process.command
        BY <2>1, <2>4, <1>g DEF Goto
      <3> QED BY <2>1, <2>2, <3>1 DEF Control
    <2> QED BY <1>11, <2>3, <2>4 DEF RunRollback
  <1>12. CASE RecordRollback
    <2>1. process.at = "recordRollback" /\ UNCHANGED orphan /\ Stop("incomplete")
      BY <1>12 DEF RecordRollback, machine
    <2>2. ~orphan
      BY <2>1 DEF Control
    <2> QED BY <2>1, <2>2, <1>r
  <1>13. CASE WriteFails
    <2>1. process.at # "idle" /\ Stop("failed") /\ UNCHANGED <<orphan, workflow>>
      BY <1>13 DEF WriteFails, machine
    <2> QED BY <2>1, <1>r DEF Control
  <1>14. CASE Report
    BY <1>14, <1>n DEF Report, machine, Control
  <1>15. CASE Kill
    <2>1. process' = NoProcess /\ UNCHANGED workflow
      BY <1>15 DEF Kill
    <2>2. orphan' => orphan \/ process.at = "zypper"
      BY <1>15 DEF Kill
    <2> QED BY <2>1, <2>2, <1>n DEF Control
  <1>16. CASE OrphanEnds
    BY <1>16 DEF OrphanEnds, Control
  <1>17. CASE Reboot
    BY <1>17 DEF Reboot, Control
  <1>18. CASE BootSnapshot
    BY <1>18 DEF BootSnapshot, Control
  <1>19. CASE PowerLoss
    BY <1>19, <1>n DEF PowerLoss
  <1>20. CASE Cleanup
    BY <1>20 DEF Cleanup, Control
  <1> QED BY <1>u, <1>s, <1>1, <1>2, <1>3, <1>4, <1>5, <1>6, <1>7, <1>8, <1>9, <1>10, <1>11,
             <1>12, <1>13, <1>14, <1>15, <1>16, <1>17, <1>18, <1>19, <1>20
          DEF Next, CommandStep

-----------------------------------------------------------------------------
(* What the memory of a running command is worth.                          *)
Unobserved == {"idle", "pre", "recordPre", "refresh", "zypper", "rollback", "recordRollback",
               "reporting"}

LEMMA ObservedInit == Init => Observed
  BY DEF Init, Observed, At, NoProcess, AuditSteps

LEMMA ObservedStep == TypeOK /\ Control /\ Observed /\ [Next]_vars => Observed'
  <1> SUFFICES ASSUME TypeOK, Control, Observed, [Next]_vars PROVE Observed'
    OBVIOUS
  <1> USE DEF At, AuditSteps
  <1>w. /\ workflow \in Workflow /\ process \in Process /\ disk[current] \in Content
        /\ current \in Subvolumes /\ disk[current] # Nothing
    BY DEF TypeOK
  <1>c. process.at = "idle" <=> process.command = "none"
    BY DEF Control
  <1>u. CASE UNCHANGED vars
    BY <1>u DEF vars, machine, booted, Observed, IsUpdated, Copy
  <1>x. ASSUME process'.at \in Unobserved PROVE Observed'
    BY <1>x DEF Observed, Unobserved
  <1>r. ASSUME NEW status, Stop(status) PROVE Observed'
    <2>1. process'.at = "reporting"
      BY <1>r, <1>w, ProcessFields DEF Stop
    <2> QED BY <2>1, <1>x DEF Unobserved
  <1>n. ASSUME process' = NoProcess PROVE Observed'
    BY <1>n, <1>x DEF NoProcess, Unobserved
  <1>s. ASSUME NEW c \in Commands, Start(c) PROVE Observed'
    <2>1. process'.command = c /\ process'.at = FirstStep(c)
      BY <1>s DEF Start, NoProcess
    <2> QED BY <2>1 DEF Observed, FirstStep
  <1>1. CASE RunChecks
    <2>1. /\ process.at = "checks"
          /\ UNCHANGED <<disk, default, current, kernel, orphan, repository>>
      BY <1>1 DEF RunChecks, machine, booted
    <2>2. /\ process'.at = "facts" /\ process'.command = process.command
          /\ process'.made = process.made
          /\ process'.sane => PackagesAreVerified
      <3>1. PICK sane \in BOOLEAN :
              /\ sane => PackagesAreVerified
              /\ process' = [process EXCEPT !.at = "facts", !.sane = sane, !.present = Snapshots]
        BY <1>1 DEF RunChecks
      <3> QED BY <3>1, <1>w DEF Process
    <2>3. process'.sane => disk'[current'].sound /\ ~orphan'
      BY <2>1, <2>2 DEF PackagesAreVerified
    <2>4. process'.command = "update" => IsUpdated(disk[current])'
      BY <2>1, <2>2 DEF Observed, IsUpdated
    <2>5. process'.command = "update" =>
            disk'[process'.made] \in {Nothing, Copy(current, TRUE, process.made)'}
      BY <2>1, <2>2 DEF Observed, Copy
    <2> QED BY <2>2, <2>3, <2>4, <2>5 DEF Observed
  <1>2. CASE CollectFacts
    <2>1. /\ process.at = "facts"
          /\ UNCHANGED <<disk, default, current, kernel, orphan, repository>>
      BY <1>2 DEF CollectFacts, machine, booted
    <2>2. /\ process'.at = "deciding" /\ process'.command = process.command
          /\ process'.made = process.made /\ process'.sane = process.sane
          /\ process'.onDefault = (default = current)
          /\ process'.identity = [release |-> disk[current].release, kernel |-> kernel]
      BY <1>2, <1>w DEF CollectFacts, Process
    <2>3. process'.sane => disk'[current'].sound /\ ~orphan'
      BY <2>1, <2>2 DEF Observed
    <2>4. process'.command = "update" => IsUpdated(disk[current])'
      BY <2>1, <2>2 DEF Observed, IsUpdated
    <2>5. process'.command = "update" =>
            disk'[process'.made] \in {Nothing, Copy(current, TRUE, process.made)'}
      BY <2>1, <2>2 DEF Observed, Copy
    <2>6. /\ process'.identity = [release |-> disk'[current'].release, kernel |-> kernel']
          /\ process'.onDefault = (default' = current')
      BY <2>1, <2>2
    <2> QED BY <2>2, <2>3, <2>4, <2>5, <2>6 DEF Observed
  <1>3. CASE DecideBaseline
    BY <1>3, <1>r DEF DecideBaseline
  <1>4. CASE DecideUpdated
    BY <1>4, <1>r DEF DecideUpdated
  <1>5. CASE DecideVerifiedUpdate
    BY <1>5, <1>r DEF DecideVerifiedUpdate
  <1>6. CASE DecideRollback
    BY <1>6, <1>r DEF DecideRollback
  <1>7. CASE CreateSnapshot
    <2>1. process.at \in {"pre", "post"} /\ UNCHANGED <<current, orphan, repository>>
      BY <1>7 DEF CreateSnapshot, booted
    <2>2. CASE Fail
      BY <2>2, <1>r DEF Fail
    <2>3. CASE ~Fail
      <3>1. PICK n \in Subvolumes :
              /\ Snap(n)
              /\ process' = [process EXCEPT
                   !.made = n, !.at = IF @ = "pre" THEN "recordPre" ELSE "checks"]
        BY <1>7, <2>3 DEF CreateSnapshot
      <3>2. process'.made = n /\ process'.at = IF process.at = "pre" THEN "recordPre" ELSE "checks"
        BY <3>1, <1>w DEF Process
      <3>3. disk'[n] = Copy(current, TRUE, n) /\ disk'[current] = disk[current]
        BY <3>1, <1>w, SnapStep DEF Kept
      <3> QED BY <2>1, <3>2, <3>3 DEF Observed, IsUpdated, Copy
    <2> QED BY <2>2, <2>3
  <1>8. CASE RecordPre
    BY <1>8, <1>w, <1>x, ProcessFields DEF RecordPre, Goto, Unobserved
  <1>9. CASE Refresh
    <2>1. CASE Fail
      BY <2>1, <1>r DEF Fail
    <2>2. CASE Goto("zypper")
      BY <2>2, <1>w, <1>x, ProcessFields DEF Goto, Unobserved
    <2> QED BY <1>9, <2>1, <2>2 DEF Refresh
  <1>10. CASE Update
    <2>1. process.at = "zypper" /\ UNCHANGED <<current, repository>>
      BY <1>10 DEF Update, booted
    <2>2. CASE Fail
      BY <2>2, <1>r DEF Fail
    <2>3. CASE TryAgain
      <3>1. process'.at = "zypper"
        BY <2>1, <2>3, <1>w DEF TryAgain, Process
      <3> QED BY <3>1, <1>x DEF Unobserved
    <2>4. CASE Becomes(Updated) /\ Goto("post")
      <3>1. IsUpdated(disk'[current])
        BY <2>4, UpdateStep
      <3>2. process'.at = "post"
        BY <2>4, <1>w, ProcessFields DEF Goto
      <3> QED BY <2>1, <3>1, <3>2 DEF Observed, IsUpdated
    <2> QED BY <1>10, <2>2, <2>3, <2>4 DEF Update
  <1>11. CASE RunRollback
    <2>1. CASE Goto("recordRollback")
      BY <2>1, <1>w, <1>x, ProcessFields DEF Goto, Unobserved
    <2> QED BY <1>11, <1>r, <2>1 DEF RunRollback
  <1>12. CASE RecordRollback
    BY <1>12, <1>r DEF RecordRollback
  <1>13. CASE WriteFails
    BY <1>13, <1>r DEF WriteFails
  <1>14. CASE Report
    BY <1>14, <1>n DEF Report
  <1>15. CASE Kill
    BY <1>15, <1>n DEF Kill
  <1>16. CASE OrphanEnds
    <2>1. orphan /\ UNCHANGED process
      BY <1>16 DEF OrphanEnds
    <2>2. ~(process.at \in {"facts", "deciding"} /\ process.sane)
      BY <2>1 DEF Observed
    <2>3. process.command # "update" /\ process.at # "post"
      BY <2>1 DEF Control, UpdateSteps
    <2> QED BY <2>1, <2>2, <2>3 DEF Observed
  <1>17. CASE Reboot
    BY <1>17, <1>c, <1>x DEF Reboot, Unobserved
  <1>18. CASE BootSnapshot
    BY <1>18, <1>c, <1>x DEF BootSnapshot, Unobserved
  <1>19. CASE PowerLoss
    BY <1>19, <1>n DEF PowerLoss
  <1>20. CASE Cleanup
    <2>1. UNCHANGED <<default, current, kernel, orphan, repository, process>>
      BY <1>20 DEF Cleanup, booted
    <2>2. PICK n \in Snapshots \ {First, current, default} : disk' = [disk EXCEPT ![n] = Nothing]
      BY <1>20 DEF Cleanup
    <2>3. disk'[current] = disk[current]
      BY <2>2 DEF TypeOK
    <2>4. process.made \in Subvolumes
      BY <1>w DEF Process
    <2>5. disk'[process.made] \in {Nothing, disk[process.made]}
      BY <2>2, <2>4 DEF TypeOK
    <2> QED BY <2>1, <2>3, <2>5 DEF Observed, IsUpdated, Copy
  <1> QED BY <1>u, <1>s, <1>1, <1>2, <1>3, <1>4, <1>5, <1>6, <1>7, <1>8, <1>9, <1>10, <1>11,
             <1>12, <1>13, <1>14, <1>15, <1>16, <1>17, <1>18, <1>19, <1>20
          DEF Next, CommandStep

-----------------------------------------------------------------------------
(* The default root once a rollback was recorded.                          *)
Done == {"rollback-prepared", "rollback-verified"}

LEMMA PreparedInit == Init => Prepared
  BY DEF Init, Prepared, At, NoProcess, NewWorkflow

LEMMA PreparedStep == TypeOK /\ Control /\ Observed /\ Prepared /\ [Next]_vars => Prepared'
  <1> SUFFICES ASSUME TypeOK, Control, Observed, Prepared, [Next]_vars PROVE Prepared'
    OBVIOUS
  <1> USE DEF At
  <1>w. /\ workflow \in Workflow /\ process \in Process
        /\ default \in Subvolumes /\ workflow.rollback \in Subvolumes
    BY DEF TypeOK, Workflow
  <1>c. process.at = "idle" <=> process.command = "none"
    BY DEF Control
  <1>k. process.at = "recordRollback" => process.command = "prepare-rollback"
    BY DEF Control
  <1>o. orphan \/ process.at = "zypper" =>
          workflow.phase \notin Done /\ process.at # "recordRollback"
    BY DEF Control, UpdateSteps, Done
  <1>u. CASE UNCHANGED vars
    BY <1>u DEF vars, machine, booted, Prepared, Copy
  <1>x. ASSUME workflow'.phase \notin Done, process'.at # "recordRollback" PROVE Prepared'
    BY <1>x DEF Prepared, Done
  (* Nothing on the machine changes and the phase was that far already.    *)
  <1>m. ASSUME UNCHANGED machine, UNCHANGED workflow \/ workflow'.rollback = workflow.rollback,
               workflow.phase \in Done \/ process.at = "recordRollback"
        PROVE  Prepared'
    <2>1. UNCHANGED <<disk, default, current, kernel>> /\ workflow'.rollback = workflow.rollback
      BY <1>m DEF machine, booted
    <2> QED BY <1>m, <2>1 DEF Prepared, Done, Copy
  <1>y. ASSUME UNCHANGED machine, UNCHANGED workflow, process'.at # "recordRollback"
        PROVE  Prepared'
    BY <1>y, <1>m, <1>x
  <1>r. ASSUME NEW status, Stop(status) PROVE process'.at = "reporting"
    BY <1>r, <1>w, ProcessFields DEF Stop
  <1>f. ASSUME Fail PROVE Prepared'
    <2>1. workflow'.phase = "update-failed"
      BY <1>f, <1>w DEF Fail, Enter, Workflow
    <2> QED BY <1>f, <1>r, <1>x, <2>1 DEF Fail, Done
  <1>s. ASSUME NEW c \in Commands, Start(c) PROVE Prepared'
    <2>1. process'.at = FirstStep(c) /\ UNCHANGED machine
      BY <1>s DEF Start, NoProcess
    <2>2. workflow'.phase = "update-started" \/ UNCHANGED workflow
      BY <1>s, <1>w DEF Start, Enter, Workflow
    <2>3. process'.at # "recordRollback"
      BY <2>1 DEF FirstStep
    <2> QED BY <2>1, <2>2, <2>3, <1>x, <1>y DEF Done
  <1>1. CASE RunChecks
    <2>1. process'.at = "facts"
      BY <1>1, <1>w DEF RunChecks, Process
    <2> QED BY <1>1, <2>1, <1>y DEF RunChecks
  <1>2. CASE CollectFacts
    <2>1. process'.at = "deciding"
      BY <1>2, <1>w DEF CollectFacts, Process
    <2> QED BY <1>2, <2>1, <1>y DEF CollectFacts
  <1>3. CASE DecideBaseline
    <2>1. process'.at = "reporting" /\ UNCHANGED machine
      BY <1>3, <1>r DEF DecideBaseline
    <2>2. UNCHANGED workflow \/ workflow'.phase \notin Done
      BY <1>3 DEF DecideBaseline, NewWorkflow, Done
    <2> QED BY <2>1, <2>2, <1>x, <1>y
  <1>4. CASE DecideUpdated
    <2>1. process'.at = "reporting"
      BY <1>4, <1>r DEF DecideUpdated
    <2>2. workflow'.phase \notin Done
      BY <1>4, <1>w DEF DecideUpdated, Workflow, Done
    <2> QED BY <2>1, <2>2, <1>x
  <1>5. CASE DecideVerifiedUpdate
    <2>1. process'.at = "reporting" /\ UNCHANGED machine
      BY <1>5, <1>r DEF DecideVerifiedUpdate
    <2>2. UNCHANGED workflow \/ workflow'.phase \notin Done
      BY <1>5, <1>w DEF DecideVerifiedUpdate, Workflow, Done
    <2> QED BY <2>1, <2>2, <1>x, <1>y
  <1>6. CASE DecideRollback
    <2>1. UNCHANGED machine /\ workflow'.rollback = workflow.rollback
      BY <1>6, <1>w DEF DecideRollback, Enter, Workflow
    <2>2. workflow.phase \in Done
      BY <1>6 DEF DecideRollback, Deciding, Control, AuditSteps, Done
    <2> QED BY <2>1, <2>2, <1>m
  <1>7. CASE CreateSnapshot
    <2>1. process.at \in {"pre", "post"}
      BY <1>7 DEF CreateSnapshot
    <2>2. CASE Fail
      BY <2>2, <1>f
    <2>3. CASE ~Fail
      <3>1. UNCHANGED workflow /\ process'.at # "recordRollback"
        BY <1>7, <2>3, <1>w DEF CreateSnapshot, Process
      <3>2. workflow.phase \notin Done
        BY <2>1 DEF Control, Done
      <3> QED BY <3>1, <3>2, <1>x
    <2> QED BY <2>2, <2>3
  <1>8. CASE RecordPre
    <2>1. workflow'.phase = "update-running" /\ process'.at = "refresh"
      BY <1>8, <1>w, ProcessFields DEF RecordPre, Goto, Workflow
    <2> QED BY <2>1, <1>x DEF Done
  <1>9. CASE Refresh
    <2>1. CASE Fail
      BY <2>1, <1>f
    <2>2. CASE Goto("zypper") /\ UNCHANGED workflow
      <3>1. process'.at = "zypper"
        BY <2>2, <1>w, ProcessFields DEF Goto
      <3> QED BY <1>9, <2>2, <3>1, <1>y DEF Refresh
    <2> QED BY <1>9, <2>1, <2>2 DEF Refresh
  <1>10. CASE Update
    <2>1. CASE Fail
      BY <2>1, <1>f
    <2>2. CASE ~Fail
      <3>1. UNCHANGED workflow /\ process.at = "zypper"
        BY <1>10, <2>2 DEF Update
      <3>2. CASE Goto("post")
        <4>1. process'.at = "post"
          BY <3>2, <1>w, ProcessFields DEF Goto
        <4> QED BY <3>1, <4>1, <1>o, <1>x
      <3>3. CASE TryAgain
        <4>1. process'.at = "zypper"
          BY <3>1, <3>3, <1>w DEF TryAgain, Process
        <4> QED BY <3>1, <4>1, <1>o, <1>x
      <3> QED BY <1>10, <2>2, <3>2, <3>3 DEF Update
    <2> QED BY <2>1, <2>2
  <1>11. CASE RunRollback
    <2>1. UNCHANGED <<current, kernel, workflow>> /\ process.at = "rollback"
      BY <1>11 DEF RunRollback, booted
    <2>2. CASE Stop("failed")
      <3>1. workflow.phase = "updated-verified"
        BY <2>1 DEF Control
      <3> QED BY <2>1, <2>2, <3>1, <1>r, <1>x DEF Done
    <2>3. CASE RolledBack
      <3>1. /\ disk[default'] = Nothing /\ disk'[default'] = Copy(workflow.rollback, FALSE,
                                                                workflow.rollback)
            /\ disk'[workflow.rollback] = disk[workflow.rollback]
            /\ disk[workflow.rollback] \in Content
        BY <2>3, <1>w, RollbackStep DEF Kept, TypeOK
      <3>2. default' # current
        BY <3>1 DEF TypeOK
      <3>3. /\ disk'[default'].origin = workflow.rollback
            /\ ~disk'[default'].readOnly
        BY <3>1, ContentFields DEF Copy
      <3>4. disk'[default'] = Copy(workflow.rollback, FALSE, workflow.rollback)'
        BY <2>1, <3>1 DEF Copy
      <3> QED BY <2>1, <3>2, <3>3, <3>4 DEF Prepared
    <2> QED BY <1>11, <2>2, <2>3 DEF RunRollback
  <1>12. CASE RecordRollback
    <2>1. UNCHANGED machine /\ workflow'.rollback = workflow.rollback
      BY <1>12, <1>w DEF RecordRollback, Enter, Workflow
    <2> QED BY <1>12, <2>1, <1>m DEF RecordRollback
  <1>13. CASE WriteFails
    BY <1>13, <1>r, <1>y DEF WriteFails
  <1>14. CASE Report
    BY <1>14, <1>y DEF Report, NoProcess
  <1>15. CASE Kill
    <2>1. UNCHANGED <<disk, default, current, kernel, workflow>> /\ process'.at = "idle"
      BY <1>15 DEF Kill, booted, NoProcess
    <2> QED BY <2>1 DEF Prepared, Copy
  <1>16. CASE OrphanEnds
    BY <1>16, <1>o, <1>x DEF OrphanEnds
  <1>b. ASSUME NEW n, BootInto(n), UNCHANGED <<disk, default, workflow>>,
               process'.at # "recordRollback"
        PROVE  Prepared'
    BY <1>b DEF BootInto, Prepared, Copy
  <1>17. CASE Reboot
    BY <1>17, <1>b, <1>c DEF Reboot
  <1>18. CASE BootSnapshot
    BY <1>18, <1>b, <1>c DEF BootSnapshot
  <1>19. CASE PowerLoss
    <2>1. process'.at = "idle" /\ UNCHANGED <<default, workflow>>
      BY <1>19 DEF PowerLoss, NoProcess
    <2>2. CASE UNCHANGED disk
      BY <1>19, <2>1, <2>2, <1>b DEF PowerLoss
    <2>3. CASE orphan \/ process.at = "zypper"
      BY <2>1, <2>3, <1>o, <1>x
    <2> QED BY <1>19, <2>2, <2>3 DEF PowerLoss
  <1>20. CASE Cleanup
    <2>1. UNCHANGED <<default, current, kernel, workflow, process>>
      BY <1>20 DEF Cleanup, booted
    <2>2. PICK n \in Snapshots \ {First, current, default} : disk' = [disk EXCEPT ![n] = Nothing]
      BY <1>20 DEF Cleanup
    <2>3. disk'[default] = disk[default] /\ disk'[current] = disk[current]
      BY <2>2 DEF TypeOK
    <2>4. disk'[workflow.rollback] \in {Nothing, disk[workflow.rollback]}
      BY <2>2, <1>w DEF TypeOK
    <2> QED BY <2>1, <2>3, <2>4 DEF Prepared, Copy
  <1> QED BY <1>u, <1>s, <1>1, <1>2, <1>3, <1>4, <1>5, <1>6, <1>7, <1>8, <1>9, <1>10, <1>11,
             <1>12, <1>13, <1>14, <1>15, <1>16, <1>17, <1>18, <1>19, <1>20
          DEF Next, CommandStep

-----------------------------------------------------------------------------
(* The verdict.                                                            *)
LEMMA PassedInit == Init => Passed
  BY DEF Init, Passed, NoProcess

LEMMA PassedStep == TypeOK /\ Control /\ Observed /\ Passed /\ [Next]_vars => Passed'
  <1> SUFFICES ASSUME TypeOK, Control, Observed, Passed, [Next]_vars PROVE Passed'
    OBVIOUS
  <1> USE DEF At
  <1>w. process \in Process /\ current \in Subvolumes
    BY DEF TypeOK
  <1>c. process.at = "idle" <=> process.command = "none"
    BY DEF Control
  <1>p. process.status = "passed" =>
          process.at = "reporting" /\ ~orphan /\ process.command # "none"
    BY DEF Passed, Control
  <1>u. CASE UNCHANGED vars
    BY <1>u DEF vars, machine, booted, Passed
  <1>x. ASSUME process'.status # "passed" PROVE Passed'
    BY <1>x DEF Passed
  <1>g. ASSUME NEW step, Goto(step), process.at # "reporting" PROVE Passed'
    BY <1>g, <1>p, <1>x, <1>w, ProcessFields DEF Goto
  <1>r. ASSUME NEW status \in {"incomplete", "failed"}, Stop(status) PROVE Passed'
    BY <1>r, <1>x, <1>w, ProcessFields DEF Stop
  <1>n. ASSUME process' = NoProcess PROVE Passed'
    BY <1>n, <1>x DEF NoProcess
  <1>s. ASSUME NEW c \in Commands, Start(c) PROVE Passed'
    BY <1>s, <1>x DEF Start, NoProcess
  <1>1. CASE RunChecks
    <2>1. process.at = "checks" /\ process'.status = process.status
      BY <1>1, <1>w DEF RunChecks, Process
    <2> QED BY <2>1, <1>p, <1>x
  <1>2. CASE CollectFacts
    <2>1. process.at = "facts" /\ process'.status = process.status
      BY <1>2, <1>w DEF CollectFacts, Process
    <2> QED BY <2>1, <1>p, <1>x
  <1>3. CASE DecideBaseline
    BY <1>3, <1>r DEF DecideBaseline
  <1>4. CASE DecideUpdated
    BY <1>4, <1>r DEF DecideUpdated
  <1>5. CASE DecideVerifiedUpdate
    BY <1>5, <1>r DEF DecideVerifiedUpdate
  <1>6. CASE DecideRollback
    <2>1. CASE ~Restored
      BY <1>6, <2>1, <1>r DEF DecideRollback
    <2>2. CASE Restored
      <3>1. /\ process.at = "deciding" /\ process.command = "verify-rollback"
            /\ UNCHANGED <<disk, default, current, kernel>>
        BY <1>6 DEF DecideRollback, Deciding, machine, booted
      <3>2. process'.at = "reporting" /\ process'.command = process.command
        BY <1>6, <2>2, <1>w, ProcessFields DEF DecideRollback, Stop
      <3>3. workflow'.phase = "rollback-verified" /\ workflow'.baseline = workflow.baseline
        BY <1>6, <2>2 DEF DecideRollback, Enter, TypeOK, Workflow
      <3>4. /\ disk[current].sound /\ process.onDefault = (default = current)
            /\ process.identity = [release |-> disk[current].release, kernel |-> kernel]
        BY <2>2, <3>1 DEF Restored, Observed
      <3>5. process.identity = workflow.baseline /\ default = current
        BY <2>2, <3>4 DEF Restored
      <3> QED BY <3>1, <3>2, <3>3, <3>4, <3>5 DEF Passed
    <2> QED BY <2>1, <2>2
  <1>7. CASE CreateSnapshot
    <2>1. CASE Fail
      BY <2>1, <1>r DEF Fail
    <2>2. CASE ~Fail
      <3>1. process.at # "reporting" /\ process'.status = process.status
        BY <1>7, <2>2, <1>w DEF CreateSnapshot, Process
      <3> QED BY <3>1, <1>p, <1>x
    <2> QED BY <2>1, <2>2
  <1>8. CASE RecordPre
    BY <1>8, <1>g DEF RecordPre
  <1>9. CASE Refresh
    BY <1>9, <1>g, <1>r DEF Refresh, Fail
  <1>10. CASE Update
    <2>1. CASE TryAgain
      <3>1. process.at = "zypper" /\ process'.status = process.status
        BY <1>10, <2>1, <1>w DEF Update, TryAgain, Process
      <3> QED BY <3>1, <1>p, <1>x
    <2>2. process.at = "zypper"
      BY <1>10 DEF Update
    <2> QED BY <1>10, <2>1, <2>2, <1>g, <1>r DEF Update, Fail
  <1>11. CASE RunRollback
    BY <1>11, <1>g, <1>r DEF RunRollback
  <1>12. CASE RecordRollback
    BY <1>12, <1>r DEF RecordRollback
  <1>13. CASE WriteFails
    BY <1>13, <1>r DEF WriteFails
  <1>14. CASE Report
    BY <1>14, <1>n DEF Report
  <1>15. CASE Kill
    BY <1>15, <1>n DEF Kill
  <1>16. CASE OrphanEnds
    BY <1>16, <1>p, <1>x DEF OrphanEnds
  <1>17. CASE Reboot
    BY <1>17, <1>p, <1>x DEF Reboot
  <1>18. CASE BootSnapshot
    BY <1>18, <1>p, <1>x DEF BootSnapshot
  <1>19. CASE PowerLoss
    BY <1>19, <1>n DEF PowerLoss
  <1>20. CASE Cleanup
    <2>1. UNCHANGED <<default, current, kernel, workflow, process>>
      BY <1>20 DEF Cleanup, booted
    <2>2. PICK n \in Snapshots \ {First, current, default} : disk' = [disk EXCEPT ![n] = Nothing]
      BY <1>20 DEF Cleanup
    <2>3. disk'[current] = disk[current]
      BY <2>2 DEF TypeOK
    <2> QED BY <2>1, <2>3 DEF Passed
  <1> QED BY <1>u, <1>s, <1>1, <1>2, <1>3, <1>4, <1>5, <1>6, <1>7, <1>8, <1>9, <1>10, <1>11,
             <1>12, <1>13, <1>14, <1>15, <1>16, <1>17, <1>18, <1>19, <1>20
          DEF Next, CommandStep

LEMMA Invariance == Spec => []IInv
  <1>1. Init => IInv
    BY TypeInit, ControlInit, ObservedInit, PreparedInit, PassedInit DEF IInv
  <1>2. IInv /\ [Next]_vars => IInv'
    BY TypeStep, ControlStep, ObservedStep, PreparedStep, PassedStep DEF IInv
  <1> QED BY <1>1, <1>2, PTL DEF Spec

(* A passed exercise means that the machine runs a writable copy of the    *)
(* chosen snapshot that nothing was installed into, as its default root,   *)
(* and that it is what the baseline described: whatever was killed, failed *)
(* halfway, was rebooted or cleaned up, and however often it was restarted. *)
THEOREM VerdictIsSound == Spec => []PassedMeansRestored
  <1>1. IInv => PassedMeansRestored
    <2> SUFFICES ASSUME IInv, process.status = "passed"
                 PROVE  /\ workflow.phase = "rollback-verified"
                        /\ current = default /\ kernel = disk[current].kernel
                        /\ LET root == disk[current] target == disk[workflow.rollback] IN
                             /\ root.origin = workflow.rollback /\ ~root.readOnly /\ root.sound
                             /\ [release |-> root.release, kernel |-> root.kernel]
                                  = workflow.baseline
                             /\ target # Nothing => root = [target EXCEPT !.readOnly = FALSE,
                                                                          !.origin = root.origin]
      BY DEF PassedMeansRestored
    <2>1. /\ workflow.phase = "rollback-verified" /\ current = default /\ disk[current].sound
          /\ [release |-> disk[current].release, kernel |-> kernel] = workflow.baseline
      BY DEF IInv, Passed
    <2>2. /\ disk[default].origin = workflow.rollback /\ ~disk[default].readOnly
          /\ kernel = disk[current].kernel
          /\ disk[workflow.rollback] # Nothing =>
               disk[default] = Copy(workflow.rollback, FALSE, workflow.rollback)
      BY <2>1 DEF IInv, Prepared
    <2> QED BY <2>1, <2>2 DEF Copy
  <1> QED BY <1>1, Invariance, PTL

(* The workflow file only moves forward from where a running command left  *)
(* it; a baseline is never taken under a running zypper; and an update is  *)
(* only called done when all of it is there.                               *)
THEOREM WorkflowIsSound == Spec => WorkflowIsTruthful
  <1>1. IInv /\ [Next]_vars =>
          [ workflow' # workflow =>
             /\ (\/ workflow.phase \in {"baseline-failed", "update-failed"}
                 \/ workflow.phase \in {"update-started", "update-running"}
                      /\ process.command # "update")
                => process.command = "baseline"
             /\ workflow'.phase = "baseline" =>
                  /\ ~orphan /\ disk[current].sound
                  /\ workflow'.baseline = [release |-> disk[current].release, kernel |-> kernel]
             /\ workflow'.phase = "updated" /\ process.command = "update" =>
                  /\ disk[current] = Updated
                  /\ disk[process.made] \in
                       {Nothing, [Updated EXCEPT !.readOnly = TRUE, !.origin = process.made]} ]_vars
    <2> SUFFICES ASSUME IInv, [Next]_vars, workflow' # workflow
                 PROVE  /\ (\/ workflow.phase \in {"baseline-failed", "update-failed"}
                            \/ workflow.phase \in {"update-started", "update-running"}
                                 /\ process.command # "update")
                           => process.command = "baseline"
                        /\ workflow'.phase = "baseline" =>
                             /\ ~orphan /\ disk[current].sound
                             /\ workflow'.baseline = [release |-> disk[current].release,
                                                      kernel |-> kernel]
                        /\ workflow'.phase = "updated" /\ process.command = "update" =>
                             /\ disk[current] = Updated
                             /\ disk[process.made] \in
                                  {Nothing, [Updated EXCEPT !.readOnly = TRUE,
                                                            !.origin = process.made]}
      OBVIOUS
    <2> USE DEF At
    <2>w. workflow \in Workflow /\ process \in Process /\ disk[current] \in Content
      BY DEF IInv, TypeOK
    <2>c. Control /\ Observed
      BY DEF IInv
    <2>1. CASE DecideBaseline
      <3>1. process.at = "deciding" /\ process.command = "baseline"
        BY <2>1 DEF DecideBaseline, Deciding
      <3>2. workflow'.phase = (IF process.sane THEN "baseline" ELSE "baseline-failed")
            /\ workflow'.baseline = process.identity
        BY <2>1 DEF DecideBaseline, NewWorkflow
      <3>3. process.sane => /\ ~orphan /\ disk[current].sound
                            /\ process.identity = [release |-> disk[current].release,
                                                   kernel |-> kernel]
        BY <2>c, <3>1 DEF Observed
      <3> QED BY <3>1, <3>2, <3>3
    <2>2. CASE DecideUpdated
      <3>1. process.at = "deciding" /\ process.command = "update"
        BY <2>2 DEF DecideUpdated, Deciding
      <3>2. workflow'.phase \in {"updated", "update-failed"} /\ workflow.phase = "update-running"
        BY <2>2, <2>c, <2>w, <3>1 DEF DecideUpdated, Workflow, Control, AuditSteps
      <3>3. /\ IsUpdated(disk[current])
            /\ disk[process.made] \in {Nothing, Copy(current, TRUE, process.made)}
        BY <2>c, <3>1 DEF Observed, AuditSteps
      <3>4. disk[current] = Updated
        BY <2>w, <3>3, ContentFields DEF Updated, Installed, IsUpdated
      <3>5. Copy(current, TRUE, process.made) =
              [Updated EXCEPT !.readOnly = TRUE, !.origin = process.made]
        BY <3>4 DEF Copy
      <3> QED BY <3>1, <3>2, <3>3, <3>4, <3>5
    <2>3. CASE workflow'.phase \notin {"baseline", "updated"} /\ process.command = "update"
               /\ workflow.phase \in {"update-started", "update-running"}
      BY <2>3
    <2>4. CASE workflow'.phase \notin {"baseline", "updated"}
               /\ workflow.phase \notin {"baseline-failed", "update-failed", "update-started",
                                         "update-running"}
      BY <2>4
    <2>s. ASSUME NEW c \in Commands, Start(c)
          PROVE  workflow.phase = "baseline" /\ workflow'.phase = "update-started"
      BY <2>s, <2>w DEF Start, Accepted, Enter, Workflow
    <2>5. CASE DecideVerifiedUpdate \/ DecideRollback \/ RecordRollback
      <3>1. workflow'.phase \in {"updated-verified", "rollback-verified", "rollback-prepared"}
        BY <2>5, <2>w DEF DecideVerifiedUpdate, DecideRollback, RecordRollback, Enter, Workflow
      <3>2. workflow.phase \in {"updated", "updated-verified", "rollback-prepared",
                                "rollback-verified"}
        BY <2>5, <2>c DEF DecideVerifiedUpdate, DecideRollback, RecordRollback, Deciding, Control,
                          AuditSteps
      <3> QED BY <3>1, <3>2, <2>4
    <2>6. CASE CreateSnapshot \/ RecordPre \/ Refresh \/ Update
      <3>1. process.at \in UpdateSteps
        BY <2>6 DEF CreateSnapshot, RecordPre, Refresh, Update, UpdateSteps
      <3>2. /\ process.command = "update"
            /\ workflow.phase \in {"update-started", "update-running"}
        BY <2>c, <3>1 DEF Control, UpdateSteps
      <3>3. workflow'.phase \in {"update-failed", "update-running"}
        BY <2>6, <2>w DEF CreateSnapshot, RecordPre, Refresh, Update, Fail, Enter, Workflow
      <3> QED BY <3>2, <3>3, <2>3
    <2>7. UNCHANGED workflow \/ (\E c \in Commands : Start(c)) \/ DecideBaseline \/ DecideUpdated
          \/ DecideVerifiedUpdate \/ DecideRollback \/ RecordRollback \/ CreateSnapshot
          \/ RecordPre \/ Refresh \/ Update
      BY DEF Next, CommandStep, RunChecks, CollectFacts, RunRollback, WriteFails, Report, Kill,
             OrphanEnds, Reboot, BootSnapshot, PowerLoss, Cleanup, vars
    <2> QED BY <2>1, <2>2, <2>4, <2>5, <2>6, <2>7, <2>s
  <1> QED BY <1>1, Invariance, PTL DEF Spec, WorkflowIsTruthful
=============================================================================

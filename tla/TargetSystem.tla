----------------------------- MODULE TargetSystem -----------------------------
(***************************************************************************)
(* The installed system while it is made: from the mounted, empty target   *)
(* to the first snapshot.  One action per operation of                     *)
(* deployment_operations (deploy.rs), in the order they are listed there,  *)
(* after WriteFstab, with which plan_to_operations ends.  Any of them may  *)
(* fail, some halfway, and a cancellation stops the run between two.       *)
(***************************************************************************)
EXTENDS Naturals, Sequences, FiniteSets

CONSTANTS
  Subvolumes,      \* mount points of the plan's subvolumes, / among them
  rootMount, espMount, snapshotsMount, swapArea,
  liveuser,        \* the account of the live session
  LiveFiles,       \* LIVE_ONLY_ARTIFACTS, liveuser's sudo rule among them
  InstallerFiles,  \* the installer, its service and its polkit rule
  Images,          \* what the live image may contain
  Configs,         \* what the user may ask for
  LiveConnections  \* connections saved in the live session

(* A line of fstab; pinned when it names a subvolume.                      *)
Line(at, fs, pinned) == [at |-> at, fs |-> fs, pinned |-> pinned]
RootLines(fstab) == {l \in fstab : l.at = rootMount /\ l.fs = "btrfs"}

Empty ==
  [files |-> {}, accounts |-> {}, wheel |-> {}, passwords |-> {}, sudoers |-> FALSE,
   connections |-> {}, fstab |-> {}, settings |-> {}, zram |-> FALSE, initramfs |-> {},
   menu |-> 0, snapper |-> FALSE]

(* The live image has files of the live session and of the installer only, *)
(* knows liveuser, and brings no Btrfs root in an fstab of its own.        *)
ASSUME TargetAssumption ==
  /\ snapshotsMount \notin {rootMount, espMount, swapArea}
  /\ \A i \in Images :
       /\ DOMAIN i.root = DOMAIN Empty
       /\ i.root.files \subseteq LiveFiles \cup InstallerFiles
       /\ i.root.wheel \subseteq i.root.accounts
       /\ i.root.passwords \subseteq i.root.accounts
       /\ liveuser \in i.homes \cup i.root.accounts
       /\ \A c \in i.root.connections : c.owner # liveuser
       /\ i.ownFstab => RootLines(i.root.fstab) = {}
  /\ \A c \in LiveConnections : "owner" \in DOMAIN c

RequiredGroups == {"users", "wheel"}

(* Operations that write one setting, and what is written.                 *)
Setting ==
  [WriteMachineId |-> "machine-id", WriteTimezone |-> "timezone", WriteKeyboard |-> "keyboard",
   WriteLocale |-> "locale", WriteHostname |-> "hostname", EnableServices |-> "services",
   LowerLyraRepoPriorities |-> "priority=90",
   DisableRepositoryPackageRetention |-> "keeppackages=0"]

(* BindMount and MountVirtualFs, named by their mount point.               *)
ChrootMounts == {"proc", "sys", "dev", "run", "run/udev", "efivars"}

Files == <<"WriteFstab", "ExtractRootfs", "ConfigureSwap", "WriteMachineId", "WriteTimezone",
           "WriteKeyboard", "WriteLocale", "WriteHostname">>
Account == <<"CreateUser", "WriteSudoers">>
Chroot == <<"proc", "sys", "dev", "run", "run/udev", "efivars">>
Cleaning == <<"RemoveLiveUser", "LowerLyraRepoPriorities", "DisableRepositoryPackageRetention",
              "RemoveLiveOnlyArtifacts", "CopyNetworkConfig", "SetHardwareClock",
              "EnableServices">>
Boot == <<"WriteGrubDefaults", "GenerateGrubConfig", "InstallShimAndGrub">>
Rollback == <<"PrepareBtrfsRollback", "SnapperCreateConfig", "MountSnapshotsSubvolume">>
Snapshot == <<"SnapperCreateFirstSnapshot", "GenerateGrubConfig", "SyncAndFinish">>

(* Slip: the bootloader goes in before the live session is removed.        *)
OrderBootFirst ==
  Files \o Account \o Chroot \o <<"RunDracut">> \o Boot \o Cleaning \o Rollback
    \o <<"RegenerateInitramfsWithFstab", "RemoveTransitionalInstallerArtifacts">> \o Snapshot

(* Slip: the installer is removed after the snapshot.                      *)
OrderSnapshotFirst ==
  Files \o Account \o Chroot \o <<"RunDracut">> \o Cleaning \o Boot \o Rollback
    \o <<"RegenerateInitramfsWithFstab">> \o Snapshot
    \o <<"RemoveTransitionalInstallerArtifacts">>

(* Slip: the initramfs is made before fstab is complete.                   *)
OrderInitramfsFirst ==
  Files \o Account \o Chroot \o <<"RunDracut">> \o Cleaning \o Boot
    \o <<"RegenerateInitramfsWithFstab">> \o Rollback
    \o <<"RemoveTransitionalInstallerArtifacts">> \o Snapshot

(* Slip: grub.cfg is not generated again once the snapshot exists.         *)
OrderOneMenu ==
  Files \o Account \o Chroot \o <<"RunDracut">> \o Cleaning \o Boot \o Rollback
    \o <<"RegenerateInitramfsWithFstab", "RemoveTransitionalInstallerArtifacts",
         "SnapperCreateFirstSnapshot", "SyncAndFinish">>

Order ==
  Files \o Account \o Chroot \o <<"RunDracut">> \o Cleaning \o Boot \o Rollback
    \o <<"RegenerateInitramfsWithFstab", "RemoveTransitionalInstallerArtifacts">> \o Snapshot

VARIABLES
  image,      \* what unsquashfs will extract
  config,     \* [name, swap]
  step,       \* the operation that comes next
  status,     \* of the run: running, completed, failed, cancelled
  root,       \* the subvolume / of the target, which snapshots are taken of
  homes,      \* directories in its subvolume /home
  chroot,     \* virtual filesystems mounted for chroot
  nvram, bootloader,
  default,    \* / is the default subvolume
  snapshots   \* read-only copies of root

vars == <<image, config, step, status, root, homes, chroot, nvram, bootloader, default, snapshots>>
outside == <<homes, chroot, nvram, bootloader, default, snapshots>>

Init ==
  /\ image \in Images
  /\ config \in Configs
  /\ step = 1 /\ status = "running"
  /\ root = Empty
  /\ homes = {} /\ chroot = {}
  /\ nvram = FALSE /\ bootloader = FALSE /\ default = FALSE
  /\ snapshots = <<>>

-----------------------------------------------------------------------------
Layout ==
  {Line(m, "btrfs", TRUE) : m \in Subvolumes} \cup {Line(espMount, "vfat", FALSE)}
    \cup IF config.swap = "disk" THEN {Line(swapArea, "swap", FALSE)} ELSE {}

Turn(op) == status = "running" /\ Order[step] = op

(* Slip: the end of the sequence is not seen.                              *)
DoneUnseen ==
  /\ step' = step + 1
  /\ status' = "running"
  /\ UNCHANGED <<image, config>>

Done ==
  /\ step' = step + 1
  /\ status' = IF step = Len(Order) THEN "completed" ELSE "running"
  /\ UNCHANGED <<image, config>>

Stops(how) == status' = how /\ UNCHANGED <<image, config, step>>

WriteFstab ==
  /\ Turn("WriteFstab")
  /\ root' = [root EXCEPT !.fstab = Layout]
  /\ Done /\ UNCHANGED outside

(* unsquashfs -f: what the image contains replaces what is there.          *)
Extracted ==
  [image.root EXCEPT !.fstab = IF image.ownFstab THEN image.root.fstab ELSE root.fstab]

ExtractRootfs ==
  /\ Turn("ExtractRootfs")
  /\ root' \in {root, Extracted}
  /\ homes' = image.homes
  /\ (root' = Extracted /\ Done) \/ Stops("failed")
  /\ UNCHANGED <<chroot, nvram, bootloader, default, snapshots>>

ConfigureSwap ==
  /\ Turn("ConfigureSwap")
  /\ root' = [root EXCEPT !.zram = config.swap = "zram"]
  /\ Done /\ UNCHANGED outside

WriteSetting ==
  /\ \E op \in DOMAIN Setting :
       Turn(op) /\ root' = [root EXCEPT !.settings = @ \cup {Setting[op]}]
  /\ Done /\ UNCHANGED outside

(* The home guard, available_user_groups, and useradd's own check.         *)
AccountPossible ==
  /\ config.name \notin homes
  /\ RequiredGroups \subseteq image.groups
  /\ config.name \notin root.accounts

(* useradd, chpasswd, chown: the last two may fail after the first.        *)
CreateUser ==
  /\ Turn("CreateUser")
  /\ AccountPossible
  /\ \E password \in BOOLEAN :
       /\ root' = [root EXCEPT
                     !.accounts = @ \cup {config.name},
                     !.wheel = IF "wheel" \in image.groups THEN @ \cup {config.name} ELSE @,
                     !.passwords = IF password THEN @ \cup {config.name} ELSE @]
       /\ (password /\ Done) \/ Stops("failed")
  /\ homes' = homes \cup {config.name}
  /\ UNCHANGED <<chroot, nvram, bootloader, default, snapshots>>

WriteSudoers ==
  /\ Turn("WriteSudoers")
  /\ root' = [root EXCEPT !.sudoers = TRUE]
  /\ Done /\ UNCHANGED outside

MountForChroot ==
  /\ \E m \in ChrootMounts : Turn(m) /\ chroot' = chroot \cup {m}
  /\ Done /\ UNCHANGED <<root, homes, nvram, bootloader, default, snapshots>>

(* Plain dracut describes what is mounted: the subvolume by name.          *)
RunDracut ==
  /\ Turn("RunDracut")
  /\ root' = [root EXCEPT !.initramfs = {Line(rootMount, "btrfs", TRUE)}]
  /\ Done /\ UNCHANGED outside

RemoveLiveUser ==
  /\ Turn("RemoveLiveUser")
  /\ liveuser \in root.accounts
  /\ root' = [root EXCEPT !.accounts = @ \ {liveuser}, !.wheel = @ \ {liveuser},
                          !.passwords = @ \ {liveuser}]
  /\ homes' = homes \ {liveuser}
  /\ Done /\ UNCHANGED <<chroot, nvram, bootloader, default, snapshots>>

RemoveLiveOnlyArtifacts ==
  /\ Turn("RemoveLiveOnlyArtifacts")
  /\ root' = [root EXCEPT !.files = @ \ LiveFiles]
  /\ Done /\ UNCHANGED outside

Copied(c) == [c EXCEPT !.owner = IF @ = liveuser THEN config.name ELSE @]

(* One by one; an existing connection of that name is kept.                *)
CopyNetworkConfig ==
  /\ Turn("CopyNetworkConfig")
  /\ LET new == {c \in LiveConnections : \A d \in root.connections : d.name # c.name}
     IN  \E some \in SUBSET new :
           /\ root' = [root EXCEPT !.connections = @ \cup {Copied(c) : c \in some}]
           /\ (some = new /\ Done) \/ Stops("failed")
  /\ UNCHANGED outside

(* Neither hwclock call can fail the operation.                            *)
SetHardwareClock == Turn("SetHardwareClock") /\ Done /\ UNCHANGED <<root, outside>>

WriteGrubDefaults ==
  /\ Turn("WriteGrubDefaults")
  /\ image.theme
  /\ root' = [root EXCEPT !.settings = @ \cup {"grub"}]
  /\ Done /\ UNCHANGED outside

(* grub.cfg lists the snapshots there are.                                 *)
GenerateGrubConfig ==
  /\ Turn("GenerateGrubConfig")
  /\ root' = [root EXCEPT !.menu = Len(snapshots)]
  /\ Done /\ UNCHANGED outside

(* Without efivars the boot entry is silently missing.                     *)
InstallShimAndGrub ==
  /\ Turn("InstallShimAndGrub")
  /\ bootloader' = TRUE
  /\ nvram' = ("efivars" \in chroot)
  /\ Done /\ UNCHANGED <<root, homes, chroot, default, snapshots>>

(* Slip: the number of root lines is not checked.                          *)
OneRootAssumed(fstab) == TRUE

OneRoot(fstab) == Cardinality(RootLines(fstab)) = 1

(* strip_root_subvol_option, after the default subvolume was set.          *)
PrepareBtrfsRollback ==
  /\ Turn("PrepareBtrfsRollback")
  /\ default' = TRUE
  /\ IF OneRoot(root.fstab)
     THEN /\ root' = [root EXCEPT !.fstab =
                        (@ \ RootLines(@)) \cup {[l EXCEPT !.pinned = FALSE] : l \in RootLines(@)}]
          /\ Done
     ELSE Stops("failed") /\ UNCHANGED root
  /\ UNCHANGED <<homes, chroot, nvram, bootloader, snapshots>>

SnapperCreateConfig ==
  /\ Turn("SnapperCreateConfig")
  /\ root' = [root EXCEPT !.snapper = TRUE]
  /\ Done /\ UNCHANGED outside

(* add_snapshots_line                                                      *)
MountSnapshotsSubvolume ==
  /\ Turn("MountSnapshotsSubvolume")
  /\ root.snapper
  /\ OneRoot(root.fstab)
  /\ root' = [root EXCEPT !.fstab = {l \in @ : l.at # snapshotsMount}
                                      \cup {Line(snapshotsMount, "btrfs", TRUE)}]
  /\ Done /\ UNCHANGED outside

RegenerateInitramfsWithFstab ==
  /\ Turn("RegenerateInitramfsWithFstab")
  /\ root' = [root EXCEPT !.initramfs = root.fstab]
  /\ Done /\ UNCHANGED outside

(* rpm --erase must succeed; the files are removed whatever it did.        *)
RemoveTransitionalInstallerArtifacts ==
  /\ Turn("RemoveTransitionalInstallerArtifacts")
  /\ image.package
  /\ root' = [root EXCEPT !.files = @ \ InstallerFiles]
  /\ Done /\ UNCHANGED outside

SnapperCreateFirstSnapshot ==
  /\ Turn("SnapperCreateFirstSnapshot")
  /\ root.snapper
  /\ snapshots' = Append(snapshots, root)
  /\ Done /\ UNCHANGED <<root, homes, chroot, nvram, bootloader, default>>

SyncAndFinish == Turn("SyncAndFinish") /\ Done /\ UNCHANGED <<root, outside>>

(* A command or a write fails before it changed anything.                  *)
OperationFails ==
  /\ status = "running" /\ Order[step] # "SetHardwareClock"
  /\ Stops("failed")
  /\ UNCHANGED <<root, outside>>

Cancel == status = "running" /\ Stops("cancelled") /\ UNCHANGED <<root, outside>>

Next ==
  \/ WriteFstab \/ ExtractRootfs \/ ConfigureSwap \/ WriteSetting \/ CreateUser
  \/ WriteSudoers \/ MountForChroot \/ RunDracut \/ RemoveLiveUser
  \/ RemoveLiveOnlyArtifacts \/ CopyNetworkConfig \/ SetHardwareClock \/ WriteGrubDefaults
  \/ GenerateGrubConfig \/ InstallShimAndGrub \/ PrepareBtrfsRollback
  \/ SnapperCreateConfig \/ MountSnapshotsSubvolume \/ RegenerateInitramfsWithFstab
  \/ RemoveTransitionalInstallerArtifacts \/ SnapperCreateFirstSnapshot \/ SyncAndFinish
  \/ OperationFails \/ Cancel

Spec == Init /\ [][Next]_vars
-----------------------------------------------------------------------------
TypeOK ==
  /\ DOMAIN root = DOMAIN Empty
  /\ root.wheel \subseteq root.accounts /\ root.passwords \subseteq root.accounts
  /\ root.files \subseteq LiveFiles \cup InstallerFiles
  /\ chroot \subseteq ChrootMounts
  /\ status \in {"running", "completed", "failed", "cancelled"}
  /\ step \in 1..Len(Order) + 1
  /\ step > Len(Order) <=> status = "completed"

(* What a rollback restores holds nothing of the live session and nothing  *)
(* of the installer: neither their files nor liveuser, as an account or as *)
(* the owner of a connection (deployment_operations' ordering comments).   *)
SnapshotIsClean ==
  \A i \in DOMAIN snapshots :
    /\ snapshots[i].files = {}
    /\ liveuser \notin snapshots[i].accounts
    /\ \A c \in snapshots[i].connections : c.owner # liveuser

(* A rolled back system boots: its initramfs was made from its own fstab,  *)
(* which lets the bootloader choose the root subvolume and mounts the      *)
(* snapshots (PrepareBtrfsRollback, RegenerateInitramfsWithFstab).         *)
SnapshotIsBootable ==
  \A i \in DOMAIN snapshots :
    /\ snapshots[i].initramfs = snapshots[i].fstab
    /\ Line(rootMount, "btrfs", FALSE) \in snapshots[i].fstab
    /\ Line(snapshotsMount, "btrfs", TRUE) \in snapshots[i].fstab

(* A target that can be started, however far the run came, has no account  *)
(* without a password and none of its sudo rules.                          *)
BootableHasNoLiveUser ==
  bootloader => liveuser \notin root.accounts /\ root.files \cap LiveFiles = {}

(* fstab is that of the layout, although the image was extracted over it   *)
(* and three operations edit it; swap is configured once.                  *)
FstabMatchesLayout ==
  status = "completed" =>
    /\ root.fstab = {Line(m, "btrfs", m # rootMount) : m \in Subvolumes \cup {snapshotsMount}}
                      \cup {Line(espMount, "vfat", FALSE)}
                      \cup IF config.swap = "disk" THEN {Line(swapArea, "swap", FALSE)} ELSE {}
    /\ root.zram <=> config.swap = "zram"

(* A completed installation can be started and used: the firmware knows    *)
(* the bootloader, / is the default subvolume, the boot menu offers the    *)
(* snapshot, and the new account logs in and uses sudo with its password.  *)
CompletedIsUsable ==
  status = "completed" =>
    /\ root.menu = Len(snapshots) /\ root.menu > 0 /\ nvram /\ default
    /\ config.name \in root.accounts \cap root.wheel \cap root.passwords \cap homes
    /\ root.sudoers
=============================================================================

-------------------------- MODULE TargetSystemProofs --------------------------
(***************************************************************************)
(* Proofs about TargetSystem, for every image, configuration and layout    *)
(* that TargetAssumption allows.  The order of the operations is the       *)
(* argument: Positions says where each one stands, Untouched which parts   *)
(* of the target only operations at certain positions change, and the      *)
(* invariant what holds of each part once the run has passed them.         *)
(***************************************************************************)
EXTENDS TargetSystem, FiniteSetTheorems, TLAPS

(* Where each operation stands.                                            *)
LEMMA Positions ==
  ASSUME NEW i \in 1..Len(Order)
  PROVE  /\ Len(Order) = 35
         /\ Order[i] = "WriteFstab" => i = 1
         /\ Order[i] = "ExtractRootfs" => i = 2
         /\ Order[i] = "ConfigureSwap" => i = 3
         /\ Order[i] \in DOMAIN Setting => i \in (4..8) \cup {19, 20, 24}
         /\ Order[i] = "CreateUser" => i = 9
         /\ Order[i] = "WriteSudoers" => i = 10
         /\ Order[i] \in ChrootMounts => i \in 11..16
         /\ Order[i] = "RunDracut" => i = 17
         /\ Order[i] = "RemoveLiveUser" => i = 18
         /\ Order[i] = "RemoveLiveOnlyArtifacts" => i = 21
         /\ Order[i] = "CopyNetworkConfig" => i = 22
         /\ Order[i] = "SetHardwareClock" => i = 23
         /\ Order[i] = "WriteGrubDefaults" => i = 25
         /\ Order[i] = "GenerateGrubConfig" => i \in {26, 34}
         /\ Order[i] = "InstallShimAndGrub" => i = 27
         /\ Order[i] = "PrepareBtrfsRollback" => i = 28
         /\ Order[i] = "SnapperCreateConfig" => i = 29
         /\ Order[i] = "MountSnapshotsSubvolume" => i = 30
         /\ Order[i] = "RegenerateInitramfsWithFstab" => i = 31
         /\ Order[i] = "RemoveTransitionalInstallerArtifacts" => i = 32
         /\ Order[i] = "SnapperCreateFirstSnapshot" => i = 33
         /\ Order[i] = "SyncAndFinish" => i = 35
         /\ Order[16] = "efivars"
  BY DEF Order, Files, Account, Chroot, Cleaning, Boot, Rollback, Snapshot, Setting, ChrootMounts

LEMMA Length == Len(Order) = 35
  BY DEF Order, Files, Account, Chroot, Cleaning, Boot, Rollback, Snapshot

(* A step of the run, an operation's stop, and one that changes nothing.   *)
Advances ==
  /\ step' = step + 1
  /\ status' = "completed" <=> step = 35
  /\ status' \in {"running", "completed"}

Stays == step' = step /\ step # 36 /\ status' \in {"failed", "cancelled"}

Quiet == UNCHANGED <<image, config, step, root, outside>>

(* The image is one of those the assumption is about.                      *)
Chosen == image \in Images

(* What each operation leaves alone, by the positions that do not.         *)
LEMMA Untouched ==
  ASSUME TypeOK, Chosen, [Next]_vars
  PROVE  /\ UNCHANGED <<image, config>> /\ DOMAIN root' = DOMAIN Empty
         /\ step \in 1..36 /\ step' \in 1..36 /\ step' \in {step, step + 1}
         /\ step' = 36 <=> status' = "completed"
         /\ status' \in {"running", "completed", "failed", "cancelled"}
         /\ step \notin {2, 9, 18} =>
              /\ root'.accounts = root.accounts /\ root'.wheel = root.wheel
              /\ root'.passwords = root.passwords /\ homes' = homes
         /\ step \notin {2, 21, 32} => root'.files = root.files
         /\ step \notin {2, 22} => root'.connections = root.connections
         /\ step # 27 => UNCHANGED <<bootloader, nvram>>
         /\ step \notin {1, 2, 28, 30} => root'.fstab = root.fstab
         /\ step \notin {2, 17, 31} => root'.initramfs = root.initramfs
         /\ step \notin {2, 3} => root'.zram = root.zram
         /\ step \notin {2, 10} => root'.sudoers = root.sudoers
         /\ step \notin {2, 26, 34} => root'.menu = root.menu
         /\ step \notin 11..16 => chroot' = chroot
         /\ step # 28 => default' = default
         /\ step # 33 => snapshots' = snapshots
<1> USE DEF Chosen
<1>0. /\ step \in 1..36 /\ (step = 36 <=> status = "completed")
      /\ status = "running" => step \in 1..Len(Order)
  BY Length DEF TypeOK
<1>1. CASE WriteFstab
  <2>1. step = 1 /\ status = "running"
    BY <1>1, <1>0, Positions DEF WriteFstab, Turn
  <2>2. UNCHANGED <<image, config, homes, chroot, nvram, bootloader, default,
        snapshots>>
    BY <1>1 DEF WriteFstab, Done, Stops, outside
  <2>3. /\ DOMAIN root' = DOMAIN Empty
        /\ \A part \in DOMAIN Empty \ {"fstab"} : root'[part] = root[part]
    BY <1>1 DEF WriteFstab, TypeOK
  <2>4. Advances \/ Stays
    BY <1>1, <1>0, <2>1, Length DEF WriteFstab, Done, Stops, Advances, Stays
  <2>5. /\ step \in 1..36 /\ step' \in 1..36 /\ step' \in {step, step + 1}
        /\ step' = 36 <=> status' = "completed"
        /\ status' \in {"running", "completed", "failed", "cancelled"}
    BY <1>0, <2>1, <2>4 DEF Advances, Stays
  <2> QED BY <2>1, <2>2, <2>3, <2>5 DEF Empty
<1>2. CASE ExtractRootfs
  <2>1. step = 2 /\ status = "running"
    BY <1>2, <1>0, Positions DEF ExtractRootfs, Turn
  <2>2. UNCHANGED <<image, config, chroot, nvram, bootloader, default,
        snapshots>>
    BY <1>2 DEF ExtractRootfs, Done, Stops, outside
  <2>3. DOMAIN root' = DOMAIN Empty
    BY <1>2, TargetAssumption DEF ExtractRootfs, Extracted, TypeOK
  <2>4. Advances \/ Stays
    BY <1>2, <1>0, <2>1, Length DEF ExtractRootfs, Done, Stops, Advances, Stays
  <2>5. /\ step \in 1..36 /\ step' \in 1..36 /\ step' \in {step, step + 1}
        /\ step' = 36 <=> status' = "completed"
        /\ status' \in {"running", "completed", "failed", "cancelled"}
    BY <1>0, <2>1, <2>4 DEF Advances, Stays
  <2> QED BY <2>1, <2>2, <2>3, <2>5 DEF Empty
<1>3. CASE ConfigureSwap
  <2>1. step = 3 /\ status = "running"
    BY <1>3, <1>0, Positions DEF ConfigureSwap, Turn
  <2>2. UNCHANGED <<image, config, homes, chroot, nvram, bootloader, default,
        snapshots>>
    BY <1>3 DEF ConfigureSwap, Done, Stops, outside
  <2>3. /\ DOMAIN root' = DOMAIN Empty
        /\ \A part \in DOMAIN Empty \ {"zram"} : root'[part] = root[part]
    BY <1>3 DEF ConfigureSwap, TypeOK
  <2>4. Advances \/ Stays
    BY <1>3, <1>0, <2>1, Length DEF ConfigureSwap, Done, Stops, Advances, Stays
  <2>5. /\ step \in 1..36 /\ step' \in 1..36 /\ step' \in {step, step + 1}
        /\ step' = 36 <=> status' = "completed"
        /\ status' \in {"running", "completed", "failed", "cancelled"}
    BY <1>0, <2>1, <2>4 DEF Advances, Stays
  <2> QED BY <2>1, <2>2, <2>3, <2>5 DEF Empty
<1>4. CASE WriteSetting
  <2>1. step \in {4, 5, 6, 7, 8, 19, 20, 24} /\ status = "running"
    BY <1>4, <1>0, Positions DEF WriteSetting, Turn
  <2>2. UNCHANGED <<image, config, homes, chroot, nvram, bootloader, default,
        snapshots>>
    BY <1>4 DEF WriteSetting, Done, Stops, outside
  <2>3. /\ DOMAIN root' = DOMAIN Empty
        /\ \A part \in DOMAIN Empty \ {"settings"} : root'[part] = root[part]
    BY <1>4 DEF WriteSetting, TypeOK
  <2>4. Advances \/ Stays
    BY <1>4, <1>0, <2>1, Length DEF WriteSetting, Done, Stops, Advances, Stays
  <2>5. /\ step \in 1..36 /\ step' \in 1..36 /\ step' \in {step, step + 1}
        /\ step' = 36 <=> status' = "completed"
        /\ status' \in {"running", "completed", "failed", "cancelled"}
    <3>1. step \in 1..34 BY <2>1
    <3>2. CASE Advances BY <3>1, <3>2 DEF Advances
    <3>3. CASE Stays BY <1>0, <3>3 DEF Stays
    <3> QED BY <2>4, <3>2, <3>3
  <2> QED BY <2>1, <2>2, <2>3, <2>5 DEF Empty
<1>5. CASE CreateUser
  <2>1. step = 9 /\ status = "running"
    BY <1>5, <1>0, Positions DEF CreateUser, Turn
  <2>2. UNCHANGED <<image, config, chroot, nvram, bootloader, default,
        snapshots>>
    BY <1>5 DEF CreateUser, Done, Stops, outside
  <2>3. /\ DOMAIN root' = DOMAIN Empty
        /\ \A part \in DOMAIN Empty \ {"accounts", "wheel", "passwords"} : root'[part] = root[part]
    BY <1>5 DEF CreateUser, TypeOK
  <2>4. Advances \/ Stays
    BY <1>5, <1>0, <2>1, Length DEF CreateUser, Done, Stops, Advances, Stays
  <2>5. /\ step \in 1..36 /\ step' \in 1..36 /\ step' \in {step, step + 1}
        /\ step' = 36 <=> status' = "completed"
        /\ status' \in {"running", "completed", "failed", "cancelled"}
    BY <1>0, <2>1, <2>4 DEF Advances, Stays
  <2> QED BY <2>1, <2>2, <2>3, <2>5 DEF Empty
<1>6. CASE WriteSudoers
  <2>1. step = 10 /\ status = "running"
    BY <1>6, <1>0, Positions DEF WriteSudoers, Turn
  <2>2. UNCHANGED <<image, config, homes, chroot, nvram, bootloader, default,
        snapshots>>
    BY <1>6 DEF WriteSudoers, Done, Stops, outside
  <2>3. /\ DOMAIN root' = DOMAIN Empty
        /\ \A part \in DOMAIN Empty \ {"sudoers"} : root'[part] = root[part]
    BY <1>6 DEF WriteSudoers, TypeOK
  <2>4. Advances \/ Stays
    BY <1>6, <1>0, <2>1, Length DEF WriteSudoers, Done, Stops, Advances, Stays
  <2>5. /\ step \in 1..36 /\ step' \in 1..36 /\ step' \in {step, step + 1}
        /\ step' = 36 <=> status' = "completed"
        /\ status' \in {"running", "completed", "failed", "cancelled"}
    BY <1>0, <2>1, <2>4 DEF Advances, Stays
  <2> QED BY <2>1, <2>2, <2>3, <2>5 DEF Empty
<1>7. CASE MountForChroot
  <2>1. step \in 11..16 /\ status = "running"
    BY <1>7, <1>0, Positions DEF MountForChroot, Turn
  <2>2. UNCHANGED <<image, config, homes, nvram, bootloader, default,
        snapshots>>
    BY <1>7 DEF MountForChroot, Done, Stops, outside
  <2>3. root' = root /\ DOMAIN root = DOMAIN Empty
    BY <1>7 DEF MountForChroot, TypeOK
  <2>4. Advances \/ Stays
    BY <1>7, <1>0, <2>1, Length DEF MountForChroot, Done, Stops, Advances, Stays
  <2>5. /\ step \in 1..36 /\ step' \in 1..36 /\ step' \in {step, step + 1}
        /\ step' = 36 <=> status' = "completed"
        /\ status' \in {"running", "completed", "failed", "cancelled"}
    <3>1. step \in 1..34 BY <2>1
    <3>2. CASE Advances BY <3>1, <3>2 DEF Advances
    <3>3. CASE Stays BY <1>0, <3>3 DEF Stays
    <3> QED BY <2>4, <3>2, <3>3
  <2> QED BY <2>1, <2>2, <2>3, <2>5 DEF Empty
<1>8. CASE RunDracut
  <2>1. step = 17 /\ status = "running"
    BY <1>8, <1>0, Positions DEF RunDracut, Turn
  <2>2. UNCHANGED <<image, config, homes, chroot, nvram, bootloader, default,
        snapshots>>
    BY <1>8 DEF RunDracut, Done, Stops, outside
  <2>3. /\ DOMAIN root' = DOMAIN Empty
        /\ \A part \in DOMAIN Empty \ {"initramfs"} : root'[part] = root[part]
    BY <1>8 DEF RunDracut, TypeOK
  <2>4. Advances \/ Stays
    BY <1>8, <1>0, <2>1, Length DEF RunDracut, Done, Stops, Advances, Stays
  <2>5. /\ step \in 1..36 /\ step' \in 1..36 /\ step' \in {step, step + 1}
        /\ step' = 36 <=> status' = "completed"
        /\ status' \in {"running", "completed", "failed", "cancelled"}
    BY <1>0, <2>1, <2>4 DEF Advances, Stays
  <2> QED BY <2>1, <2>2, <2>3, <2>5 DEF Empty
<1>9. CASE RemoveLiveUser
  <2>1. step = 18 /\ status = "running"
    BY <1>9, <1>0, Positions DEF RemoveLiveUser, Turn
  <2>2. UNCHANGED <<image, config, chroot, nvram, bootloader, default,
        snapshots>>
    BY <1>9 DEF RemoveLiveUser, Done, Stops, outside
  <2>3. /\ DOMAIN root' = DOMAIN Empty
        /\ \A part \in DOMAIN Empty \ {"accounts", "wheel", "passwords"} : root'[part] = root[part]
    BY <1>9 DEF RemoveLiveUser, TypeOK
  <2>4. Advances \/ Stays
    BY <1>9, <1>0, <2>1, Length DEF RemoveLiveUser, Done, Stops, Advances, Stays
  <2>5. /\ step \in 1..36 /\ step' \in 1..36 /\ step' \in {step, step + 1}
        /\ step' = 36 <=> status' = "completed"
        /\ status' \in {"running", "completed", "failed", "cancelled"}
    BY <1>0, <2>1, <2>4 DEF Advances, Stays
  <2> QED BY <2>1, <2>2, <2>3, <2>5 DEF Empty
<1>10. CASE RemoveLiveOnlyArtifacts
  <2>1. step = 21 /\ status = "running"
    BY <1>10, <1>0, Positions DEF RemoveLiveOnlyArtifacts, Turn
  <2>2. UNCHANGED <<image, config, homes, chroot, nvram, bootloader, default,
        snapshots>>
    BY <1>10 DEF RemoveLiveOnlyArtifacts, Done, Stops, outside
  <2>3. /\ DOMAIN root' = DOMAIN Empty
        /\ \A part \in DOMAIN Empty \ {"files"} : root'[part] = root[part]
    BY <1>10 DEF RemoveLiveOnlyArtifacts, TypeOK
  <2>4. Advances \/ Stays
    BY <1>10, <1>0, <2>1, Length DEF RemoveLiveOnlyArtifacts, Done, Stops, Advances, Stays
  <2>5. /\ step \in 1..36 /\ step' \in 1..36 /\ step' \in {step, step + 1}
        /\ step' = 36 <=> status' = "completed"
        /\ status' \in {"running", "completed", "failed", "cancelled"}
    BY <1>0, <2>1, <2>4 DEF Advances, Stays
  <2> QED BY <2>1, <2>2, <2>3, <2>5 DEF Empty
<1>11. CASE CopyNetworkConfig
  <2>1. step = 22 /\ status = "running"
    BY <1>11, <1>0, Positions DEF CopyNetworkConfig, Turn
  <2>2. UNCHANGED <<image, config, homes, chroot, nvram, bootloader, default,
        snapshots>>
    BY <1>11 DEF CopyNetworkConfig, Done, Stops, outside
  <2>3. /\ DOMAIN root' = DOMAIN Empty
        /\ \A part \in DOMAIN Empty \ {"connections"} : root'[part] = root[part]
    BY <1>11 DEF CopyNetworkConfig, TypeOK
  <2>4. Advances \/ Stays
    BY <1>11, <1>0, <2>1, Length DEF CopyNetworkConfig, Done, Stops, Advances, Stays
  <2>5. /\ step \in 1..36 /\ step' \in 1..36 /\ step' \in {step, step + 1}
        /\ step' = 36 <=> status' = "completed"
        /\ status' \in {"running", "completed", "failed", "cancelled"}
    BY <1>0, <2>1, <2>4 DEF Advances, Stays
  <2> QED BY <2>1, <2>2, <2>3, <2>5 DEF Empty
<1>12. CASE SetHardwareClock
  <2>1. step = 23 /\ status = "running"
    BY <1>12, <1>0, Positions DEF SetHardwareClock, Turn
  <2>2. UNCHANGED <<image, config, homes, chroot, nvram, bootloader, default,
        snapshots>>
    BY <1>12 DEF SetHardwareClock, Done, Stops, outside
  <2>3. root' = root /\ DOMAIN root = DOMAIN Empty
    BY <1>12 DEF SetHardwareClock, TypeOK
  <2>4. Advances \/ Stays
    BY <1>12, <1>0, <2>1, Length DEF SetHardwareClock, Done, Stops, Advances, Stays
  <2>5. /\ step \in 1..36 /\ step' \in 1..36 /\ step' \in {step, step + 1}
        /\ step' = 36 <=> status' = "completed"
        /\ status' \in {"running", "completed", "failed", "cancelled"}
    BY <1>0, <2>1, <2>4 DEF Advances, Stays
  <2> QED BY <2>1, <2>2, <2>3, <2>5 DEF Empty
<1>13. CASE WriteGrubDefaults
  <2>1. step = 25 /\ status = "running"
    BY <1>13, <1>0, Positions DEF WriteGrubDefaults, Turn
  <2>2. UNCHANGED <<image, config, homes, chroot, nvram, bootloader, default,
        snapshots>>
    BY <1>13 DEF WriteGrubDefaults, Done, Stops, outside
  <2>3. /\ DOMAIN root' = DOMAIN Empty
        /\ \A part \in DOMAIN Empty \ {"settings"} : root'[part] = root[part]
    BY <1>13 DEF WriteGrubDefaults, TypeOK
  <2>4. Advances \/ Stays
    BY <1>13, <1>0, <2>1, Length DEF WriteGrubDefaults, Done, Stops, Advances, Stays
  <2>5. /\ step \in 1..36 /\ step' \in 1..36 /\ step' \in {step, step + 1}
        /\ step' = 36 <=> status' = "completed"
        /\ status' \in {"running", "completed", "failed", "cancelled"}
    BY <1>0, <2>1, <2>4 DEF Advances, Stays
  <2> QED BY <2>1, <2>2, <2>3, <2>5 DEF Empty
<1>14. CASE GenerateGrubConfig
  <2>1. step \in {26, 34} /\ status = "running"
    BY <1>14, <1>0, Positions DEF GenerateGrubConfig, Turn
  <2>2. UNCHANGED <<image, config, homes, chroot, nvram, bootloader, default,
        snapshots>>
    BY <1>14 DEF GenerateGrubConfig, Done, Stops, outside
  <2>3. /\ DOMAIN root' = DOMAIN Empty
        /\ \A part \in DOMAIN Empty \ {"menu"} : root'[part] = root[part]
    BY <1>14 DEF GenerateGrubConfig, TypeOK
  <2>4. Advances \/ Stays
    BY <1>14, <1>0, <2>1, Length DEF GenerateGrubConfig, Done, Stops, Advances, Stays
  <2>5. /\ step \in 1..36 /\ step' \in 1..36 /\ step' \in {step, step + 1}
        /\ step' = 36 <=> status' = "completed"
        /\ status' \in {"running", "completed", "failed", "cancelled"}
    BY <1>0, <2>1, <2>4 DEF Advances, Stays
  <2> QED BY <2>1, <2>2, <2>3, <2>5 DEF Empty
<1>15. CASE InstallShimAndGrub
  <2>1. step = 27 /\ status = "running"
    BY <1>15, <1>0, Positions DEF InstallShimAndGrub, Turn
  <2>2. UNCHANGED <<image, config, homes, chroot, default, snapshots>>
    BY <1>15 DEF InstallShimAndGrub, Done, Stops, outside
  <2>3. root' = root /\ DOMAIN root = DOMAIN Empty
    BY <1>15 DEF InstallShimAndGrub, TypeOK
  <2>4. Advances \/ Stays
    BY <1>15, <1>0, <2>1, Length DEF InstallShimAndGrub, Done, Stops, Advances, Stays
  <2>5. /\ step \in 1..36 /\ step' \in 1..36 /\ step' \in {step, step + 1}
        /\ step' = 36 <=> status' = "completed"
        /\ status' \in {"running", "completed", "failed", "cancelled"}
    BY <1>0, <2>1, <2>4 DEF Advances, Stays
  <2> QED BY <2>1, <2>2, <2>3, <2>5 DEF Empty
<1>16. CASE PrepareBtrfsRollback
  <2>1. step = 28 /\ status = "running"
    BY <1>16, <1>0, Positions DEF PrepareBtrfsRollback, Turn
  <2>2. UNCHANGED <<image, config, homes, chroot, nvram, bootloader,
        snapshots>>
    BY <1>16 DEF PrepareBtrfsRollback, Done, Stops, outside
  <2>3. /\ DOMAIN root' = DOMAIN Empty
        /\ \A part \in DOMAIN Empty \ {"fstab"} : root'[part] = root[part]
    BY <1>16 DEF PrepareBtrfsRollback, TypeOK
  <2>4. Advances \/ Stays
    BY <1>16, <1>0, <2>1, Length DEF PrepareBtrfsRollback, Done, Stops, Advances, Stays
  <2>5. /\ step \in 1..36 /\ step' \in 1..36 /\ step' \in {step, step + 1}
        /\ step' = 36 <=> status' = "completed"
        /\ status' \in {"running", "completed", "failed", "cancelled"}
    BY <1>0, <2>1, <2>4 DEF Advances, Stays
  <2> QED BY <2>1, <2>2, <2>3, <2>5 DEF Empty
<1>17. CASE SnapperCreateConfig
  <2>1. step = 29 /\ status = "running"
    BY <1>17, <1>0, Positions DEF SnapperCreateConfig, Turn
  <2>2. UNCHANGED <<image, config, homes, chroot, nvram, bootloader, default,
        snapshots>>
    BY <1>17 DEF SnapperCreateConfig, Done, Stops, outside
  <2>3. /\ DOMAIN root' = DOMAIN Empty
        /\ \A part \in DOMAIN Empty \ {"snapper"} : root'[part] = root[part]
    BY <1>17 DEF SnapperCreateConfig, TypeOK
  <2>4. Advances \/ Stays
    BY <1>17, <1>0, <2>1, Length DEF SnapperCreateConfig, Done, Stops, Advances, Stays
  <2>5. /\ step \in 1..36 /\ step' \in 1..36 /\ step' \in {step, step + 1}
        /\ step' = 36 <=> status' = "completed"
        /\ status' \in {"running", "completed", "failed", "cancelled"}
    BY <1>0, <2>1, <2>4 DEF Advances, Stays
  <2> QED BY <2>1, <2>2, <2>3, <2>5 DEF Empty
<1>18. CASE MountSnapshotsSubvolume
  <2>1. step = 30 /\ status = "running"
    BY <1>18, <1>0, Positions DEF MountSnapshotsSubvolume, Turn
  <2>2. UNCHANGED <<image, config, homes, chroot, nvram, bootloader, default,
        snapshots>>
    BY <1>18 DEF MountSnapshotsSubvolume, Done, Stops, outside
  <2>3. /\ DOMAIN root' = DOMAIN Empty
        /\ \A part \in DOMAIN Empty \ {"fstab"} : root'[part] = root[part]
    BY <1>18 DEF MountSnapshotsSubvolume, TypeOK
  <2>4. Advances \/ Stays
    BY <1>18, <1>0, <2>1, Length DEF MountSnapshotsSubvolume, Done, Stops, Advances, Stays
  <2>5. /\ step \in 1..36 /\ step' \in 1..36 /\ step' \in {step, step + 1}
        /\ step' = 36 <=> status' = "completed"
        /\ status' \in {"running", "completed", "failed", "cancelled"}
    BY <1>0, <2>1, <2>4 DEF Advances, Stays
  <2> QED BY <2>1, <2>2, <2>3, <2>5 DEF Empty
<1>19. CASE RegenerateInitramfsWithFstab
  <2>1. step = 31 /\ status = "running"
    BY <1>19, <1>0, Positions DEF RegenerateInitramfsWithFstab, Turn
  <2>2. UNCHANGED <<image, config, homes, chroot, nvram, bootloader, default,
        snapshots>>
    BY <1>19 DEF RegenerateInitramfsWithFstab, Done, Stops, outside
  <2>3. /\ DOMAIN root' = DOMAIN Empty
        /\ \A part \in DOMAIN Empty \ {"initramfs"} : root'[part] = root[part]
    BY <1>19 DEF RegenerateInitramfsWithFstab, TypeOK
  <2>4. Advances \/ Stays
    BY <1>19, <1>0, <2>1, Length DEF RegenerateInitramfsWithFstab, Done, Stops, Advances, Stays
  <2>5. /\ step \in 1..36 /\ step' \in 1..36 /\ step' \in {step, step + 1}
        /\ step' = 36 <=> status' = "completed"
        /\ status' \in {"running", "completed", "failed", "cancelled"}
    BY <1>0, <2>1, <2>4 DEF Advances, Stays
  <2> QED BY <2>1, <2>2, <2>3, <2>5 DEF Empty
<1>20. CASE RemoveTransitionalInstallerArtifacts
  <2>1. step = 32 /\ status = "running"
    BY <1>20, <1>0, Positions DEF RemoveTransitionalInstallerArtifacts, Turn
  <2>2. UNCHANGED <<image, config, homes, chroot, nvram, bootloader, default,
        snapshots>>
    BY <1>20 DEF RemoveTransitionalInstallerArtifacts, Done, Stops, outside
  <2>3. /\ DOMAIN root' = DOMAIN Empty
        /\ \A part \in DOMAIN Empty \ {"files"} : root'[part] = root[part]
    BY <1>20 DEF RemoveTransitionalInstallerArtifacts, TypeOK
  <2>4. Advances \/ Stays
    BY <1>20, <1>0, <2>1, Length DEF RemoveTransitionalInstallerArtifacts, Done, Stops, Advances, Stays
  <2>5. /\ step \in 1..36 /\ step' \in 1..36 /\ step' \in {step, step + 1}
        /\ step' = 36 <=> status' = "completed"
        /\ status' \in {"running", "completed", "failed", "cancelled"}
    BY <1>0, <2>1, <2>4 DEF Advances, Stays
  <2> QED BY <2>1, <2>2, <2>3, <2>5 DEF Empty
<1>21. CASE SnapperCreateFirstSnapshot
  <2>1. step = 33 /\ status = "running"
    BY <1>21, <1>0, Positions DEF SnapperCreateFirstSnapshot, Turn
  <2>2. UNCHANGED <<image, config, homes, chroot, nvram, bootloader, default>>
    BY <1>21 DEF SnapperCreateFirstSnapshot, Done, Stops, outside
  <2>3. root' = root /\ DOMAIN root = DOMAIN Empty
    BY <1>21 DEF SnapperCreateFirstSnapshot, TypeOK
  <2>4. Advances \/ Stays
    BY <1>21, <1>0, <2>1, Length DEF SnapperCreateFirstSnapshot, Done, Stops, Advances, Stays
  <2>5. /\ step \in 1..36 /\ step' \in 1..36 /\ step' \in {step, step + 1}
        /\ step' = 36 <=> status' = "completed"
        /\ status' \in {"running", "completed", "failed", "cancelled"}
    BY <1>0, <2>1, <2>4 DEF Advances, Stays
  <2> QED BY <2>1, <2>2, <2>3, <2>5 DEF Empty
<1>22. CASE SyncAndFinish
  <2>1. step = 35 /\ status = "running"
    BY <1>22, <1>0, Positions DEF SyncAndFinish, Turn
  <2>2. UNCHANGED <<image, config, homes, chroot, nvram, bootloader, default,
        snapshots>>
    BY <1>22 DEF SyncAndFinish, Done, Stops, outside
  <2>3. root' = root /\ DOMAIN root = DOMAIN Empty
    BY <1>22 DEF SyncAndFinish, TypeOK
  <2>4. Advances \/ Stays
    BY <1>22, <1>0, <2>1, Length DEF SyncAndFinish, Done, Stops, Advances, Stays
  <2>5. /\ step \in 1..36 /\ step' \in 1..36 /\ step' \in {step, step + 1}
        /\ step' = 36 <=> status' = "completed"
        /\ status' \in {"running", "completed", "failed", "cancelled"}
    BY <1>0, <2>1, <2>4 DEF Advances, Stays
  <2> QED BY <2>1, <2>2, <2>3, <2>5 DEF Empty
<1>23. CASE OperationFails
  <2>1. UNCHANGED <<image, config, homes, chroot, nvram, bootloader, default,
        snapshots>>
    BY <1>23 DEF OperationFails, Done, Stops, outside
  <2>2. root' = root /\ DOMAIN root = DOMAIN Empty
    BY <1>23 DEF OperationFails, TypeOK
  <2>3. Stays
    BY <1>23, <1>0, Length DEF OperationFails, Done, Stops, Advances, Stays
  <2>4. /\ step \in 1..36 /\ step' \in 1..36 /\ step' \in {step, step + 1}
        /\ step' = 36 <=> status' = "completed"
        /\ status' \in {"running", "completed", "failed", "cancelled"}
    BY <1>0, <2>3 DEF Advances, Stays
  <2> QED BY <2>1, <2>2, <2>4 DEF Empty
<1>24. CASE Cancel
  <2>1. UNCHANGED <<image, config, homes, chroot, nvram, bootloader, default,
        snapshots>>
    BY <1>24 DEF Cancel, Done, Stops, outside
  <2>2. root' = root /\ DOMAIN root = DOMAIN Empty
    BY <1>24 DEF Cancel, TypeOK
  <2>3. Stays
    BY <1>24, <1>0, Length DEF Cancel, Done, Stops, Advances, Stays
  <2>4. /\ step \in 1..36 /\ step' \in 1..36 /\ step' \in {step, step + 1}
        /\ step' = 36 <=> status' = "completed"
        /\ status' \in {"running", "completed", "failed", "cancelled"}
    BY <1>0, <2>3 DEF Advances, Stays
  <2> QED BY <2>1, <2>2, <2>4 DEF Empty
<1>25. CASE UNCHANGED vars
  BY <1>25, <1>0 DEF vars, TypeOK
<1> QED BY <1>1, <1>2, <1>3, <1>4, <1>5, <1>6, <1>7, <1>8, <1>9, <1>10, <1>11,
      <1>12, <1>13, <1>14, <1>15, <1>16, <1>17, <1>18, <1>19, <1>20, <1>21,
      <1>22, <1>23, <1>24, <1>25 DEF Next

(* Which operation each of those positions stands for.                     *)
LEMMA Acting ==
  ASSUME TypeOK, [Next]_vars
  PROVE  /\ step = 1 => Quiet \/ WriteFstab
         /\ step = 2 => Quiet \/ ExtractRootfs
         /\ step = 3 => Quiet \/ ConfigureSwap
         /\ step = 9 => Quiet \/ CreateUser
         /\ step = 10 => Quiet \/ WriteSudoers
         /\ step \in 11..16 => Quiet \/ MountForChroot
         /\ step = 17 => Quiet \/ RunDracut
         /\ step = 18 => Quiet \/ RemoveLiveUser
         /\ step = 21 => Quiet \/ RemoveLiveOnlyArtifacts
         /\ step = 22 => Quiet \/ CopyNetworkConfig
         /\ step \in {26, 34} => Quiet \/ GenerateGrubConfig
         /\ step = 27 => Quiet \/ InstallShimAndGrub
         /\ step = 28 => Quiet \/ PrepareBtrfsRollback
         /\ step = 30 => Quiet \/ MountSnapshotsSubvolume
         /\ step = 31 => Quiet \/ RegenerateInitramfsWithFstab
         /\ step = 32 => Quiet \/ RemoveTransitionalInstallerArtifacts
         /\ step = 33 => Quiet \/ SnapperCreateFirstSnapshot
<1>0. status = "running" => step \in 1..Len(Order)
  BY Length DEF TypeOK
<1>1. WriteFstab => step = 1
  BY <1>0, Positions DEF WriteFstab, Turn
<1>2. ExtractRootfs => step = 2
  BY <1>0, Positions DEF ExtractRootfs, Turn
<1>3. ConfigureSwap => step = 3
  BY <1>0, Positions DEF ConfigureSwap, Turn
<1>4. WriteSetting => step \in {4, 5, 6, 7, 8, 19, 20, 24}
  BY <1>0, Positions DEF WriteSetting, Turn
<1>5. CreateUser => step = 9
  BY <1>0, Positions DEF CreateUser, Turn
<1>6. WriteSudoers => step = 10
  BY <1>0, Positions DEF WriteSudoers, Turn
<1>7. MountForChroot => step \in 11..16
  BY <1>0, Positions DEF MountForChroot, Turn
<1>8. RunDracut => step = 17
  BY <1>0, Positions DEF RunDracut, Turn
<1>9. RemoveLiveUser => step = 18
  BY <1>0, Positions DEF RemoveLiveUser, Turn
<1>10. RemoveLiveOnlyArtifacts => step = 21
  BY <1>0, Positions DEF RemoveLiveOnlyArtifacts, Turn
<1>11. CopyNetworkConfig => step = 22
  BY <1>0, Positions DEF CopyNetworkConfig, Turn
<1>12. SetHardwareClock => step = 23
  BY <1>0, Positions DEF SetHardwareClock, Turn
<1>13. WriteGrubDefaults => step = 25
  BY <1>0, Positions DEF WriteGrubDefaults, Turn
<1>14. GenerateGrubConfig => step \in {26, 34}
  BY <1>0, Positions DEF GenerateGrubConfig, Turn
<1>15. InstallShimAndGrub => step = 27
  BY <1>0, Positions DEF InstallShimAndGrub, Turn
<1>16. PrepareBtrfsRollback => step = 28
  BY <1>0, Positions DEF PrepareBtrfsRollback, Turn
<1>17. SnapperCreateConfig => step = 29
  BY <1>0, Positions DEF SnapperCreateConfig, Turn
<1>18. MountSnapshotsSubvolume => step = 30
  BY <1>0, Positions DEF MountSnapshotsSubvolume, Turn
<1>19. RegenerateInitramfsWithFstab => step = 31
  BY <1>0, Positions DEF RegenerateInitramfsWithFstab, Turn
<1>20. RemoveTransitionalInstallerArtifacts => step = 32
  BY <1>0, Positions DEF RemoveTransitionalInstallerArtifacts, Turn
<1>21. SnapperCreateFirstSnapshot => step = 33
  BY <1>0, Positions DEF SnapperCreateFirstSnapshot, Turn
<1>22. SyncAndFinish => step = 35
  BY <1>0, Positions DEF SyncAndFinish, Turn
<1>23. OperationFails \/ Cancel \/ UNCHANGED vars => Quiet
  BY DEF OperationFails, Cancel, vars, Stops, Quiet, outside
<1>24. \/ Quiet \/ WriteFstab \/ ExtractRootfs \/ ConfigureSwap \/ WriteSetting
         \/ CreateUser \/ WriteSudoers \/ MountForChroot \/ RunDracut \/
         RemoveLiveUser \/ RemoveLiveOnlyArtifacts \/ CopyNetworkConfig \/
         SetHardwareClock \/ WriteGrubDefaults \/ GenerateGrubConfig \/
         InstallShimAndGrub \/ PrepareBtrfsRollback \/ SnapperCreateConfig \/
         MountSnapshotsSubvolume \/ RegenerateInitramfsWithFstab \/
         RemoveTransitionalInstallerArtifacts \/ SnapperCreateFirstSnapshot \/
         SyncAndFinish
  BY <1>23 DEF Next
<1> QED BY <1>1, <1>2, <1>3, <1>4, <1>5, <1>6, <1>7, <1>8, <1>9, <1>10, <1>11,
      <1>12, <1>13, <1>14, <1>15, <1>16, <1>17, <1>18, <1>19, <1>20, <1>21,
      <1>22, <1>24

-----------------------------------------------------------------------------
(* fstab once / is no longer named by its subvolume, and in the end.       *)
Others == {Line(espMount, "vfat", FALSE)}
            \cup IF config.swap = "disk" THEN {Line(swapArea, "swap", FALSE)} ELSE {}
Unpinned == {Line(m, "btrfs", m # rootMount) : m \in Subvolumes} \cup Others
Final == {Line(m, "btrfs", m # rootMount) : m \in Subvolumes \cup {snapshotsMount}} \cup Others

(* liveuser stays known until the new account is found not to be it, the   *)
(* new account is complete from then on, and liveuser goes before it does. *)
Accounts ==
  /\ step \in 3..9 => liveuser \in homes \cup root.accounts
  /\ step > 9 =>
       /\ config.name # liveuser
       /\ config.name \in root.accounts /\ config.name \in root.wheel
       /\ config.name \in root.passwords /\ config.name \in homes
  /\ step > 18 => liveuser \notin root.accounts

Contents ==
  /\ step > 21 => root.files \cap LiveFiles = {}
  /\ step > 32 => root.files = {}
  /\ \A c \in root.connections : c.owner # liveuser

Fstab ==
  /\ step \in 2..28 => root.fstab = Layout \/ RootLines(root.fstab) = {}
  /\ step > 28 => rootMount \in Subvolumes
  /\ step \in 29..30 => root.fstab = Unpinned
  /\ step > 30 => root.fstab = Final
  /\ step > 31 => root.initramfs = root.fstab
  /\ step > 3 => root.zram = (config.swap = "zram")

Startable ==
  /\ step > 10 => root.sudoers
  /\ step > 16 => "efivars" \in chroot
  /\ step < 28 => ~bootloader
  /\ step > 27 => nvram
  /\ step > 28 => default
  /\ step > 34 => root.menu = 1

(* After the snapshot only the boot menu changes.                          *)
Kept == {"files", "accounts", "connections", "fstab", "initramfs"}
Taken ==
  /\ step < 34 => snapshots = << >>
  /\ step > 33 =>
       /\ Len(snapshots) = 1 /\ DOMAIN snapshots = {1}
       /\ \A part \in Kept : snapshots[1][part] = root[part]

IInv == TypeOK /\ Chosen /\ Accounts /\ Contents /\ Fstab /\ Startable /\ Taken

LEMMA Initially == ASSUME Init PROVE IInv
<1>1. TypeOK
  BY Length DEF Init, TypeOK, Empty
<1> QED
  BY <1>1 DEF Init, IInv, Chosen, Accounts, Contents, Fstab, Startable, Taken, Empty

LEMMA TypesStep ==
  ASSUME TypeOK, Chosen, [Next]_vars
  PROVE  TypeOK' /\ Chosen'
<1>1. /\ Chosen' /\ DOMAIN root' = DOMAIN Empty
      /\ status' \in {"running", "completed", "failed", "cancelled"}
      /\ step' \in 1..36 /\ (step' = 36 <=> status' = "completed")
  BY Untouched DEF Chosen
<1>2. root'.wheel \subseteq root'.accounts /\ root'.passwords \subseteq root'.accounts
  <2>1. CASE step \notin {2, 9, 18}
    BY <2>1, Untouched DEF TypeOK
  <2>2. CASE step = 2
    BY <2>2, Acting, TargetAssumption DEF TypeOK, Chosen, ExtractRootfs, Extracted, Quiet, Empty
  <2>3. CASE step = 9
    <3>1. CASE Quiet
      BY <3>1 DEF Quiet, TypeOK
    <3>2. CASE CreateUser
      <4>1. /\ root'.accounts = root.accounts \cup {config.name}
            /\ root'.wheel \subseteq root.wheel \cup {config.name}
            /\ root'.passwords \subseteq root.passwords \cup {config.name}
        BY <3>2 DEF TypeOK, CreateUser, Empty
      <4> QED BY <4>1 DEF TypeOK
    <3> QED BY <2>3, <3>1, <3>2, Acting
  <2>4. CASE step = 18
    <3>1. CASE Quiet
      BY <3>1 DEF Quiet, TypeOK
    <3>2. CASE RemoveLiveUser
      <4>1. /\ root'.accounts = root.accounts \ {liveuser}
            /\ root'.wheel = root.wheel \ {liveuser}
            /\ root'.passwords = root.passwords \ {liveuser}
        BY <3>2 DEF TypeOK, RemoveLiveUser, Empty
      <4> QED BY <4>1 DEF TypeOK
    <3> QED BY <2>4, <3>1, <3>2, Acting
  <2> QED BY <2>1, <2>2, <2>3, <2>4
<1>3. root'.files \subseteq LiveFiles \cup InstallerFiles
  <2>1. CASE step \notin {2, 21, 32}
    BY <2>1, Untouched DEF TypeOK
  <2>2. CASE step = 2
    BY <2>2, Acting, TargetAssumption DEF TypeOK, Chosen, ExtractRootfs, Extracted, Quiet, Empty
  <2>3. CASE step = 21
    BY <2>3, Acting DEF TypeOK, RemoveLiveOnlyArtifacts, Quiet, Empty
  <2>4. CASE step = 32
    BY <2>4, Acting DEF TypeOK, RemoveTransitionalInstallerArtifacts, Quiet, Empty
  <2> QED BY <2>1, <2>2, <2>3, <2>4
<1>4. chroot' \subseteq ChrootMounts
  <2>1. CASE step \notin 11..16
    BY <2>1, Untouched DEF TypeOK
  <2>2. CASE step \in 11..16
    BY <2>2, Acting DEF TypeOK, MountForChroot, Quiet, outside
  <2> QED BY <2>1, <2>2
<1> QED BY <1>1, <1>2, <1>3, <1>4, Length DEF TypeOK

LEMMA AccountsStep ==
  ASSUME TypeOK, Chosen, Accounts, [Next]_vars
  PROVE  Accounts'
<1>0. /\ step \in 1..36 /\ step' \in {step, step + 1}
      /\ UNCHANGED <<image, config>> /\ DOMAIN root = DOMAIN Empty
  BY Untouched DEF TypeOK
<1>1. CASE step \notin {2, 9, 18}
  BY <1>0, <1>1, Untouched DEF Accounts
<1>2. CASE step = 2
  <2>1. CASE Quiet
    BY <1>2, <2>1 DEF Quiet, outside, Accounts
  <2>2. CASE ExtractRootfs
    BY <1>0, <1>2, <2>2, TargetAssumption
    DEF ExtractRootfs, Extracted, Done, Stops, Accounts, Chosen, Empty
  <2> QED BY <1>2, <2>1, <2>2, Acting
<1>3. CASE step = 9
  <2>1. CASE Quiet
    BY <1>3, <2>1 DEF Quiet, outside, Accounts
  <2>2. CASE CreateUser
    <3>1. /\ config.name # liveuser /\ homes' = homes \cup {config.name}
          /\ "wheel" \in image.groups
          /\ root'.accounts = root.accounts \cup {config.name}
      BY <1>0, <1>3, <2>2 DEF CreateUser, AccountPossible, RequiredGroups, Accounts, Empty
    <3>2. step' = 10 => /\ root'.wheel = root.wheel \cup {config.name}
                        /\ root'.passwords = root.passwords \cup {config.name}
      BY <1>0, <1>3, <2>2, <3>1 DEF CreateUser, Stops, Empty
    <3> QED BY <1>0, <1>3, <3>1, <3>2 DEF Accounts
  <2> QED BY <1>3, <2>1, <2>2, Acting
<1>4. CASE step = 18
  <2>1. CASE Quiet
    BY <1>4, <2>1 DEF Quiet, outside, Accounts
  <2>2. CASE RemoveLiveUser
    <3>1. /\ root'.accounts = root.accounts \ {liveuser}
          /\ root'.wheel = root.wheel \ {liveuser}
          /\ root'.passwords = root.passwords \ {liveuser}
          /\ homes' = homes \ {liveuser}
      BY <1>0, <2>2 DEF RemoveLiveUser, Empty
    <3> QED BY <1>0, <1>4, <3>1 DEF Accounts
  <2> QED BY <1>4, <2>1, <2>2, Acting
<1> QED BY <1>1, <1>2, <1>3, <1>4

LEMMA ContentsStep ==
  ASSUME TypeOK, Chosen, Accounts, Contents, [Next]_vars
  PROVE  Contents'
<1>0. /\ step \in 1..36 /\ step' \in {step, step + 1}
      /\ UNCHANGED <<image, config>> /\ DOMAIN root = DOMAIN Empty
  BY Untouched DEF TypeOK
<1>1. (step' > 21 => root'.files \cap LiveFiles = {}) /\ (step' > 32 => root'.files = {})
  <2>1. CASE step \notin {2, 21, 32}
    BY <1>0, <2>1, Untouched DEF Contents
  <2>2. CASE step = 2
    BY <1>0, <2>2
  <2>3. CASE step = 21
    <3>1. root'.files = root.files \/ root'.files = root.files \ LiveFiles
      BY <1>0, <2>3, Acting DEF RemoveLiveOnlyArtifacts, Quiet, Empty
    <3>2. step' = 22 => root'.files = root.files \ LiveFiles
      BY <1>0, <2>3, Acting DEF RemoveLiveOnlyArtifacts, Quiet, Empty
    <3> QED BY <1>0, <2>3, <3>2
  <2>4. CASE step = 32
    <3>1. root'.files = root.files \/ root'.files = root.files \ InstallerFiles
      BY <1>0, <2>4, Acting DEF RemoveTransitionalInstallerArtifacts, Quiet, Empty
    <3>2. step' = 33 => root'.files = root.files \ InstallerFiles
      BY <1>0, <2>4, Acting DEF RemoveTransitionalInstallerArtifacts, Quiet, Empty
    <3> QED BY <1>0, <2>4, <3>1, <3>2 DEF Contents, TypeOK
  <2> QED BY <2>1, <2>2, <2>3, <2>4
<1>2. \A c \in root'.connections : c.owner # liveuser
  <2>1. CASE step \notin {2, 22}
    BY <2>1, Untouched DEF Contents
  <2>2. CASE step = 2
    BY <2>2, Acting, TargetAssumption
    DEF Contents, Chosen, ExtractRootfs, Extracted, Quiet, Empty
  <2>3. CASE step = 22
    <3>1. CASE Quiet
      BY <3>1 DEF Quiet, Contents
    <3>2. CASE CopyNetworkConfig
      <4>1. \A c \in LiveConnections : Copied(c).owner # liveuser
        BY <1>0, <2>3, TargetAssumption DEF Copied, Accounts
      <4>2. \A c \in root'.connections :
              c \in root.connections \/ \E d \in LiveConnections : c = Copied(d)
        BY <1>0, <3>2 DEF CopyNetworkConfig, Empty
      <4> QED BY <4>1, <4>2 DEF Contents
    <3> QED BY <2>3, <3>1, <3>2, Acting
  <2> QED BY <2>1, <2>2, <2>3
<1> QED BY <1>1, <1>2 DEF Contents

(* The lines of / in the fstab WriteFstab wrote, and what becomes of them. *)
LEMMA LayoutLines ==
  /\ RootLines(Layout) = IF rootMount \in Subvolumes THEN {Line(rootMount, "btrfs", TRUE)} ELSE {}
  /\ rootMount \in Subvolumes =>
       (Layout \ RootLines(Layout))
          \cup {[l EXCEPT !.pinned = FALSE] : l \in RootLines(Layout)} = Unpinned
  /\ {l \in Unpinned : l.at # snapshotsMount} \cup {Line(snapshotsMount, "btrfs", TRUE)} = Final
<1>1. RootLines(Layout) = IF rootMount \in Subvolumes THEN {Line(rootMount, "btrfs", TRUE)} ELSE {}
  BY DEF RootLines, Layout, Line
<1>2. ASSUME rootMount \in Subvolumes
      PROVE  (Layout \ RootLines(Layout))
               \cup {[l EXCEPT !.pinned = FALSE] : l \in RootLines(Layout)} = Unpinned
  <2>1. {[l EXCEPT !.pinned = FALSE] : l \in RootLines(Layout)} = {Line(rootMount, "btrfs", FALSE)}
    BY <1>1, <1>2 DEF Line
  <2>2. Layout \ RootLines(Layout) = {Line(m, "btrfs", TRUE) : m \in Subvolumes \ {rootMount}} \cup Others
    BY <1>1, <1>2 DEF Layout, Others, Line
  <2> QED BY <1>2, <2>1, <2>2 DEF Unpinned
<1>3. {l \in Unpinned : l.at # snapshotsMount} \cup {Line(snapshotsMount, "btrfs", TRUE)} = Final
  <2>1. \A l \in Others : l.at # snapshotsMount
    BY TargetAssumption DEF Others, Line
  <2>2. {l \in Unpinned : l.at # snapshotsMount}
          = {Line(m, "btrfs", m # rootMount) : m \in Subvolumes \ {snapshotsMount}} \cup Others
    BY <2>1 DEF Unpinned, Line
  <2>3. {Line(m, "btrfs", m # rootMount) : m \in Subvolumes \cup {snapshotsMount}}
          = {Line(m, "btrfs", m # rootMount) : m \in Subvolumes \ {snapshotsMount}}
              \cup {Line(snapshotsMount, "btrfs", snapshotsMount # rootMount)}
    OBVIOUS
  <2>4. (snapshotsMount # rootMount) = TRUE
    BY TargetAssumption
  <2> QED BY <2>2, <2>3, <2>4 DEF Final
<1> QED BY <1>1, <1>2, <1>3

LEMMA OneRootLine == ASSUME NEW f, OneRoot(f) PROVE RootLines(f) # {}
  BY FS_EmptySet DEF OneRoot

LEMMA FstabStep ==
  ASSUME TypeOK, Chosen, Fstab, [Next]_vars
  PROVE  Fstab'
<1>0. /\ step \in 1..36 /\ step' \in {step, step + 1}
      /\ UNCHANGED <<image, config>> /\ DOMAIN root = DOMAIN Empty
      /\ Layout' = Layout /\ Unpinned' = Unpinned /\ Final' = Final
  BY Untouched DEF TypeOK, Layout, Unpinned, Final, Others
<1>1. /\ step' \in 2..28 => root'.fstab = Layout \/ RootLines(root'.fstab) = {}
      /\ step' > 28 => rootMount \in Subvolumes
      /\ step' \in 29..30 => root'.fstab = Unpinned
      /\ step' > 30 => root'.fstab = Final
  <2>1. CASE step \notin {1, 2, 28, 30}
    BY <1>0, <2>1, Untouched DEF Fstab
  <2>2. CASE step = 1
    BY <1>0, <2>2, Acting DEF WriteFstab, Quiet, Empty
  <2>3. CASE step = 2
    BY <1>0, <2>3, Acting, TargetAssumption
    DEF Fstab, Chosen, ExtractRootfs, Extracted, Quiet, Empty
  <2>4. CASE step = 28
    <3>1. CASE Quiet
      BY <1>0, <2>4, <3>1 DEF Quiet, Fstab
    <3>2. CASE PrepareBtrfsRollback /\ ~OneRoot(root.fstab)
      BY <1>0, <2>4, <3>2 DEF PrepareBtrfsRollback, Stops, Fstab
    <3>3. CASE PrepareBtrfsRollback /\ OneRoot(root.fstab)
      <4>1. root.fstab = Layout /\ rootMount \in Subvolumes
        <5>1. RootLines(root.fstab) # {}
          BY <3>3, OneRootLine
        <5>2. root.fstab = Layout
          BY <2>4, <5>1 DEF Fstab
        <5> QED BY <5>1, <5>2, LayoutLines
      <4>2. root'.fstab = Unpinned
        BY <1>0, <3>3, <4>1, LayoutLines DEF PrepareBtrfsRollback, Empty
      <4>3. step' = 29
        BY <2>4, <3>3 DEF PrepareBtrfsRollback, Done
      <4> QED BY <4>1, <4>2, <4>3
    <3> QED BY <2>4, <3>1, <3>2, <3>3, Acting
  <2>5. CASE step = 30
    <3>1. CASE Quiet
      BY <1>0, <2>5, <3>1 DEF Quiet, Fstab
    <3>2. CASE MountSnapshotsSubvolume
      <4>1. root'.fstab = Final
        <5>1. root.fstab = Unpinned
          BY <2>5 DEF Fstab
        <5>2. root'.fstab = {l \in root.fstab : l.at # snapshotsMount}
                              \cup {Line(snapshotsMount, "btrfs", TRUE)}
          BY <1>0, <3>2 DEF MountSnapshotsSubvolume, Empty
        <5> QED BY <5>1, <5>2, LayoutLines
      <4>2. step' = 31
        BY <2>5, <3>2 DEF MountSnapshotsSubvolume, Done
      <4> QED BY <2>5, <4>1, <4>2 DEF Fstab
    <3> QED BY <2>5, <3>1, <3>2, Acting
  <2> QED BY <2>1, <2>2, <2>3, <2>4, <2>5
<1>2. step' > 31 => root'.initramfs = root'.fstab
  <2>1. CASE step > 31
    BY <1>0, <2>1, Untouched DEF Fstab
  <2>2. CASE step = 31
    BY <1>0, <2>2, Acting DEF RegenerateInitramfsWithFstab, Quiet, Empty
  <2> QED BY <1>0, <2>1, <2>2
<1>3. step' > 3 => root'.zram = (config.swap = "zram")
  <2>1. CASE step > 3
    BY <1>0, <2>1, Untouched DEF Fstab
  <2>2. CASE step = 3
    <3>1. step' = 4 => root' = [root EXCEPT !.zram = config.swap = "zram"]
      BY <2>2, Acting DEF ConfigureSwap, Quiet
    <3> QED BY <1>0, <2>2, <3>1 DEF Empty
  <2> QED BY <1>0, <2>1, <2>2
<1> QED BY <1>0, <1>1, <1>2, <1>3 DEF Fstab

LEMMA StartableStep ==
  ASSUME TypeOK, Chosen, Startable, Taken, [Next]_vars
  PROVE  Startable'
<1>0. /\ step \in 1..36 /\ step' \in {step, step + 1} /\ DOMAIN root = DOMAIN Empty
  BY Untouched DEF TypeOK
<1>1. step' > 10 => root'.sudoers
  <2>1. CASE step > 10
    BY <1>0, <2>1, Untouched DEF Startable
  <2>2. CASE step = 10
    BY <1>0, <2>2, Acting DEF WriteSudoers, Quiet, Empty
  <2> QED BY <1>0, <2>1, <2>2
<1>2. step' > 16 => "efivars" \in chroot'
  <2>1. CASE step > 16
    BY <1>0, <2>1, Untouched DEF Startable
  <2>2. CASE step = 16
    BY <1>0, <2>2, Acting, Positions, Length DEF MountForChroot, Turn, Quiet
  <2> QED BY <1>0, <2>1, <2>2
<1>3. (step' < 28 => ~bootloader') /\ (step' > 27 => nvram')
  <2>1. CASE step < 27
    <3>1. ~bootloader /\ bootloader' = bootloader /\ ~(step' > 27)
      BY <1>0, <2>1, Untouched DEF Startable
    <3> QED BY <3>1
  <2>2. CASE step = 27
    <3>1. CASE Quiet
      <4>1. ~bootloader /\ bootloader' = bootloader /\ ~(step' > 27)
        BY <2>2, <3>1 DEF Quiet, outside, Startable
      <4> QED BY <4>1
    <3>2. CASE InstallShimAndGrub
      <4>1. nvram' = ("efivars" \in chroot) /\ "efivars" \in chroot /\ ~(step' < 28)
        BY <2>2, <3>2 DEF InstallShimAndGrub, Done, Startable
      <4> QED BY <4>1
    <3> QED BY <2>2, <3>1, <3>2, Acting
  <2>3. CASE step > 27
    <3>1. step # 27 /\ ~(step' < 28)
      BY <1>0, <2>3
    <3>2. nvram
      BY <2>3 DEF Startable
    <3>3. nvram' = nvram
      BY <3>1, Untouched
    <3> QED BY <3>1, <3>2, <3>3
  <2> QED BY <1>0, <2>1, <2>2, <2>3
<1>4. step' > 28 => default'
  <2>1. CASE step < 28
    <3>1. ~(step' > 28)
      BY <1>0, <2>1
    <3> QED BY <3>1
  <2>2. CASE step = 28
    <3>1. Quiet => ~(step' > 28)
      BY <2>2 DEF Quiet
    <3>2. PrepareBtrfsRollback => default'
      BY DEF PrepareBtrfsRollback
    <3> QED BY <2>2, <3>1, <3>2, Acting
  <2>3. CASE step > 28
    <3>1. step # 28
      BY <2>3
    <3>2. default
      BY <2>3 DEF Startable
    <3>3. default' = default
      BY <3>1, Untouched
    <3> QED BY <3>2, <3>3
  <2>4. step < 28 \/ step = 28 \/ step > 28
    BY <1>0
  <2> QED BY <2>1, <2>2, <2>3, <2>4
<1>5. step' > 34 => root'.menu = 1
  <2>1. CASE step > 34
    BY <1>0, <2>1, Untouched DEF Startable
  <2>2. CASE step = 34
    BY <1>0, <2>2, Acting DEF GenerateGrubConfig, Quiet, Taken, Empty
  <2> QED BY <1>0, <2>1, <2>2
<1> QED BY <1>1, <1>2, <1>3, <1>4, <1>5 DEF Startable

LEMMA TakenStep ==
  ASSUME TypeOK, Chosen, Taken, [Next]_vars
  PROVE  Taken'
<1>0. /\ step \in 1..36 /\ step' \in {step, step + 1} /\ DOMAIN root = DOMAIN Empty
  BY Untouched DEF TypeOK
<1>1. CASE step < 33
  <2>1. step # 33 /\ step < 34 /\ step' < 34
    BY <1>0, <1>1
  <2>2. snapshots' = snapshots
    BY <2>1, Untouched
  <2>3. snapshots' = << >>
    BY <2>1, <2>2 DEF Taken
  <2> QED BY <1>0, <2>1, <2>3 DEF Taken
<1>2. CASE step = 33
  <2>1. CASE Quiet
    BY <1>2, <2>1 DEF Quiet, outside, Taken
  <2>2. CASE SnapperCreateFirstSnapshot
    <3>1. snapshots' = <<root>> /\ root' = root /\ step' = 34
      BY <1>2, <2>2 DEF SnapperCreateFirstSnapshot, Done, Taken
    <3> QED BY <3>1 DEF Taken
  <2> QED BY <1>2, <2>1, <2>2, Acting
<1>3. CASE step > 33
  <2>1. \A part \in Kept : root'[part] = root[part]
    BY <1>0, <1>3, Untouched DEF Kept
  <2> QED BY <1>0, <1>3, <2>1, Untouched DEF Taken
<1> QED BY <1>0, <1>1, <1>2, <1>3

THEOREM Invariance == Spec => []IInv
<1>1. Init => IInv
  BY Initially
<1>2. IInv /\ [Next]_vars => IInv'
  BY TypesStep, AccountsStep, ContentsStep, FstabStep, StartableStep, TakenStep DEF IInv
<1> QED BY <1>1, <1>2, PTL DEF Spec

(* The operation that comes next, the status and the accounts agree: a     *)
(* password or a place in wheel belongs to an account that exists.         *)
THEOREM TargetTypes == Spec => []TypeOK
<1>1. IInv => TypeOK
  BY DEF IInv
<1> QED BY <1>1, Invariance, PTL

(* No snapshot holds a file of the live session or of the installer, nor   *)
(* liveuser, whatever the image contained and however the run went.        *)
THEOREM SnapshotIsCleanAlways == Spec => []SnapshotIsClean
<1>1. IInv => SnapshotIsClean
  <2> SUFFICES ASSUME IInv, NEW i \in DOMAIN snapshots
               PROVE  /\ snapshots[i].files = {}
                      /\ liveuser \notin snapshots[i].accounts
                      /\ \A c \in snapshots[i].connections : c.owner # liveuser
    BY DEF SnapshotIsClean
  <2>1. step > 33 /\ i = 1
    BY Length DEF IInv, TypeOK, Taken
  <2>2. \A part \in Kept : snapshots[i][part] = root[part]
    BY <2>1 DEF IInv, Taken
  <2>3. /\ root.files = {} /\ liveuser \notin root.accounts
        /\ \A c \in root.connections : c.owner # liveuser
    BY <2>1, Length DEF IInv, TypeOK, Accounts, Contents
  <2> QED BY <2>2, <2>3 DEF Kept
<1> QED BY <1>1, Invariance, PTL

(* Every snapshot has an initramfs made from its own fstab, which leaves   *)
(* the choice of the root subvolume to the bootloader.                     *)
THEOREM SnapshotIsBootableAlways == Spec => []SnapshotIsBootable
<1>1. IInv => SnapshotIsBootable
  <2> SUFFICES ASSUME IInv, NEW i \in DOMAIN snapshots
               PROVE  /\ snapshots[i].initramfs = snapshots[i].fstab
                      /\ Line(rootMount, "btrfs", FALSE) \in snapshots[i].fstab
                      /\ Line(snapshotsMount, "btrfs", TRUE) \in snapshots[i].fstab
    BY DEF SnapshotIsBootable
  <2>1. step > 33 /\ i = 1
    BY Length DEF IInv, TypeOK, Taken
  <2>2. snapshots[i].initramfs = root.initramfs /\ snapshots[i].fstab = root.fstab
    BY <2>1 DEF IInv, Taken, Kept
  <2>3. root.initramfs = root.fstab /\ root.fstab = Final /\ rootMount \in Subvolumes
    BY <2>1, Length DEF IInv, TypeOK, Fstab
  <2>4. Line(rootMount, "btrfs", FALSE) \in Final /\ Line(snapshotsMount, "btrfs", TRUE) \in Final
    BY <2>3, TargetAssumption DEF Final
  <2> QED BY <2>2, <2>3, <2>4
<1> QED BY <1>1, Invariance, PTL

(* A target the firmware can start never holds liveuser's account or       *)
(* files, also when the run failed or was cancelled there.                 *)
THEOREM BootableHasNoLiveUserAlways == Spec => []BootableHasNoLiveUser
<1>1. IInv => BootableHasNoLiveUser
  BY Length DEF IInv, TypeOK, Accounts, Contents, Startable, BootableHasNoLiveUser
<1> QED BY <1>1, Invariance, PTL

(* The fstab of a completed installation is the layout's, for every set of *)
(* subvolumes and every kind of swap.                                      *)
THEOREM FstabMatchesLayoutAlways == Spec => []FstabMatchesLayout
<1>1. IInv => FstabMatchesLayout
  <2> SUFFICES ASSUME IInv, status = "completed" PROVE FstabMatchesLayout
    BY DEF FstabMatchesLayout
  <2>1. step = 36
    BY Length DEF IInv, TypeOK
  <2>2. root.fstab = Final /\ root.zram = (config.swap = "zram")
    BY <2>1 DEF IInv, Fstab
  <2> QED BY <2>2 DEF Final, Others, FstabMatchesLayout
<1> QED BY <1>1, Invariance, PTL

(* A completed installation can be started, rolled back and logged into.   *)
THEOREM CompletedIsUsableAlways == Spec => []CompletedIsUsable
<1>1. IInv => CompletedIsUsable
  <2> SUFFICES ASSUME IInv, status = "completed" PROVE CompletedIsUsable
    BY DEF CompletedIsUsable
  <2>1. step = 36
    BY Length DEF IInv, TypeOK
  <2>2. root.menu = 1 /\ nvram /\ default /\ root.sudoers /\ Len(snapshots) = 1
    BY <2>1 DEF IInv, Startable, Taken
  <2>3. config.name \in root.accounts \cap root.wheel \cap root.passwords \cap homes
    BY <2>1 DEF IInv, Accounts
  <2> QED BY <2>2, <2>3 DEF CompletedIsUsable
<1> QED BY <1>1, Invariance, PTL
=============================================================================

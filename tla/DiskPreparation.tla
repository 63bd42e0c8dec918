--------------------------- MODULE DiskPreparation ---------------------------
(***************************************************************************)
(* A disk from the discovery of the machine to formatted partitions: the   *)
(* unprivileged snapshot the plan is shown from, the service's own one,    *)
(* and the commands of ReleaseDisk, CreatePartitionTable and the Format*   *)
(* operations (operations/mod.rs) run one by one on a machine that others  *)
(* may still use.  A block device is <<disk, n>>: the whole disk for n = 0 *)
(* and its n-th partition otherwise (partition_path).                      *)
(***************************************************************************)
EXTENDS StoragePlan, TLC

CONSTANTS
  Disks,
  ListedAt,     \* ListedAt[disk]: its place in lsblk's output
  Capacity,     \* Capacity[disk] in MiB
  LiveDisk,     \* the disk the live session runs from
  MaxPartitions,
  PvsOf,        \* PvsOf[group]: the physical volumes of a volume group
  MembersOf,    \* MembersOf[array]: the devices of an md array
  LevelOf,      \* LevelOf[array]: what the kernel calls its level
  ArraySize,    \* MiB of every array
  GroupFree,    \* MiB free in every volume group
  Depth,        \* Depth[m]: number of path components of a mount point
  Below,        \* Below[m]: the mount points under m, m included
  swapMark,     \* lsblk's mount point of an active swap area, [SWAP]
  Machines,     \* states of the block devices to start from
  Requests,     \* what the wizard may ask for
  MaxChanges    \* how often others mount, unmount or format something

Groups == DOMAIN PvsOf
Arrays == DOMAIN MembersOf
Numbers == 1..MaxPartitions
Devices == Disks \X (0..MaxPartitions)
MountPoints == DOMAIN Below

Contents == {"none", "ext4", "swap", "lvm", "raid", "vfat", "btrfs"}
NewTypes == {"ef00", "8200", "8300"}
Types == {"absent", "old"} \cup NewTypes

(* What discovery can find: a device that is not there holds nothing, a    *)
(* partitioned disk has no signature of its own, and only a volume group   *)
(* with a labelled physical volume is active.                              *)
Plausible(m) ==
  /\ m.content \in [Devices -> Contents]
  /\ m.type \in [Disks \X Numbers -> {"absent", "old"}]
  /\ m.mounted \in [MountPoints -> Devices \cup {NoDevice}]
  /\ m.swapOn \subseteq Devices
  /\ \A g \in m.active : g \in Groups /\ \E pv \in PvsOf[g] : m.content[pv] = "lvm"
  /\ m.running \subseteq Arrays
  /\ \A disk \in Disks : \A n \in Numbers :
       IF m.type[<<disk, n>>] = "absent" THEN m.content[<<disk, n>>] = "none"
                                         ELSE m.content[Whole(disk)] = "none"

ASSUME DiskAssumption ==
  /\ MaxPartitions \in Nat /\ MaxPartitions >= 3
  /\ ListedAt \in [Disks -> Nat] /\ Capacity \in [Disks -> Nat]
  /\ \A g \in Groups : PvsOf[g] \subseteq Devices
  /\ \A a \in Arrays : MembersOf[a] \subseteq Devices
  /\ DOMAIN LevelOf = Arrays
  /\ NoDevice \notin Devices
  /\ \A m \in Machines : Plausible(m)

(* The rank of a command's tool: each is run after those of lower rank.    *)
Rank == [swapoff |-> 1, umount |-> 2, vgchange |-> 3, wipefs |-> 4, zap |-> 5,
         new |-> 6, mkfs |-> 7]
Tools == DOMAIN Rank
Nothing == [tool \in Tools |-> {}]

VARIABLES
  content,    \* content[dev]: the signature and data on a device
  type,       \* type[dev]: its partition type, "absent" when there is none
  mounted,    \* mounted[m]: the device mounted at m, or NoDevice
  swapOn,     \* active swap areas
  active,     \* activated volume groups
  lvMounted,  \* volume groups with a mounted logical volume
  running,    \* assembled arrays
  stage, choice, shown,
  todo,       \* todo[tool]: the arguments the service has still to run it on
  erased,     \* history: <<device, content>> that was lost
  before,     \* history: content and known members when the service looked
  refusal,    \* why a command was refused
  changes

machineVars == <<content, type, mounted, swapOn, active, lvMounted, running>>
vars == <<machineVars, stage, choice, shown, todo, erased, before, refusal, changes>>

(* What discovery sees (discovery.rs).                                     *)
Partitions(disk) == {n \in Numbers : type[<<disk, n>>] # "absent"}
MountsOf(dev) == {m \in MountPoints : mounted[m] = dev}
UsedMembers == (UNION {PvsOf[g] : g \in active}) \cup UNION {MembersOf[a] : a \in running}

(* vgs reads the labels, of inactive groups too, and answers to root only. *)
(* Where it is missing, fails, or prints what VgRow does not parse (it has *)
(* a list of physical volumes per row, lvm2 a single name), no group is    *)
(* reported at all, without an error.                                      *)
LabelledGroups == {g \in Groups : \E pv \in PvsOf[g] : content[pv] = "lvm"}
NoGroups == {}
Reports == {NoGroups, LabelledGroups}

(* An array of another level is left out, whatever it is made of.          *)
KnownLevels == {"raid0", "raid1", "raid5", "raid6", "raid10"}
VisibleArrays == {a \in running : LevelOf[a] \in KnownLevels}

(* Slip: whole-disk members are not cross-referenced.                      *)
RoleByPartitions(disk, groups) ==
  IF disk = LiveDisk \/ Partitions(disk) # {} THEN "Unsupported" ELSE "Free"

Role(disk, groups) ==
  IF disk = LiveDisk \/ Partitions(disk) # {} THEN "Unsupported"
  ELSE IF \E a \in VisibleArrays : Whole(disk) \in MembersOf[a] THEN "RaidMember"
  ELSE IF \E g \in groups : Whole(disk) \in PvsOf[g] THEN "LvmPhysicalVolume"
  ELSE "Free"

DiskEntry(disk, groups) ==
  [size |-> Capacity[disk], listed |-> ListedAt[disk], live |-> disk = LiveDisk,
   role |-> Role(disk, groups)]

(* lsblk lists an active swap area as mounted at [SWAP].                   *)
PartitionEntry(dev) ==
  [fs |-> content[dev], mounts |-> IF dev \in swapOn THEN {swapMark} ELSE MountsOf(dev)]

Candidates == {disk \in Disks : content[Whole(disk)] # "swap"}

Snapshot(groups) ==
  [disks |-> [disk \in Candidates |-> DiskEntry(disk, groups)],
   partitions |-> [dev \in {p \in Candidates \X Numbers : type[p] # "absent"} |->
                     PartitionEntry(dev)],
   arrays |-> [a \in VisibleArrays |-> [degraded |-> FALSE, size |-> ArraySize]],
   groups |-> [g \in groups |-> [free |-> GroupFree]]]

-----------------------------------------------------------------------------
(* The commands of the operations, by tool.                                *)

PartitionsIn(s, disk) == {p \in DOMAIN s.partitions : p[1] = disk}

(* ReleaseDisk: swapoff, umount -R from the deepest mount point, vgchange. *)
ReleaseDisk(disk, s) ==
  [swapoff |-> {p \in PartitionsIn(s, disk) : s.partitions[p].fs = "swap"},
   umount |-> UNION {s.partitions[p].mounts : p \in PartitionsIn(s, disk)},
   vgchange |-> {g \in DOMAIN s.groups : PvsOf[g] \cap PartitionsIn(s, disk) # {}}]

(* Slip: the old partitions are not wiped one by one.                      *)
WipeDiskOnly(disk, s) == {Whole(disk)}

WipeOld(disk, s) == PartitionsIn(s, disk) \cup {Whole(disk)}

(* CreatePartitionTable numbers the new partitions as it makes them ...    *)
Layout(plan) ==
  LET new == IF plan.esp = NoDevice THEN 1 ELSE 0
      swap == IF plan.swap = "disk" THEN 1 ELSE 0
  IN  (IF new = 1 THEN {<<1, "ef00">>} ELSE {})
        \cup (IF swap = 1 THEN {<<1 + new, "8200">>} ELSE {})
        \cup {<<1 + new + swap, "8300">>}

CreatePartitionTable(disk, plan, s) ==
  [wipefs |-> WipeOld(disk, s), zap |-> {disk}, new |-> Layout(plan)]

Partition(disk, n) == <<disk, n>>

(* Slip: the root is numbered as if there were no swap partition.          *)
FormatSecond(disk, plan) ==
  LET esp == IF plan.esp = NoDevice THEN {<<Partition(disk, 1), "vfat">>} ELSE {}
  IN  esp \cup {<<Partition(disk, 1 + Cardinality(esp)), "btrfs">>}

(* ... and plan_to_operations on its own account, for FormatEsp,           *)
(* FormatSwap and FormatBtrfsRoot.                                         *)
Format(disk, plan) ==
  LET new == IF plan.esp = NoDevice THEN 1 ELSE 0
      swap == IF plan.swap = "disk" THEN 1 ELSE 0
  IN  (IF new = 1 THEN {<<Partition(disk, 1), "vfat">>} ELSE {})
        \cup (IF swap = 1 THEN {<<Partition(disk, 1 + new), "swap">>} ELSE {})
        \cup {<<Partition(disk, 1 + new + swap), "btrfs">>}

Operations(plan, s) ==
  LET disk == plan.target.disk
      release == ReleaseDisk(disk, s)
      table == CreatePartitionTable(disk, plan, s)
  IN  [swapoff |-> release.swapoff, umount |-> release.umount, vgchange |-> release.vgchange,
       wipefs |-> table.wipefs, zap |-> table.zap, new |-> table.new,
       mkfs |-> Format(disk, plan)]

-----------------------------------------------------------------------------
Init ==
  /\ \E m \in Machines :
       /\ content = m.content /\ type = m.type
       /\ mounted = m.mounted /\ swapOn = m.swapOn
       /\ active = m.active /\ lvMounted = m.lvMounted /\ running = m.running
  /\ stage = "choosing"
  /\ choice = NoDevice /\ shown = NoDevice
  /\ todo = Nothing
  /\ erased = {}
  /\ before = [content |-> content, members |-> {}]
  /\ refusal = "none"
  /\ changes = 0

(* The wizard asks for a plan on what the unprivileged discovery saw.      *)
Choose ==
  /\ stage = "choosing"
  /\ choice' \in Requests
  /\ LET s == Snapshot(NoGroups)
     IN  IF Possible(s, choice')
         THEN stage' = "planned" /\ shown' = Build(s, choice')
         ELSE stage' = "refused" /\ UNCHANGED shown
  /\ UNCHANGED <<machineVars, todo, erased, before, refusal, changes>>

(* Slip: the service trusts the plan it is sent.                           *)
AcceptsAny(s) == Translatable(shown)

Accepts(s) == Translatable(shown) /\ Possible(s, choice) /\ Build(s, choice) = shown

(* The user confirmed; the service translates and revalidates.             *)
StartService ==
  /\ stage = "planned"
  /\ \E groups \in Reports :
       LET s == Snapshot(groups)
       IN  /\ IF Accepts(s)
              THEN stage' = "running" /\ todo' = Operations(shown, s)
              ELSE stage' = "refused" /\ UNCHANGED todo
           /\ before' = [content |-> content,
                         members |-> UsedMembers \cup UNION {PvsOf[g] : g \in groups}]
  /\ UNCHANGED <<machineVars, choice, shown, erased, refusal, changes>>

-----------------------------------------------------------------------------
(* A device somebody keeps open; the whole disk is, when a part of it is.  *)
Held(dev) ==
  \E h \in Devices :
    /\ MountsOf(h) # {} \/ h \in swapOn \cup UsedMembers
    /\ h = dev \/ (dev[2] = 0 /\ h[1] = dev[1])

Turn(tool) ==
  /\ stage = "running"
  /\ \A t \in Tools : Rank[t] < Rank[tool] => todo[t] = {}

(* Slip: the end is noticed one command too late.                          *)
SucceedsOnceMore(tool, x) ==
  /\ todo' = [todo EXCEPT ![tool] = @ \ {x}]
  /\ stage' = IF todo = Nothing THEN "prepared" ELSE "running"
  /\ UNCHANGED refusal

Succeeds(tool, x) ==
  /\ todo' = [todo EXCEPT ![tool] = @ \ {x}]
  /\ stage' = IF todo' = Nothing THEN "prepared" ELSE "running"
  /\ UNCHANGED refusal

Refuses(reason) ==
  /\ stage' = "failed"
  /\ refusal' = reason
  /\ UNCHANGED <<machineVars, todo, erased>>

Losing(dev) == IF content[dev] = "none" THEN {} ELSE {<<dev, content[dev]>>}

(* Partitions are taken by number, the whole disk after them.              *)
First(dev, devs) ==
  dev \in devs /\ \A d \in devs : d[2] = 0 \/ (dev[2] # 0 /\ dev[2] <= d[2])

Swapoff(dev) ==
  /\ Turn("swapoff") /\ First(dev, todo["swapoff"])
  /\ IF dev \in swapOn
     THEN /\ swapOn' = swapOn \ {dev}
          /\ Succeeds("swapoff", dev)
          /\ UNCHANGED <<content, type, mounted, active, lvMounted, running, erased>>
     ELSE Refuses("not a swap in use")

(* The deepest first; of two that are equally deep neither is in the way.  *)
Umount(m) ==
  /\ Turn("umount") /\ m \in todo["umount"]
  /\ \A k \in todo["umount"] : Depth[k] <= Depth[m]
  /\ IF m \in MountPoints /\ mounted[m] # NoDevice
     THEN /\ mounted' = [k \in MountPoints |-> IF k \in Below[m] THEN NoDevice ELSE mounted[k]]
          /\ Succeeds("umount", m)
          /\ UNCHANGED <<content, type, swapOn, active, lvMounted, running, erased>>
     ELSE Refuses("not a mount point")

Vgchange(g) ==
  /\ Turn("vgchange") /\ g \in todo["vgchange"]
  /\ IF g \notin lvMounted
     THEN /\ active' = active \ {g}
          /\ Succeeds("vgchange", g)
          /\ UNCHANGED <<content, type, mounted, swapOn, lvMounted, running, erased>>
     ELSE Refuses("volume in use")

(* Slip: wipefs -f, which does not ask the kernel for the device.          *)
WipefsForced(dev) ==
  /\ Turn("wipefs") /\ First(dev, todo["wipefs"])
  /\ erased' = erased \cup Losing(dev)
  /\ content' = [content EXCEPT ![dev] = "none"]
  /\ Succeeds("wipefs", dev)
  /\ UNCHANGED <<type, mounted, swapOn, active, lvMounted, running>>

Wipefs(dev) ==
  /\ Turn("wipefs") /\ First(dev, todo["wipefs"])
  /\ IF ~Held(dev)
     THEN /\ erased' = erased \cup Losing(dev)
          /\ content' = [content EXCEPT ![dev] = "none"]
          /\ Succeeds("wipefs", dev)
          /\ UNCHANGED <<type, mounted, swapOn, active, lvMounted, running>>
     ELSE Refuses("busy")

(* What was not wiped stays on the disk, unreachable: its old partitions   *)
(* are gone.                                                               *)
ZapAll(disk) ==
  /\ Turn("zap") /\ disk \in todo["zap"]
  /\ type' = [p \in Disks \X Numbers |-> IF p[1] = disk THEN "absent" ELSE type[p]]
  /\ erased' = erased \cup UNION {Losing(<<disk, n>>) : n \in Partitions(disk)}
  /\ Succeeds("zap", disk)
  /\ UNCHANGED <<content, mounted, swapOn, active, lvMounted, running>>

(* x = <<n, t>>: sgdisk makes partition n of type t.                       *)
NewPartition(x) ==
  /\ Turn("new") /\ x \in todo["new"] /\ \A y \in todo["new"] : x[1] <= y[1]
  /\ type' = [type EXCEPT ![<<shown.target.disk, x[1]>>] = x[2]]
  /\ Succeeds("new", x)
  /\ UNCHANGED <<content, mounted, swapOn, active, lvMounted, running, erased>>

(* x = <<dev, fs>>                                                         *)
Mkfs(x) ==
  /\ Turn("mkfs") /\ x \in todo["mkfs"] /\ \A y \in todo["mkfs"] : x[1][2] <= y[1][2]
  /\ IF ~Held(x[1])
     THEN /\ erased' = erased \cup Losing(x[1])
          /\ content' = [content EXCEPT ![x[1]] = x[2]]
          /\ Succeeds("mkfs", x)
          /\ UNCHANGED <<type, mounted, swapOn, active, lvMounted, running>>
     ELSE Refuses("busy")

(* Any command may also fail for a reason of its own.                      *)
Perform ==
  /\ \/ \E dev \in todo["swapoff"] : Swapoff(dev)
     \/ \E m \in todo["umount"] : Umount(m)
     \/ \E g \in todo["vgchange"] : Vgchange(g)
     \/ \E dev \in todo["wipefs"] : Wipefs(dev)
     \/ \E disk \in todo["zap"] : ZapAll(disk)
     \/ \E x \in todo["new"] : NewPartition(x)
     \/ \E x \in todo["mkfs"] : Mkfs(x)
     \/ stage = "running" /\ Refuses("the command failed")
  /\ UNCHANGED <<choice, shown, before, changes>>

-----------------------------------------------------------------------------
(* The rest of the machine: the session mounts what it finds and the user  *)
(* unmounts it at any time.  Devices are formatted by others only until    *)
(* the installation starts; the code has no lock against it afterwards.    *)
Others ==
  /\ changes < MaxChanges
  /\ changes' = changes + 1
  /\ UNCHANGED <<stage, choice, shown, todo, erased, before, refusal>>

(* A partition that is there, or a disk without any.                       *)
Usable(dev) == IF dev[2] = 0 THEN Partitions(dev[1]) = {} ELSE dev[2] \in Partitions(dev[1])

Automount ==
  /\ Others
  /\ \E dev \in Devices : \E m \in MountPoints :
       /\ Usable(dev) /\ ~Held(dev)
       /\ content[dev] \in {"ext4", "vfat", "btrfs"}
       /\ mounted[m] = NoDevice
       /\ mounted' = [mounted EXCEPT ![m] = dev]
  /\ UNCHANGED <<content, type, swapOn, active, lvMounted, running>>

Unmount ==
  /\ Others
  /\ \E m \in MountPoints :
       /\ mounted[m] # NoDevice
       /\ mounted' = [k \in MountPoints |-> IF k \in Below[m] THEN NoDevice ELSE mounted[k]]
  /\ UNCHANGED <<content, type, swapOn, active, lvMounted, running>>

Reformat ==
  /\ Others
  /\ stage \in {"choosing", "planned"}
  /\ \E dev \in Devices : \E fs \in {"ext4", "swap"} :
       /\ dev[1] # LiveDisk /\ Usable(dev) /\ ~Held(dev)
       /\ content[dev] # fs
       /\ content' = [content EXCEPT ![dev] = fs]
  /\ UNCHANGED <<type, mounted, swapOn, active, lvMounted, running>>

Next == Choose \/ StartService \/ Perform \/ Automount \/ Unmount \/ Reformat

Spec == Init /\ [][Next]_vars
-----------------------------------------------------------------------------
Started == stage \in {"running", "failed", "prepared"}
Target == shown.target.disk

TypeOK ==
  /\ content \in [Devices -> Contents]
  /\ type \in [Disks \X Numbers -> Types]
  /\ mounted \in [MountPoints -> Devices \cup {NoDevice}]
  /\ swapOn \subseteq Devices /\ active \subseteq Groups /\ running \subseteq Arrays
  /\ stage \in {"choosing", "planned", "refused", "running", "failed", "prepared"}
  /\ DOMAIN todo = Tools /\ (stage = "running" => todo # Nothing)

(* Every partition that loses its data was on the summary the user         *)
(* confirmed, with that content (describe_disk_erasure, the revalidation), *)
(* and no device of another disk is written, a reused ESP and the live     *)
(* medium included.                                                        *)
LossesAreAgreed ==
  /\ \A e \in erased : e[1][2] > 0 =>
       \E line \in shown.erased : line.path = e[1] /\ line.fs = e[2]
  /\ Started =>
       /\ \A e \in erased : e[1][1] = Target
       /\ \A dev \in Devices : dev[1] # Target => content[dev] = before.content[dev]

(* A disk that as a whole belongs to a volume group the service was told   *)
(* of is refused although the wizard saw no group, and one in use by any   *)
(* array or active group is never written, although discovery may know     *)
(* nothing of either: wipefs comes before every other command on the disk  *)
(* and the kernel refuses it (apply_membership_roles, the revalidation,    *)
(* CreatePartitionTable).                                                  *)
MembersAreSpared ==
  \A e \in erased : e[1][2] = 0 => e[1] \notin before.members

(* The two places that number the new partitions agree: each is formatted  *)
(* for its type, and a prepared disk has one root, its last partition.     *)
FsOf == [t \in NewTypes |-> IF t = "ef00" THEN "vfat" ELSE IF t = "8200" THEN "swap" ELSE "btrfs"]

NumbersAgree ==
  Started =>
    LET t(n) == type[<<Target, n>>]
    IN  /\ \A n \in Partitions(Target) :
             t(n) = "old" \/ content[<<Target, n>>] \in {"none", FsOf[t(n)]}
        /\ stage = "prepared" =>
             /\ \A n \in Partitions(Target) :
                  /\ t(n) \in NewTypes /\ content[<<Target, n>>] = FsOf[t(n)]
                  /\ t(n) = "8300" <=> \A k \in Partitions(Target) : k <= n
             /\ Partitions(Target) # {}
             /\ shown.swap = "disk" <=> \E n \in Partitions(Target) : t(n) = "8200"

(* No signature of the old installation survives on the disk once a new    *)
(* partition exists (CreatePartitionTable wipes before it zaps).           *)
NothingStale ==
  Started =>
    LET t(n) == type[<<Target, n>>]
    IN  (\E n \in Numbers : t(n) \in NewTypes) =>
          \A n \in 0..MaxPartitions : content[<<Target, n>>] # "none" =>
            n # 0 /\ t(n) \in NewTypes /\ content[<<Target, n>>] = FsOf[t(n)]

(* A prepared machine has an ESP to boot from, a new one or one that the   *)
(* preparation did not destroy (existing_esp excludes the target), and its *)
(* root partition has at least MINIMUM_ROOT_SIZE_BYTES left.               *)
PreparedIsInstallable ==
  stage = "prepared" =>
    LET made(t) == \E n \in Numbers : type[<<Target, n>>] = t
    IN  /\ made("ef00") \/ (shown.esp # NoDevice /\ shown.esp[1] # Target)
        /\ Capacity[Target] - (IF made("ef00") THEN EspRecommendedSize ELSE 0)
                            - (IF made("8200") THEN DiskSwapSize ELSE 0) >= MinimumRootSize

-----------------------------------------------------------------------------
(* ReleaseDisk's documentation: it releases mounted filesystems, active    *)
(* swap and, after what is mounted on their volumes, the volume groups.    *)
(* An inactive swap area cannot be switched off, [SWAP] is not a mount     *)
(* point, and nothing unmounts a logical volume.                           *)
TargetIsReleased ==
  changes = 0 =>
    refusal \notin {"not a swap in use", "not a mount point", "volume in use"}

(* apply_membership_roles: a disk used whole as a physical volume is not   *)
(* mistaken for a free, installable one.  It is when no group is reported. *)
WholeVolumesAreNotFree ==
  \A e \in erased : e[1][2] = 0 /\ e[2] = "lvm" => \A g \in Groups : e[1] \notin PvsOf[g]
=============================================================================

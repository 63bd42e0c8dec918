----------------------------- MODULE StoragePlan -----------------------------
(***************************************************************************)
(* From a storage snapshot and the user's choice to the install plan:      *)
(* PlanBuilder::build (plan.rs) and what it asks of the snapshot           *)
(* (device.rs).  Sizes are in MiB.                                         *)
(*                                                                         *)
(* A snapshot s has the disks lsblk lists, s.disks[disk], the partitions   *)
(* on them, s.partitions[<<disk, n>>], and the arrays and volume groups    *)
(* found beside them.  Whole(disk) stands for the disk's own device.       *)
(***************************************************************************)
EXTENDS Integers, Sequences, SequencesExt, FiniteSetsExt

CONSTANTS
  espMount,     \* the mount point /boot/efi
  rootMount,    \* the mount point / of a logical volume
  NoDevice      \* EspPlan::Create has no path

MinimumRootSize == 20 * 1024
EspRecommendedSize == 300
DiskSwapSize == 8 * 1024

Unknown == -1        \* no capacity could be determined
FillRemaining == -1  \* SizePolicy::FillRemaining; other sizes are fixed

Whole(disk) == <<disk, 0>>

-----------------------------------------------------------------------------
(* eligible_disk: occupied disks are wiped, members are spared.            *)
EligibleDisk(s, disk) ==
  /\ disk \in DOMAIN s.disks
  /\ ~s.disks[disk].live
  /\ s.disks[disk].role \in {"Free", "Unsupported"}

EligibleArray(s, a) == a \in DOMAIN s.arrays /\ ~s.arrays[a].degraded

(* existing_esp: the first partition of another disk that is mounted at    *)
(* /boot/efi, disks in lsblk's order.                                      *)
Esps(s, target) ==
  {p \in DOMAIN s.partitions :
     /\ ~(target.kind = "disk" /\ p[1] = target.disk)
     /\ espMount \in s.partitions[p].mounts}

Precedes(s, p, q) ==
  \/ s.disks[p[1]].listed < s.disks[q[1]].listed
  \/ p[1] = q[1] /\ p[2] < q[2]

Esp(s, target) ==
  LET esps == Esps(s, target)
  IN  IF esps = {} THEN NoDevice
      ELSE CHOOSE p \in esps : \A q \in esps : ~Precedes(s, q, p)

-----------------------------------------------------------------------------
MinimumMembers == [Raid0 |-> 2, Raid1 |-> 2, Raid5 |-> 3, Raid6 |-> 4, Raid10 |-> 4]

AtLeastZero(n) == IF n < 0 THEN 0 ELSE n

RaidCapacity(level, count, smallest) ==
  smallest * [Raid0 |-> count, Raid1 |-> 1, Raid5 |-> AtLeastZero(count - 1),
              Raid6 |-> AtLeastZero(count - 2), Raid10 |-> count \div 2][level]

(* What the target offers, Unknown when it is a volume group or nothing    *)
(* eligible was named.                                                     *)
Available(s, target) ==
  LET eligible == {i \in DOMAIN target.members : EligibleDisk(s, target.members[i])}
      sizes == {s.disks[target.members[i]].size : i \in eligible}
  IN  IF target.kind = "disk" /\ EligibleDisk(s, target.disk) THEN s.disks[target.disk].size
      ELSE IF target.kind = "newRaid" /\ eligible # {}
      THEN RaidCapacity(target.level, Cardinality(eligible), Min(sizes))
      ELSE IF target.kind = "existingRaid" /\ EligibleArray(s, target.array)
      THEN s.arrays[target.array].size
      ELSE Unknown

(* Slip: the swap partition is not reserved.                               *)
ReservedForEsp(esp, swap) == IF esp = NoDevice THEN EspRecommendedSize ELSE 0

Reserved(esp, swap) ==
  (IF esp = NoDevice THEN EspRecommendedSize ELSE 0)
    + (IF swap = "disk" THEN DiskSwapSize ELSE 0)

RootAvailable(s, c) ==
  LET available == Available(s, c.target)
  IN  IF available = Unknown THEN Unknown
      ELSE AtLeastZero(available - Reserved(Esp(s, c.target), c.swap))

-----------------------------------------------------------------------------
TargetPossible(s, c) ==
  \/ c.target.kind = "disk" /\ EligibleDisk(s, c.target.disk)
  \/ /\ c.target.kind = "newRaid"
     /\ Len(c.target.members) >= MinimumMembers[c.target.level]
     /\ \A i \in DOMAIN c.target.members : EligibleDisk(s, c.target.members[i])
  \/ c.target.kind = "existingRaid" /\ EligibleArray(s, c.target.array)
  \/ c.target.kind = "none" /\ c.layer.kind = "existingGroup"

(* validate_logical_volumes                                                *)
VolumesFit(volumes, available) ==
  /\ volumes # <<>>
  /\ LET fixed == SelectSeq(volumes, LAMBDA v : v.size # FillRemaining)
     IN  available = Unknown \/ FoldSeq(LAMBDA v, sum : v.size + sum, 0, fixed) <= available

HasRootMount(volumes) == \E i \in DOMAIN volumes : volumes[i].mount = rootMount

LayerPossible(s, c) ==
  \/ c.layer.kind = "direct"
  \/ /\ c.layer.kind = "newGroup"
     /\ HasRootMount(c.layer.volumes)
     /\ VolumesFit(c.layer.volumes, RootAvailable(s, c))
  \/ /\ c.layer.kind = "existingGroup"
     /\ HasRootMount(c.layer.volumes)
     /\ c.layer.group \in DOMAIN s.groups
     /\ VolumesFit(c.layer.volumes, s.groups[c.layer.group].free)

LargeEnough(s, c) ==
  RootAvailable(s, c) # Unknown => RootAvailable(s, c) >= MinimumRootSize

(* The disks that will be wiped, and describe_disk_erasure: the partitions *)
(* on them, each with the first place it is mounted at.                    *)
Doomed(target) ==
  IF target.kind = "disk" THEN {target.disk}
  ELSE IF target.kind = "newRaid" THEN ToSet(target.members)
  ELSE {}

Line(s, p) ==
  [path |-> p, fs |-> s.partitions[p].fs,
   at |-> IF s.partitions[p].mounts = {} THEN NoDevice
          ELSE CHOOSE m \in s.partitions[p].mounts : TRUE]

Erasure(s, target) ==
  {Line(s, p) : p \in {q \in DOMAIN s.partitions : q[1] \in Doomed(target)}}

(* PlanBuilder::build: the reasons that block a choice, and the plan.      *)
Possible(s, c) == TargetPossible(s, c) /\ LayerPossible(s, c) /\ LargeEnough(s, c)

Build(s, c) ==
  [target |-> c.target, layer |-> c.layer, esp |-> Esp(s, c.target), swap |-> c.swap,
   erased |-> Erasure(s, c.target)]

(* plan_to_operations refuses RAID and LVM.                                *)
Translatable(plan) == plan.target.kind = "disk" /\ plan.layer.kind = "direct"
=============================================================================

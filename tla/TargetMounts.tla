----------------------------- MODULE TargetMounts -----------------------------
(***************************************************************************)
(* What is mounted where while the installer prepares its target, command  *)
(* by command: ReleaseDisk, CreateSubvolumes with its staging mount, one   *)
(* MountSubvolume per subvolume, MountEsp, the virtual filesystems of the  *)
(* chroot, and the unwind (operations/mod.rs, operations/deploy.rs, after  *)
(* plan.rs's list of subvolumes).  A service may be killed anywhere; the   *)
(* next one finds what it left and may be asked for another disk.          *)
(***************************************************************************)
EXTENDS Integers, Sequences, SequencesExt, FiniteSetsExt

CONSTANTS
  Names,       \* components of paths
  Subvolumes,  \* mount points of the plan's subvolumes, relative to /
  Disks,       \* disks one can install on
  NoDisk,      \* of filesystems that are on none of them
  Attempts,    \* bound on the services of one live session
  Faults       \* bound on kills, failing commands and busy mount points

(* default_subvolumes: the path of each under /, and under /@ as well.     *)
DefaultSubvolumes ==
  << <<>>, <<"home">>, <<"opt">>, <<"srv">>, <<"tmp">>, <<"usr", "local">>, <<"var", "cache">>,
     <<"var", "crash">>, <<"var", "lib", "machines">>, <<"var", "lib", "mailman">>,
     <<"var", "lib", "named">>, <<"var", "log">>, <<"var", "opt">>, <<"var", "spool">>,
     <<"var", "tmp">>, <<"boot", "grub2", "i386-pc">>, <<"boot", "grub2", "x86_64-efi">>,
     <<"var", "lib", "libvirt", "images">>, <<"var", "lib", "mariadb">>,
     <<"var", "lib", "mysql">>, <<"var", "lib", "pgsql">> >>

EspPath == <<"boot", "efi">>
VirtualPaths ==
  << <<"proc">>, <<"sys">>, <<"dev">>, <<"run">>, <<"run", "udev">>,
     <<"sys", "firmware", "efi", "efivars">> >>

(* / is there, nothing is listed twice or before what it lies under, and   *)
(* nothing lies in the ESP or in a virtual filesystem.                     *)
WellFormed(list) ==
  /\ list # <<>> /\ list[1] = <<>>
  /\ \A i, j \in DOMAIN list : i < j => ~IsPrefix(list[j], list[i])
  /\ \A i \in DOMAIN list :
       /\ ~IsPrefix(EspPath, list[i])
       /\ \A k \in DOMAIN VirtualPaths : ~IsPrefix(VirtualPaths[k], list[i])

OwnNames ==
  {"staging", "target", "@", "boot", "efi", "proc", "sys", "dev", "run", "udev", "firmware",
   "efivars"}

ASSUME MountsAssumption ==
  /\ OwnNames \subseteq Names /\ Subvolumes \in Seq(Seq(Names))
  /\ WellFormed(DefaultSubvolumes)
  /\ WellFormed(Subvolumes)
  /\ Attempts \in Nat /\ Faults \in Nat
  /\ NoDisk \notin Disks

Staging == <<"staging">>
Dest(path) == <<"target">> \o path      \* join_under
Volume(path) == <<"@">> \o path

(* sort_by_key is stable: the element at i goes to Position(key, i).       *)
Position(key, i) ==
  Cardinality({j \in DOMAIN key : key[j] < key[i] \/ (key[j] = key[i] /\ j <= i)})
StableSort(key) == [k \in DOMAIN key |-> CHOOSE i \in DOMAIN key : Position(key, i) = k]

Components(list) == [i \in DOMAIN list |-> Len(list[i])]

(* Slip: the order that ReleaseDisk needs, used for mounting.              *)
MountOrderDeepFirst ==
  LET order == StableSort([i \in DOMAIN Subvolumes |-> -Len(Subvolumes[i])])
  IN  [k \in DOMAIN Subvolumes |-> Subvolumes[order[k]]]

(* Parents first, otherwise the order of the plan.                         *)
MountOrder ==
  LET order == StableSort(Components(Subvolumes))
  IN  [k \in DOMAIN Subvolumes |-> Subvolumes[order[k]]]

Operation(kind, path) == [kind |-> kind, path |-> path]
One(kind) == <<Operation(kind, <<>>)>>
Each(kind, paths) == [i \in DOMAIN paths |-> Operation(kind, paths[i])]

(* plan_to_operations and deployment_operations; "format" stands for the   *)
(* partition table and mkfs, "files" and "chroot" for what writes below    *)
(* the target before and after the virtual filesystems are there.          *)
Preparing ==
  <<Operation("release", <<>>), Operation("format", <<>>), Operation("create", <<>>)>>
Filling ==
  Each("esp", <<EspPath>>) \o One("files") \o Each("virtual", VirtualPaths) \o One("chroot")
Operations == Preparing \o Each("subvolume", MountOrder) \o Filling

Mounting == {"subvolume", "esp", "virtual"}

VARIABLES
  attempt,      \* services started so far; the last one is at work
  disk,         \* its target
  espDisk,      \* where its ESP is: the target, or NoDisk when one is reused
  phase,        \* "idle", "working", "unwinding", "ended", "dead"
  op,           \* the operation it is at
  part,         \* commands of that operation that were run
  undoing,      \* the operation the unwind is at
  listed,       \* mounts of the target when it looked, still to be released
  mounts,       \* the mount table
  volumes,      \* subvolumes in the target's new file system
  directories,  \* plain directories in it
  refused,      \* the kernel refused a command to this service ...
  stuck,        \* ... or an umount failed because of somebody else
  buried,       \* at its start, what another disk left lay over its target's
  faults        \* faults left

plan == <<attempt, disk, espDisk, buried>>
progress == <<phase, op, part, undoing, listed>>
filesystem == <<volumes, directories>>
vars == <<plan, progress, mounts, filesystem, refused, stuck, faults>>

(* The mount that the current operation makes; disk: where what is mounted *)
(* is, by: the service that mounts it.                                     *)
Mount(at, on) == [at |-> at, disk |-> on, by |-> attempt, op |-> op]

Init ==
  /\ attempt = 0 /\ disk = NoDisk /\ espDisk = NoDisk /\ listed = {} /\ buried = FALSE
  /\ phase = "idle" /\ op = 1 /\ part = 0 /\ undoing = 0
  /\ mounts = {} /\ volumes = {} /\ directories = {}
  /\ refused = FALSE /\ stuck = FALSE
  /\ faults = Faults

-----------------------------------------------------------------------------
(* The kernel's mount table.  A path leads to the newest mount at it or at *)
(* one of its parents; that one can go when nothing newer lies in it.      *)
Newer(m, k) == m.by > k.by \/ (m.by = k.by /\ m.op > k.op)
OnTop(m) == \A k \in mounts : Newer(k, m) => ~IsPrefix(k.at, m.at)
Inside(m) == {k \in mounts : Newer(k, m) /\ IsPrefix(m.at, k.at)}
MountsAt(path) == {m \in mounts : m.at = path /\ OnTop(m)}   \* at most one

MountsOf(d) == {m \in mounts : m.disk = d}

Mounts(at, on) == mounts' = mounts \cup {Mount(at, on)}
Unmounts(path) == mounts' = mounts \ MountsAt(path)
UnmountsAll(path) == mounts' = mounts \ (MountsAt(path) \cup UNION {Inside(m) : m \in MountsAt(path)})

Fault == faults > 0 /\ faults' = faults - 1

-----------------------------------------------------------------------------
At(kind) == phase = "working" /\ Operations[op].kind = kind
Current == Operations[op]

(* Slip: the loop goes on after the last operation.                        *)
PerformedPastTheEnd == op' = op + 1 /\ part' = 0 /\ UNCHANGED <<phase, undoing, listed>>

(* The operation is done; after the last one the unwind undoes them all.   *)
Performed ==
  /\ part' = 0 /\ UNCHANGED listed
  /\ IF op < Len(Operations)
     THEN op' = op + 1 /\ UNCHANGED <<phase, undoing>>
     ELSE phase' = "unwinding" /\ undoing' = op /\ UNCHANGED op

(* It failed, or a cancellation was seen before it: it is not undone.      *)
TurnBack == phase' = "unwinding" /\ undoing' = op - 1 /\ part' = 0 /\ UNCHANGED <<op, listed>>

(* A command that others make fail, and one the kernel refuses.            *)
Fails == Fault /\ TurnBack /\ UNCHANGED <<mounts, filesystem, refused, stuck>>
Refuses == refused' = TRUE /\ TurnBack /\ UNCHANGED <<mounts, filesystem, stuck, faults>>

(* A service starts: it lists what is mounted from its target, an earlier  *)
(* one being over.                                                         *)
Start ==
  /\ phase \in {"idle", "ended", "dead"} /\ attempt < Attempts
  /\ attempt' = attempt + 1
  /\ \E d \in Disks : disk' = d /\ espDisk' \in {d, NoDisk}
  /\ listed' = MountsOf(disk')
  /\ buried' = \E m \in MountsOf(disk') : ~OnTop(m)
  /\ phase' = "working" /\ op' = 1 /\ part' = 0 /\ undoing' = 0
  /\ refused' = FALSE /\ stuck' = FALSE
  /\ UNCHANGED <<mounts, filesystem, faults>>

(* ReleaseDisk: umount -R, one mount point after the other, the deepest    *)
(* first; of two that are equally deep neither is in the way.              *)
ReleaseOne(m) ==
  /\ \A k \in listed : Len(k.at) <= Len(m.at)
  /\ \/ /\ MountsAt(m.at) # {}
        /\ UnmountsAll(m.at)
        /\ listed' = listed \ {m} /\ part' = part + 1
        /\ UNCHANGED <<phase, op, undoing, filesystem, refused, stuck, faults>>
     \/ MountsAt(m.at) = {} /\ Refuses

Release ==
  /\ At("release")
  /\ \/ \E m \in listed : ReleaseOne(m)
     \/ listed # {} /\ Fails
     \/ listed = {} /\ Performed /\ UNCHANGED <<mounts, filesystem, refused, stuck, faults>>
  /\ UNCHANGED plan

(* wipefs and mkfs refuse a disk in use.                                   *)
Format ==
  /\ At("format")
  /\ \/ /\ MountsOf(disk) = {}
        /\ volumes' = {} /\ directories' = {}
        /\ Performed
        /\ UNCHANGED <<mounts, refused, stuck, faults>>
     \/ MountsOf(disk) # {} /\ Refuses
     \/ Fails
  /\ UNCHANGED plan

(* CreateSubvolumes: the staging mount, one subvolume after the other with *)
(* plain directories for the parents that are missing, the staging umount. *)
MountStaging ==
  /\ At("create") /\ part = 0
  /\ \/ /\ Mounts(Staging, disk)
        /\ part' = 1
        /\ UNCHANGED <<phase, op, undoing, listed, filesystem, refused, stuck, faults>>
     \/ Fails
  /\ UNCHANGED plan

Parents(path) == Prefixes(path) \ {<<>>, path}

CreateSubvolume ==
  /\ At("create") /\ part \in 1..Len(Subvolumes)
  /\ LET leaf == Volume(Subvolumes[part])
     IN  /\ leaf \notin volumes \cup directories
         /\ volumes' = volumes \cup {leaf}
         /\ directories' = directories \cup (Parents(leaf) \ volumes)
  /\ part' = part + 1
  /\ UNCHANGED <<plan, phase, op, undoing, listed, mounts, refused, stuck, faults>>

(* Slip: an error returns at once, past the cleanup.                       *)
CreationFailsEarly ==
  /\ At("create") /\ part \in 1..Len(Subvolumes)
  /\ Fails /\ UNCHANGED plan

(* btrfs or chattr fails: the staging path is unmounted all the same.      *)
CreationFails ==
  /\ At("create") /\ part \in 1..Len(Subvolumes)
  /\ \/ Fault /\ UNCHANGED refused
     \/ /\ Volume(Subvolumes[part]) \in volumes \cup directories
        /\ refused' = TRUE /\ UNCHANGED faults
  /\ TurnBack
  /\ \/ Unmounts(Staging) /\ UNCHANGED stuck
     \/ stuck' = TRUE /\ UNCHANGED mounts
  /\ UNCHANGED <<plan, filesystem>>

UnmountStaging ==
  /\ At("create") /\ part = Len(Subvolumes) + 1
  /\ \/ /\ Unmounts(Staging)
        /\ Performed
        /\ UNCHANGED <<stuck, faults>>
     \/ Fault /\ stuck' = TRUE /\ TurnBack /\ UNCHANGED mounts
  /\ UNCHANGED <<plan, filesystem, refused>>

DiskOf(kind) ==
  IF kind = "subvolume" THEN disk ELSE IF kind = "esp" THEN espDisk ELSE NoDisk

(* MountSubvolume, MountEsp, BindMount and MountVirtualFs.                 *)
MountOn ==
  /\ Current.kind \in Mounting /\ phase = "working"
  /\ LET possible == Current.kind = "subvolume" => Volume(Current.path) \in volumes
     IN  \/ /\ possible
            /\ Mounts(Dest(Current.path), DiskOf(Current.kind))
            /\ Performed
            /\ UNCHANGED <<filesystem, refused, stuck, faults>>
         \/ ~possible /\ Refuses
         \/ Fails
  /\ UNCHANGED plan

(* Everything else that is written below the target.                       *)
Write ==
  /\ At("files") \/ At("chroot")
  /\ \/ Performed /\ UNCHANGED <<mounts, filesystem, refused, stuck, faults>>
     \/ Fails
  /\ UNCHANGED plan

Cancel ==
  /\ phase = "working" /\ part = 0
  /\ TurnBack
  /\ UNCHANGED <<plan, mounts, filesystem, refused, stuck, faults>>

-----------------------------------------------------------------------------
(* Slip: the operations are undone in the order they were done.            *)
UndoneForwards == Operations[op - undoing]

Undone == Operations[undoing]

(* One undo, and on with the next whatever it returned.  Operations that   *)
(* are not mounts have none.                                               *)
Undo ==
  /\ phase = "unwinding" /\ undoing > 0
  /\ undoing' = undoing - 1
  /\ LET path == Dest(Undone.path)
         possible == \E m \in MountsAt(path) : Inside(m) = {}
     IN  IF Undone.kind \in Mounting
         THEN \/ possible /\ Unmounts(path) /\ UNCHANGED <<refused, stuck, faults>>
              \/ ~possible /\ refused' = TRUE /\ UNCHANGED <<mounts, stuck, faults>>
              \/ Fault /\ stuck' = TRUE /\ UNCHANGED <<mounts, refused>>
         ELSE UNCHANGED <<mounts, refused, stuck, faults>>
  /\ UNCHANGED <<plan, phase, op, part, listed, filesystem>>

End ==
  /\ phase = "unwinding" /\ undoing = 0
  /\ phase' = "ended"
  /\ UNCHANGED <<plan, op, part, undoing, listed, mounts, filesystem, refused, stuck, faults>>

(* SIGKILL, or a line written to a window that is gone.                    *)
Die ==
  /\ phase \in {"working", "unwinding"}
  /\ phase' = "dead" /\ Fault
  /\ UNCHANGED <<plan, op, part, undoing, listed, mounts, filesystem, refused, stuck>>

Next ==
  \/ Start \/ Release \/ Format
  \/ MountStaging \/ CreateSubvolume \/ CreationFails \/ UnmountStaging
  \/ MountOn \/ Write \/ Cancel \/ Undo \/ End \/ Die

Spec == Init /\ [][Next]_vars

-----------------------------------------------------------------------------
TypeOK ==
  /\ attempt \in 0..Attempts
  /\ disk \in Disks \cup {NoDisk} /\ espDisk \in {disk, NoDisk}
  /\ phase \in {"idle", "working", "unwinding", "ended", "dead"}
  /\ op \in DOMAIN Operations /\ undoing \in 0..Len(Operations)
  /\ part \in Nat /\ (part > 0 => Current.kind \in {"release", "create"})
  /\ listed \subseteq [at : Seq(Names), disk : Disks, by : 1..attempt, op : DOMAIN Operations]
  /\ mounts \subseteq [at : Seq(Names), disk : Disks \cup {NoDisk}, by : 1..attempt,
                         op : DOMAIN Operations]
  /\ volumes \cap directories = {}

(* No mount of a service hides what it mounted before: as long as it works *)
(* every path below the target leads to the file system the plan has for   *)
(* it, so nothing is written into a directory that a later mount covers    *)
(* (the sort in plan_to_operations).                                       *)
WritesLandInTheirSubvolume ==
  phase = "working" =>
    \A i \in 1..op - 1 : Operations[i].kind \in Mounting =>
      \E m \in MountsAt(Dest(Operations[i].path)) : m.by = attempt /\ m.op = i

(* A service is never in its own way, nor in that of the one before it: no *)
(* umount meets a busy mount point, no subvolume an existing directory, no *)
(* mkfs a mounted disk, also after a service that was killed - unless a    *)
(* third party held a mount point, or two killed services left the mounts  *)
(* of two disks one over the other.                                        *)
OnlyOthersInterfere == refused => stuck \/ buried

(* A service that ends by itself leaves nothing mounted, whichever of its  *)
(* commands failed, as long as every umount did what it should.            *)
NothingIsLeftMounted ==
  phase = "ended" /\ ~stuck => \A m \in mounts : m.by # attempt
=============================================================================

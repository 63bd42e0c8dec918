------------------------ MODULE DiskPreparationProofs ------------------------
(***************************************************************************)
(* Proofs about DiskPreparation, for every machine DiskAssumption allows   *)
(* and whatever the wizard asks for.  Before the service starts nothing is *)
(* written and the machine stays plausible; the revalidation then fixes    *)
(* what is agreed (Agreement), and from then on the state of the target is *)
(* determined by the commands that are left (BeforeZap, AfterZap).  Next   *)
(* to it, a member of an array or group that no command releases stays in  *)
(* use, so that the kernel refuses it (Spared).                            *)
(***************************************************************************)
EXTENDS DiskPreparation, WellFoundedInduction, TLAPS

(* The machine as Plausible describes it, in the variables.                *)
Tidy ==
  /\ \A disk \in Disks : \A n \in Numbers :
       /\ type[<<disk, n>>] \in {"absent", "old"}
       /\ IF type[<<disk, n>>] = "absent" THEN content[<<disk, n>>] = "none"
                                          ELSE content[Whole(disk)] = "none"
  /\ active \subseteq LabelledGroups

(* What the revalidation establishes of the plan.                          *)
Agreement ==
  /\ Target \in Disks
  /\ shown.esp # NoDevice => shown.esp[1] # Target
  /\ Capacity[Target] - Reserved(shown.esp, shown.swap) >= MinimumRootSize
  /\ \A n \in Numbers : before.content[<<Target, n>>] # "none" =>
       \E line \in shown.erased :
         line.path = <<Target, n>> /\ line.fs = before.content[<<Target, n>>]

(* What was lost was on the target, and nothing else was touched.          *)
History ==
  /\ \A dev \in Devices : dev[1] # Target => content[dev] = before.content[dev]
  /\ \A e \in erased : \E n \in 0..MaxPartitions :
       /\ e = <<<<Target, n>>, before.content[<<Target, n>>]>>
       /\ before.content[<<Target, n>>] # "none"

(* While the old table is there, what was not wiped is as it was.          *)
BeforeZap ==
  /\ todo["zap"] = {Target}
  /\ todo["new"] = Layout(shown) /\ todo["mkfs"] = Format(Target, shown)
  /\ \A dev \in todo["wipefs"] : dev \in Devices /\ dev[1] = Target
  /\ \A n \in Numbers : type[<<Target, n>>] \in {"absent", "old"}
  /\ \A n \in 0..MaxPartitions :
       content[<<Target, n>>] =
         IF <<Target, n>> \in todo["wipefs"] THEN before.content[<<Target, n>>] ELSE "none"

(* Afterwards the target has what was made and formatted, no more.         *)
AfterZap ==
  /\ todo["zap"] = {} /\ todo["wipefs"] = {}
  /\ todo["new"] \subseteq Layout(shown) /\ todo["mkfs"] \subseteq Format(Target, shown)
  /\ todo["new"] = {} \/ todo["mkfs"] = Format(Target, shown)
  /\ \A n \in Numbers :
       /\ type[<<Target, n>>] \in NewTypes \cup {"absent"}
       /\ \A t \in NewTypes :
            type[<<Target, n>>] = t <=> <<n, t>> \in Layout(shown) \ todo["new"]
  /\ content[Whole(Target)] = "none"
  /\ \A n \in Numbers : \A fs \in Contents \ {"none"} :
       content[<<Target, n>>] = fs <=> <<<<Target, n>>, fs>> \in Format(Target, shown) \ todo["mkfs"]

(* A target that is a member as a whole is in use, no command of the       *)
(* service changes that, and nothing of it was lost.                       *)
Spared ==
  Whole(Target) \in before.members =>
    /\ before.content[Whole(Target)] # "none" =>
         Whole(Target) \in UsedMembers /\ todo["vgchange"] = {}
    /\ \A e \in erased : e[1] # Whole(Target)

Inv ==
  /\ TypeOK
  /\ stage \in {"choosing", "planned", "refused"} => erased = {} /\ Tidy
  /\ Started => Agreement /\ History /\ (BeforeZap \/ AfterZap)
  /\ stage = "prepared" => todo = Nothing

-----------------------------------------------------------------------------
(* A non-empty set of natural numbers has a least one.                     *)
Less == {pair \in Nat \X Nat : pair[1] < pair[2]}

LEMMA LeastNumber ==
  ASSUME NEW S \in SUBSET Nat, S # {}
  PROVE  \E least \in S : \A n \in S : least <= n
<1>1. IsWellFoundedOn(Less, Nat)
  BY NatLessThanWellFounded, Zenon DEF OpToRel, Less
<1>2. PICK least \in S : \A n \in S : <<n, least>> \notin Less
  BY <1>1, WFMin
<1>3. ASSUME NEW n \in S PROVE least <= n
  <2>1. n \in Nat /\ least \in Nat
    OBVIOUS
  <2>2. n < least => <<n, least>> \in Less
    BY <2>1 DEF Less
  <2>. QED
    BY <1>2, <2>1, <2>2
<1>. QED
  BY <1>3

(* What is reused as the ESP is a partition of the snapshot, on another    *)
(* disk than the one that is going to be wiped (existing_esp).             *)
LEMMA EspIsSpared ==
  ASSUME NEW s, NEW target, target.kind = "disk",
         \A p \in DOMAIN s.partitions : p[2] \in Nat /\ s.disks[p[1]].listed \in Nat,
         Esp(s, target) # NoDevice
  PROVE  Esp(s, target) \in DOMAIN s.partitions /\ Esp(s, target)[1] # target.disk
<1> DEFINE esps == Esps(s, target)
           at(p) == s.disks[p[1]].listed
<1>1. esps # {} /\ Esp(s, target) = CHOOSE p \in esps : \A q \in esps : ~Precedes(s, q, p)
  BY DEF Esp
<1>2. \A p \in esps : /\ p \in DOMAIN s.partitions /\ p[1] # target.disk
                      /\ at(p) \in Nat /\ p[2] \in Nat
  BY DEF Esps
<1>3. \E p \in esps : \A q \in esps : ~Precedes(s, q, p)
  <2> DEFINE places == {at(p) : p \in esps}
  <2>1. PICK first \in places : \A n \in places : first <= n
    <3>1. places \in SUBSET Nat /\ places # {}
      BY <1>1, <1>2
    <3>. QED
      BY <3>1, LeastNumber
  <2>2. PICK p1 \in esps : at(p1) = first
    OBVIOUS
  <2> DEFINE numbers == {p[2] : p \in {q \in esps : q[1] = p1[1]}}
  <2>3. PICK least \in numbers : \A n \in numbers : least <= n
    <3>1. numbers \in SUBSET Nat /\ numbers # {}
      BY <1>2
    <3>. QED
      BY <3>1, LeastNumber
  <2>4. PICK p \in esps : p[1] = p1[1] /\ p[2] = least
    OBVIOUS
  <2>5. \A q \in esps : ~Precedes(s, q, p)
    <3> SUFFICES ASSUME NEW q \in esps, Precedes(s, q, p) PROVE FALSE
      OBVIOUS
    <3>1. at(q) \in places /\ at(q) \in Nat /\ at(p) = first /\ first \in Nat
      BY <1>2, <2>2, <2>4
    <3>2. ~(at(q) < at(p))
      <4>1. first <= at(q)
        BY <3>1, <2>1
      <4>. HIDE DEF at
      <4>. QED
        BY <3>1, <4>1
    <3>3. q[1] = p[1] /\ q[2] < p[2]
      BY <3>2 DEF Precedes
    <3>4. q[2] \in numbers /\ q[2] \in Nat /\ p[2] \in Nat
      BY <1>2, <3>3, <2>4
    <3>5. p[2] <= q[2]
      BY <3>4, <2>3, <2>4
    <3>. QED
      BY <3>3, <3>4, <3>5
  <2>. QED
    BY <2>5
<1>4. Esp(s, target) \in esps
  BY <1>1, <1>3
<1>. QED
  BY <1>2, <1>4

(* The two places that number the new partitions agree.                    *)
LEMMA Numbering ==
  ASSUME NEW disk, NEW plan
  PROVE  /\ \A x \in Layout(plan) : x = <<x[1], x[2]>> /\ x[1] \in 1..3 /\ x[2] \in NewTypes
         /\ \A x, y \in Layout(plan) : x[1] = y[1] => x = y
         /\ \A x \in Layout(plan) : <<<<disk, x[1]>>, FsOf[x[2]]>> \in Format(disk, plan)
         /\ \A x \in Format(disk, plan) : \E y \in Layout(plan) :
              x = <<<<disk, y[1]>>, FsOf[y[2]]>>
         /\ \A x \in Format(disk, plan) : /\ x = <<x[1], x[2]>> /\ x[1][1] = disk
                                         /\ x[1] = <<disk, x[1][2]>> /\ x[1][2] \in 1..3
                                         /\ x[2] \in Contents \ {"none"}
         /\ \A x, y \in Format(disk, plan) : x[1] = y[1] => x = y
         /\ \E y \in Layout(plan) : y[2] = "8300"
         /\ \A x \in Layout(plan) : x[2] = "8300" <=> \A y \in Layout(plan) : y[1] <= x[1]
         /\ (\E x \in Layout(plan) : x[2] = "ef00") <=> plan.esp = NoDevice
         /\ (\E x \in Layout(plan) : x[2] = "8200") <=> plan.swap = "disk"
<1>1. CASE plan.esp = NoDevice /\ plan.swap = "disk"
  <2>1. Layout(plan) = {<<1, "ef00">>, <<2, "8200">>, <<3, "8300">>}
    BY <1>1 DEF Layout
  <2>2. Format(disk, plan) = {<<<<disk, 1>>, "vfat">>, <<<<disk, 2>>, "swap">>, <<<<disk, 3>>, "btrfs">>}
    BY <1>1 DEF Format, Partition
  <2>. QED
    BY <1>1, <2>1, <2>2 DEF FsOf, NewTypes, Contents
<1>2. CASE plan.esp = NoDevice /\ plan.swap # "disk"
  <2>1. Layout(plan) = {<<1, "ef00">>, <<2, "8300">>}
    BY <1>2 DEF Layout
  <2>2. Format(disk, plan) = {<<<<disk, 1>>, "vfat">>, <<<<disk, 2>>, "btrfs">>}
    BY <1>2 DEF Format, Partition
  <2>. QED
    BY <1>2, <2>1, <2>2 DEF FsOf, NewTypes, Contents
<1>3. CASE plan.esp # NoDevice /\ plan.swap = "disk"
  <2>1. Layout(plan) = {<<1, "8200">>, <<2, "8300">>}
    BY <1>3 DEF Layout
  <2>2. Format(disk, plan) = {<<<<disk, 1>>, "swap">>, <<<<disk, 2>>, "btrfs">>}
    BY <1>3 DEF Format, Partition
  <2>. QED
    BY <1>3, <2>1, <2>2 DEF FsOf, NewTypes, Contents
<1>4. CASE plan.esp # NoDevice /\ plan.swap # "disk"
  <2>1. Layout(plan) = {<<1, "8300">>}
    BY <1>4 DEF Layout
  <2>2. Format(disk, plan) = {<<<<disk, 1>>, "btrfs">>}
    BY <1>4 DEF Format, Partition
  <2>. QED
    BY <1>4, <2>1, <2>2 DEF FsOf, NewTypes, Contents
<1>. QED
  BY <1>1, <1>2, <1>3, <1>4

-----------------------------------------------------------------------------
(* What the snapshot holds, whatever groups were reported.                *)
LEMMA SnapshotFacts ==
  ASSUME NEW groups
  PROVE  LET s == Snapshot(groups)
         IN  /\ DOMAIN s.disks = Candidates /\ Candidates \subseteq Disks
             /\ \A disk \in Candidates :
                  /\ s.disks[disk].size = Capacity[disk]
                  /\ s.disks[disk].listed = ListedAt[disk]
                  /\ s.disks[disk].live <=> disk = LiveDisk
                  /\ s.disks[disk].role = Role(disk, groups)
             /\ DOMAIN s.partitions = {p \in Candidates \X Numbers : type[p] # "absent"}
             /\ \A p \in DOMAIN s.partitions : s.partitions[p].fs = content[p]
<1> DEFINE s == Snapshot(groups)
<1>1. s.disks = [disk \in Candidates |-> DiskEntry(disk, groups)]
  BY DEF Snapshot
<1>2. ASSUME NEW disk \in Candidates
      PROVE  /\ s.disks[disk].size = Capacity[disk]
             /\ s.disks[disk].listed = ListedAt[disk]
             /\ s.disks[disk].live <=> disk = LiveDisk
             /\ s.disks[disk].role = Role(disk, groups)
  <2>1. s.disks[disk] = DiskEntry(disk, groups)
    BY <1>1
  <2>. HIDE DEF s
  <2>2. s.disks[disk].size = Capacity[disk]
    BY <2>1 DEF DiskEntry
  <2>3. s.disks[disk].listed = ListedAt[disk]
    BY <2>1 DEF DiskEntry
  <2>4. s.disks[disk].live = (disk = LiveDisk)
    BY <2>1 DEF DiskEntry
  <2>5. s.disks[disk].role = Role(disk, groups)
    BY <2>1 DEF DiskEntry
  <2>. QED
    BY <2>2, <2>3, <2>4, <2>5
<1>3. /\ DOMAIN s.partitions = {p \in Candidates \X Numbers : type[p] # "absent"}
      /\ \A p \in DOMAIN s.partitions : s.partitions[p].fs = content[p]
  BY DEF Snapshot, PartitionEntry
<1>. QED
  BY <1>1, <1>2, <1>3 DEF Candidates

(* The revalidation as root: the plan that is run is the one that was      *)
(* shown, and the machine is still what the plan says.                     *)
LEMMA Acceptance ==
  ASSUME TypeOK, Tidy, erased = {}, StartService, stage' = "running"
  PROVE  Agreement' /\ History' /\ BeforeZap' /\ Spared'
<1> PICK groups \in Reports :
      LET s == Snapshot(groups)
      IN  /\ Accepts(s) /\ todo' = Operations(shown, s)
          /\ before' = [content |-> content,
                        members |-> UsedMembers \cup UNION {PvsOf[g] : g \in groups}]
  BY DEF StartService
<1> DEFINE s == Snapshot(groups)
           T == shown.target.disk
<1>1. /\ Accepts(s) /\ todo' = Operations(shown, s)
      /\ UNCHANGED <<content, type, active, running, shown, erased>>
      /\ before' = [content |-> content,
                    members |-> UsedMembers \cup UNION {PvsOf[g] : g \in groups}]
  BY DEF StartService, machineVars
<1>2. /\ shown.target.kind = "disk" /\ choice.target = shown.target
      /\ choice.swap = shown.swap
      /\ shown.esp = Esp(s, shown.target) /\ shown.erased = Erasure(s, shown.target)
      /\ EligibleDisk(s, T) /\ LargeEnough(s, choice)
  <2>1. shown = Build(s, choice) /\ Translatable(shown) /\ Possible(s, choice)
    BY <1>1 DEF Accepts
  <2>2. /\ shown.target = choice.target /\ shown.swap = choice.swap
        /\ shown.esp = Esp(s, choice.target) /\ shown.erased = Erasure(s, choice.target)
    BY <2>1 DEF Build
  <2>3. shown.target.kind = "disk"
    BY <2>1 DEF Translatable
  <2>. QED
    BY <2>1, <2>2, <2>3 DEF Possible, TargetPossible
<1>3. /\ DOMAIN s.disks = Candidates /\ Candidates \subseteq Disks
      /\ \A disk \in Candidates :
           /\ s.disks[disk].size = Capacity[disk]
           /\ s.disks[disk].listed = ListedAt[disk]
           /\ s.disks[disk].live <=> disk = LiveDisk
           /\ s.disks[disk].role = Role(disk, groups)
      /\ DOMAIN s.partitions = {p \in Candidates \X Numbers : type[p] # "absent"}
      /\ \A p \in DOMAIN s.partitions : s.partitions[p].fs = content[p]
  BY SnapshotFacts
<1>4. /\ T \in Candidates /\ T \in Disks /\ T # LiveDisk
      /\ Role(T, groups) \in {"Free", "Unsupported"}
  BY <1>2, <1>3 DEF EligibleDisk
<1> HIDE DEF s
<1>5. shown.esp # NoDevice => shown.esp[1] # T
  <2>1. ASSUME NEW p \in DOMAIN s.partitions
        PROVE  p[2] \in Nat /\ s.disks[p[1]].listed \in Nat
    <3>1. p[1] \in Candidates /\ p[2] \in Numbers
      BY <1>3
    <3>2. p[2] \in Nat
      BY <3>1, DiskAssumption DEF Numbers
    <3>3. s.disks[p[1]].listed = ListedAt[p[1]] /\ p[1] \in Disks
      BY <1>3, <3>1
    <3>. QED
      BY <3>2, <3>3, DiskAssumption
  <2>. QED
    BY <1>2, <2>1, EspIsSpared
<1>6. Capacity[T] - Reserved(shown.esp, shown.swap) >= MinimumRootSize
  <2>1. Available(s, choice.target) = Capacity[T] /\ Capacity[T] \in Nat
    <3>1. Available(s, choice.target) = s.disks[T].size
      BY <1>2 DEF Available
    <3>. QED
      BY <1>3, <1>4, <3>1, DiskAssumption
  <2>2. Reserved(shown.esp, shown.swap) \in Int
    BY DEF Reserved, EspRecommendedSize, DiskSwapSize
  <2>3. RootAvailable(s, choice) = AtLeastZero(Capacity[T] - Reserved(shown.esp, shown.swap))
    BY <1>2, <2>1 DEF RootAvailable, Unknown
  <2>. QED
    BY <1>2, <2>1, <2>2, <2>3 DEF LargeEnough, AtLeastZero, Unknown, MinimumRootSize
<1>7. \A n \in Numbers : content[<<T, n>>] # "none" =>
        \E line \in shown.erased : line.path = <<T, n>> /\ line.fs = content[<<T, n>>]
  <2> SUFFICES ASSUME NEW n \in Numbers, content[<<T, n>>] # "none"
               PROVE  \E line \in shown.erased :
                        line.path = <<T, n>> /\ line.fs = content[<<T, n>>]
    OBVIOUS
  <2>1. <<T, n>> \in DOMAIN s.partitions
    BY <1>3, <1>4 DEF Tidy
  <2>2. Line(s, <<T, n>>) \in shown.erased
    BY <1>2, <2>1 DEF Erasure, Doomed
  <2>. QED
    BY <1>3, <2>1, <2>2 DEF Line
<1>8. Spared'
  <2>1. ASSUME content[Whole(T)] # "none", Whole(T) \in before'.members
        PROVE  Whole(T) \in UsedMembers /\ todo'["vgchange"] = {}
    <3>1. Partitions(T) = {} /\ PartitionsIn(s, T) = {}
      BY <1>3, <1>4, <2>1 DEF Tidy, Partitions, PartitionsIn
    <3>2. \A g \in groups : Whole(T) \notin PvsOf[g]
      BY <1>4, <3>1 DEF Role
    <3>3. Whole(T) \in UsedMembers
      BY <1>1, <2>1, <3>2
    <3>4. todo'["vgchange"] = ReleaseDisk(T, s).vgchange
      BY <1>1 DEF Operations
    <3>5. ReleaseDisk(T, s).vgchange = {}
      BY <3>1 DEF ReleaseDisk
    <3>. QED
      BY <3>3, <3>4, <3>5
  <2>2. UsedMembers' = UsedMembers
    BY <1>1 DEF UsedMembers
  <2>. QED
    BY <1>1, <2>1, <2>2 DEF Spared, Target
<1>9. BeforeZap'
  <2>1. /\ todo'["zap"] = {T} /\ todo'["new"] = Layout(shown)
        /\ todo'["mkfs"] = Format(T, shown) /\ todo'["wipefs"] = WipeOld(T, s)
    BY <1>1 DEF Operations, CreatePartitionTable
  <2>2. \A dev \in WipeOld(T, s) : dev \in Devices /\ dev[1] = T
    BY <1>3, <1>4, DiskAssumption DEF WipeOld, PartitionsIn, Whole, Devices, Numbers
  <2>3. \A n \in Numbers : type[<<T, n>>] \in {"absent", "old"}
    BY <1>4 DEF Tidy
  <2>4. \A n \in 0..MaxPartitions : <<T, n>> \notin WipeOld(T, s) => content[<<T, n>>] = "none"
    <3> SUFFICES ASSUME NEW n \in 0..MaxPartitions, <<T, n>> \notin WipeOld(T, s)
                 PROVE  content[<<T, n>>] = "none"
      OBVIOUS
    <3>1. n \in Numbers
      BY DiskAssumption DEF WipeOld, Whole, Numbers
    <3>2. type[<<T, n>>] = "absent"
      BY <1>3, <1>4, <3>1 DEF WipeOld, PartitionsIn
    <3>. QED
      BY <1>4, <3>1, <3>2 DEF Tidy
  <2>. QED
    BY <1>1, <2>1, <2>2, <2>3, <2>4 DEF BeforeZap, Target
<1>10. Agreement'
  BY <1>1, <1>4, <1>5, <1>6, <1>7 DEF Agreement, Target, Reserved
<1>11. History'
  BY <1>1 DEF History
<1>. QED
  BY <1>8, <1>9, <1>10, <1>11

-----------------------------------------------------------------------------
LEMMA ToolNames ==
  Tools = {"swapoff", "umount", "vgchange", "wipefs", "zap", "new", "mkfs"}
  BY DEF Tools, Rank

(* A command is reached when those of the tools before it are done.        *)
LEMMA Turns ==
  /\ Turn("zap") => todo["wipefs"] = {}
  /\ Turn("new") => todo["wipefs"] = {} /\ todo["zap"] = {}
  /\ Turn("mkfs") => todo["wipefs"] = {} /\ todo["zap"] = {} /\ todo["new"] = {}
  BY ToolNames DEF Turn, Rank

(* The bookkeeping of a command that succeeds.                             *)
LEMMA Success ==
  ASSUME TypeOK, NEW tool \in Tools, NEW x, Succeeds(tool, x)
  PROVE  /\ DOMAIN todo' = Tools
         /\ todo'[tool] = todo[tool] \ {x}
         /\ \A t \in Tools \ {tool} : todo'[t] = todo[t]
         /\ stage' \in {"running", "prepared"}
         /\ stage' = "running" => todo' # Nothing
         /\ stage' = "prepared" => todo' = Nothing
  BY DEF TypeOK, Succeeds

(* What the argument for a started service rests on: as long as none of it *)
(* changes, neither does the argument.                                     *)
Writes == <<content, type, shown, erased, before, todo["wipefs"], todo["zap"], todo["new"],
            todo["mkfs"]>>

Core == Agreement /\ History /\ (BeforeZap \/ AfterZap)

LEMMA NothingWritten ==
  ASSUME Core, UNCHANGED Writes
  PROVE  Core'
<1>1. Agreement'
  BY DEF Core, Writes, Agreement, Target, Reserved
<1>2. History'
  BY DEF Core, Writes, History, Target
<1>3. BeforeZap => BeforeZap'
  BY DEF Writes, BeforeZap, Target, Layout, Format
<1>4. AfterZap => AfterZap'
  BY DEF Writes, AfterZap, Target, Layout, Format
<1>. QED
  BY <1>1, <1>2, <1>3, <1>4 DEF Core

-----------------------------------------------------------------------------
LEMMA InitInv ==
  Init => Inv
<1> SUFFICES ASSUME Init PROVE Inv
  OBVIOUS
<1>1. PICK m \in Machines :
        /\ content = m.content /\ type = m.type
        /\ mounted = m.mounted /\ swapOn = m.swapOn
        /\ active = m.active /\ lvMounted = m.lvMounted /\ running = m.running
  BY DEF Init
<1>2. Plausible(m)
  BY DiskAssumption
<1>3. TypeOK
  BY <1>1, <1>2 DEF Init, Plausible, TypeOK, Types, Nothing
<1>4. Tidy
  <2>1. active \subseteq LabelledGroups
    BY <1>1, <1>2 DEF Plausible, LabelledGroups
  <2>2. ASSUME NEW disk \in Disks, NEW n \in Numbers
        PROVE  /\ type[<<disk, n>>] \in {"absent", "old"}
               /\ IF type[<<disk, n>>] = "absent" THEN content[<<disk, n>>] = "none"
                                                  ELSE content[Whole(disk)] = "none"
    BY <1>1, <1>2 DEF Plausible
  <2>. QED
    BY <2>1, <2>2 DEF Tidy
<1>. QED
  BY <1>3, <1>4 DEF Init, Inv, Started

LEMMA ChooseInv ==
  Inv /\ Choose => Inv'
<1> SUFFICES ASSUME Inv, Choose PROVE Inv'
  OBVIOUS
<1>1. /\ UNCHANGED <<content, type, mounted, swapOn, active, running, todo, erased>>
      /\ stage = "choosing" /\ stage' \in {"planned", "refused"}
  BY DEF Choose, machineVars
<1>2. TypeOK'
  BY <1>1 DEF Inv, TypeOK
<1>3. Tidy'
  BY <1>1 DEF Inv, Tidy, LabelledGroups
<1>. QED
  BY <1>1, <1>2, <1>3 DEF Inv, Started

LEMMA StartServiceInv ==
  Inv /\ StartService => Inv'
<1> SUFFICES ASSUME Inv, StartService PROVE Inv'
  OBVIOUS
<1>1. /\ UNCHANGED <<content, type, mounted, swapOn, active, running, erased>>
      /\ stage = "planned" /\ stage' \in {"running", "refused"}
      /\ stage' = "refused" => todo' = todo
  BY DEF StartService, machineVars
<1>2. TypeOK /\ Tidy /\ erased = {}
  BY <1>1 DEF Inv
<1>3. CASE stage' = "refused"
  <2>1. TypeOK'
    BY <1>1, <1>2, <1>3 DEF TypeOK
  <2>2. Tidy'
    BY <1>1, <1>2 DEF Tidy, LabelledGroups
  <2>. QED
    BY <1>1, <1>2, <1>3, <2>1, <2>2 DEF Inv, Started
<1>4. CASE stage' = "running"
  <2>1. Agreement' /\ History' /\ BeforeZap'
    BY <1>2, <1>4, Acceptance
  <2>2. DOMAIN todo' = Tools
    BY <1>1, <1>4, ToolNames DEF StartService, Operations
  <2>3. todo' # Nothing
    BY <2>1, ToolNames DEF BeforeZap, Nothing
  <2>4. TypeOK'
    BY <1>1, <1>2, <1>4, <2>2, <2>3 DEF TypeOK
  <2>. QED
    BY <1>4, <2>1, <2>4 DEF Inv, Started
<1>. QED
  BY <1>1, <1>3, <1>4

(* Commands that release the disk, and commands that fail, write nothing.  *)
LEMMA ReleaseInv ==
  ASSUME Inv, stage = "running", UNCHANGED <<content, type, shown, erased, before>>,
         NEW tool \in {"swapoff", "umount", "vgchange"}, NEW x, Succeeds(tool, x),
         mounted' \in [MountPoints -> Devices \cup {NoDevice}],
         swapOn' \subseteq swapOn, active' \subseteq active, running' = running
  PROVE  Inv'
<1>1. tool \in Tools /\ TypeOK
  BY ToolNames DEF Inv
<1>2. /\ DOMAIN todo' = Tools
      /\ \A t \in Tools \ {tool} : todo'[t] = todo[t]
      /\ stage' \in {"running", "prepared"}
      /\ stage' = "running" => todo' # Nothing
      /\ stage' = "prepared" => todo' = Nothing
  BY <1>1, Success
<1>3. TypeOK'
  BY <1>1, <1>2 DEF TypeOK
<1>4. Core'
  <2>1. Core
    BY DEF Inv, Core, Started
  <2>2. UNCHANGED Writes
    BY <1>2, ToolNames DEF Writes
  <2>. QED
    BY <2>1, <2>2, NothingWritten
<1>. QED
  BY <1>2, <1>3, <1>4 DEF Inv, Core, Started

LEMMA RefusesInv ==
  ASSUME Inv, stage = "running", UNCHANGED <<shown, before>>, NEW reason, Refuses(reason)
  PROVE  Inv'
<1>1. UNCHANGED <<content, type, mounted, swapOn, active, running, todo, erased>> /\ stage' = "failed"
  BY DEF Refuses, machineVars
<1>2. TypeOK'
  BY <1>1 DEF Inv, TypeOK
<1>3. Core'
  BY <1>1, NothingWritten DEF Inv, Core, Started, Writes
<1>. QED
  BY <1>1, <1>2, <1>3 DEF Inv, Core, Started

(* wipefs runs while the old table is there, and on the target only.       *)
LEMMA WipefsInv ==
  ASSUME Inv, UNCHANGED <<choice, shown, before>>, NEW dev \in todo["wipefs"], Wipefs(dev)
  PROVE  Inv'
<1>1. stage = "running" /\ TypeOK /\ Agreement /\ History /\ BeforeZap
  <2>1. stage = "running"
    BY DEF Wipefs, Turn
  <2>. QED
    BY <2>1 DEF Inv, Started, AfterZap
<1>2. CASE Refuses("busy")
  BY <1>1, <1>2, RefusesInv
<1>3. CASE ~Refuses("busy")
  <2>1. /\ erased' = erased \cup Losing(dev)
        /\ content' = [content EXCEPT ![dev] = "none"]
        /\ Succeeds("wipefs", dev)
        /\ UNCHANGED <<type, mounted, swapOn, active, running>>
    BY <1>3 DEF Wipefs
  <2>2. /\ DOMAIN todo' = Tools
        /\ todo'["wipefs"] = todo["wipefs"] \ {dev}
        /\ UNCHANGED <<todo["zap"], todo["new"], todo["mkfs"]>>
        /\ stage' \in {"running", "prepared"}
        /\ stage' = "running" => todo' # Nothing
        /\ stage' = "prepared" => todo' = Nothing
    BY <1>1, <2>1, Success, ToolNames
  <2>3. PICK n \in 0..MaxPartitions : dev = <<Target, n>>
    BY <1>1, DiskAssumption DEF BeforeZap, Devices
  <2>4. dev \in Devices
    BY <1>1 DEF BeforeZap
  <2>5. content'[dev] = "none" /\ \A d \in Devices \ {dev} : content'[d] = content[d]
    BY <1>1, <2>1, <2>4 DEF TypeOK
  <2>6. TypeOK'
    <3>1. content' \in [Devices -> Contents]
      BY <1>1, <2>1 DEF TypeOK, Contents
    <3>. QED
      BY <1>1, <2>1, <2>2, <3>1 DEF TypeOK
  <2>7. Agreement'
    BY <1>1 DEF Agreement, Target, Reserved
  <2>8. History'
    <3>1. \A d \in Devices : d[1] # Target => content'[d] = before.content[d]
      BY <1>1, <2>3, <2>5 DEF History
    <3>2. ASSUME NEW e \in Losing(dev)
          PROVE  /\ e = <<<<Target, n>>, before.content[<<Target, n>>]>>
                 /\ before.content[<<Target, n>>] # "none"
      <4>1. content[dev] = before.content[dev]
        BY <1>1, <2>3 DEF BeforeZap
      <4>. QED
        BY <2>3, <4>1 DEF Losing
    <3>. QED
      BY <1>1, <2>1, <3>1, <3>2 DEF History, Target
  <2>9. BeforeZap'
    <3>1. \A k \in 0..MaxPartitions :
            content'[<<Target, k>>] = IF <<Target, k>> \in todo'["wipefs"]
                                      THEN before.content[<<Target, k>>] ELSE "none"
      <4> SUFFICES ASSUME NEW k \in 0..MaxPartitions
                   PROVE  content'[<<Target, k>>] = IF <<Target, k>> \in todo'["wipefs"]
                                                    THEN before.content[<<Target, k>>] ELSE "none"
        OBVIOUS
      <4>1. <<Target, k>> \in Devices
        BY <1>1 DEF Agreement, Devices
      <4>. QED
        BY <1>1, <2>2, <2>5, <4>1 DEF BeforeZap
    <3>. QED
      BY <1>1, <2>1, <2>2, <3>1 DEF BeforeZap, Target, Layout, Format
  <2>. QED
    BY <2>2, <2>6, <2>7, <2>8, <2>9 DEF Inv, Started
<1>. QED
  BY <1>2, <1>3

(* When the table goes, nothing is left on its partitions.                 *)
LEMMA ZapInv ==
  ASSUME Inv, UNCHANGED <<choice, shown, before>>, NEW disk \in todo["zap"], ZapAll(disk)
  PROVE  Inv'
<1>1. stage = "running" /\ TypeOK /\ Agreement /\ History /\ BeforeZap
  <2>1. stage = "running"
    BY DEF ZapAll, Turn
  <2>. QED
    BY <2>1 DEF Inv, Started, AfterZap
<1>2. todo["wipefs"] = {} /\ disk = Target /\ Target \in Disks
  BY <1>1, Turns DEF ZapAll, BeforeZap, Agreement
<1>3. /\ type' = [p \in Disks \X Numbers |-> IF p[1] = disk THEN "absent" ELSE type[p]]
      /\ Succeeds("zap", disk)
      /\ UNCHANGED <<content, mounted, swapOn, active, running>>
  BY DEF ZapAll
<1>4. \A n \in 0..MaxPartitions : content[<<Target, n>>] = "none"
  BY <1>1, <1>2 DEF BeforeZap
<1>5. erased' = erased
  <2>1. \A n \in Partitions(disk) : Losing(<<disk, n>>) = {}
    BY <1>2, <1>4, DiskAssumption DEF Losing, Partitions, Numbers
  <2>. QED
    BY <2>1 DEF ZapAll
<1>6. /\ DOMAIN todo' = Tools
      /\ todo'["zap"] = {}
      /\ UNCHANGED <<todo["wipefs"], todo["new"], todo["mkfs"]>>
      /\ stage' \in {"running", "prepared"}
      /\ stage' = "running" => todo' # Nothing
      /\ stage' = "prepared" => todo' = Nothing
  BY <1>1, <1>2, <1>3, Success, ToolNames DEF BeforeZap
<1>7. TypeOK'
  <2>1. type' \in [Disks \X Numbers -> Types]
    BY <1>1, <1>3 DEF TypeOK, Types
  <2>. QED
    BY <1>1, <1>3, <1>6, <2>1 DEF TypeOK
<1>8. Agreement' /\ History'
  BY <1>1, <1>3, <1>5 DEF Agreement, History, Target, Reserved
<1>9. AfterZap'
  <2>1. todo'["new"] = Layout(shown) /\ todo'["mkfs"] = Format(Target, shown)
    BY <1>1, <1>6 DEF BeforeZap
  <2>2. \A n \in Numbers : type'[<<Target, n>>] = "absent"
    BY <1>2, <1>3
  <2>3. content'[Whole(Target)] = "none" /\ \A n \in Numbers : content'[<<Target, n>>] = "none"
    BY <1>3, <1>4, DiskAssumption DEF Whole, Numbers
  <2>4. Target' = Target /\ Layout(shown)' = Layout(shown)
        /\ Format(Target, shown)' = Format(Target, shown)
    BY DEF Target, Layout, Format
  <2>5. "absent" \notin NewTypes
    BY DEF NewTypes
  <2>. QED
    BY <1>2, <1>6, <2>1, <2>2, <2>3, <2>4, <2>5 DEF AfterZap
<1>. QED
  BY <1>6, <1>7, <1>8, <1>9 DEF Inv, Started

(* A new partition gets the number the plan gives it.                      *)
LEMMA NewPartitionInv ==
  ASSUME Inv, UNCHANGED <<choice, shown, before>>, NEW x \in todo["new"], NewPartition(x)
  PROVE  Inv'
<1>1. stage = "running" /\ TypeOK /\ Agreement /\ History /\ AfterZap
  <2>1. stage = "running" /\ todo["zap"] = {}
    BY Turns DEF NewPartition, Turn
  <2>. QED
    BY <2>1 DEF Inv, Started, BeforeZap
<1> DEFINE n == x[1]
           t == x[2]
<1>2. /\ x = <<n, t>> /\ x \in Layout(shown) /\ n \in Numbers /\ t \in NewTypes
      /\ \A y \in Layout(shown) : y[1] = n => y = x
  <2>1. x \in Layout(shown)
    BY <1>1 DEF AfterZap
  <2>2. 1..3 \subseteq Numbers
    BY DiskAssumption DEF Numbers
  <2>3. /\ \A y \in Layout(shown) : y = <<y[1], y[2]>> /\ y[1] \in 1..3 /\ y[2] \in NewTypes
        /\ \A y, z \in Layout(shown) : y[1] = z[1] => y = z
    BY Numbering
  <2>. HIDE DEF n, t
  <2>4. n = x[1] /\ t = x[2]
    BY DEF n, t
  <2>5. x = <<n, t>> /\ n \in 1..3 /\ t \in NewTypes
    BY <2>1, <2>3, <2>4
  <2>. QED
    BY <2>1, <2>2, <2>3, <2>4, <2>5
<1>3. /\ type' = [type EXCEPT ![<<Target, n>>] = t]
      /\ Succeeds("new", x)
      /\ UNCHANGED <<content, mounted, swapOn, active, running, erased>>
  BY DEF NewPartition, Target
<1>4. /\ DOMAIN todo' = Tools
      /\ todo'["new"] = todo["new"] \ {x}
      /\ UNCHANGED <<todo["wipefs"], todo["zap"], todo["mkfs"]>>
      /\ stage' \in {"running", "prepared"}
      /\ stage' = "running" => todo' # Nothing
      /\ stage' = "prepared" => todo' = Nothing
  BY <1>1, <1>3, Success, ToolNames
<1>5. /\ type'[<<Target, n>>] = t
      /\ \A k \in Numbers \ {n} : type'[<<Target, k>>] = type[<<Target, k>>]
  BY <1>1, <1>2, <1>3 DEF TypeOK, Agreement
<1>6. TypeOK'
  <2>1. type' \in [Disks \X Numbers -> Types]
    BY <1>1, <1>2, <1>3 DEF TypeOK, Types
  <2>. QED
    BY <1>1, <1>3, <1>4, <2>1 DEF TypeOK
<1>7. Agreement' /\ History'
  BY <1>1, <1>3 DEF Agreement, History, Target, Reserved
<1>8. AfterZap'
  <2> DEFINE L == Layout(shown)
             F == Format(Target, shown)
  <2>1. Target' = Target /\ L' = L /\ F' = F
    BY DEF Target, Layout, Format
  <2>2. todo["mkfs"] = F
    BY <1>1 DEF AfterZap
  <2>3. ASSUME NEW k \in Numbers
        PROVE  /\ type'[<<Target, k>>] \in NewTypes \cup {"absent"}
               /\ \A u \in NewTypes :
                    type'[<<Target, k>>] = u <=> <<k, u>> \in L \ todo'["new"]
    <3>1. CASE k = n
      <4>1. \A u : <<k, u>> \in L => u = t
        BY <1>2, <3>1
      <4>. QED
        BY <1>2, <1>4, <1>5, <3>1, <4>1
    <3>2. CASE k # n
      <4>1. \A u : <<k, u>> # x
        BY <1>2, <3>2
      <4>2. type'[<<Target, k>>] = type[<<Target, k>>]
        BY <1>5, <3>2
      <4>. QED
        BY <1>1, <1>4, <4>1, <4>2 DEF AfterZap
    <3>. QED
      BY <3>1, <3>2
  <2>. HIDE DEF L, F
  <2>4. L = Layout(shown) /\ F = Format(Target, shown)
    BY DEF L, F
  <2>. QED
    BY <1>1, <1>3, <1>4, <2>1, <2>2, <2>3, <2>4 DEF AfterZap
<1>. QED
  BY <1>4, <1>6, <1>7, <1>8 DEF Inv, Started

(* A file system is made where the old data is already gone.               *)
LEMMA MkfsInv ==
  ASSUME Inv, UNCHANGED <<choice, shown, before>>, NEW x \in todo["mkfs"], Mkfs(x)
  PROVE  Inv'
<1>1. stage = "running" /\ TypeOK /\ Agreement /\ History /\ AfterZap /\ todo["new"] = {}
  <2>1. stage = "running" /\ todo["zap"] = {} /\ todo["new"] = {}
    BY Turns DEF Mkfs, Turn
  <2>. QED
    BY <2>1 DEF Inv, Started, BeforeZap
<1>2. CASE Refuses("busy")
  BY <1>1, <1>2, RefusesInv
<1>3. CASE ~Refuses("busy")
  <2> DEFINE F == Format(Target, shown)
             dev == x[1]
             n == x[1][2]
             fs == x[2]
  <2>1. /\ erased' = erased \cup Losing(dev)
        /\ content' = [content EXCEPT ![dev] = fs]
        /\ Succeeds("mkfs", x)
        /\ UNCHANGED <<type, mounted, swapOn, active, running>>
    BY <1>3 DEF Mkfs
  <2>2. /\ DOMAIN todo' = Tools
        /\ todo'["mkfs"] = todo["mkfs"] \ {x}
        /\ UNCHANGED <<todo["wipefs"], todo["zap"], todo["new"]>>
        /\ stage' \in {"running", "prepared"}
        /\ stage' = "running" => todo' # Nothing
        /\ stage' = "prepared" => todo' = Nothing
    BY <1>1, <2>1, Success, ToolNames
  <2>3. /\ \A y \in F : /\ y = <<y[1], y[2]>> /\ y[1][1] = Target
                        /\ y[1] = <<Target, y[1][2]>> /\ y[1][2] \in 1..3
                        /\ y[2] \in Contents \ {"none"}
        /\ \A y, z \in F : y[1] = z[1] => y = z
    BY Numbering
  <2>4. x \in F
    BY <1>1 DEF AfterZap
  <2>. HIDE DEF F, dev, n, fs
  <2>5. n = x[1][2] /\ fs = x[2] /\ dev = x[1] /\ F = Format(Target, shown)
    BY DEF F, dev, n, fs
  <2>6. x = <<dev, fs>> /\ dev = <<Target, n>> /\ n \in 1..3 /\ fs \in Contents \ {"none"}
    BY <2>3, <2>4, <2>5
  <2>7. n \in Numbers /\ n \in 0..MaxPartitions /\ dev \in Devices /\ n # 0
    BY <1>1, <2>6, DiskAssumption DEF Agreement, Devices, Numbers
  <2>8. content'[dev] = fs /\ \A d \in Devices \ {dev} : content'[d] = content[d]
    BY <1>1, <2>1, <2>7 DEF TypeOK
  <2>9. erased' = erased
    <3>1. content[dev] \in Contents
      BY <1>1, <2>7 DEF TypeOK
    <3>2. ASSUME content[dev] # "none" PROVE FALSE
      <4>1. <<dev, content[dev]>> \in F \ todo["mkfs"]
        BY <1>1, <2>5, <2>6, <2>7, <3>1, <3>2 DEF AfterZap
      <4>2. <<dev, content[dev]>> = x
        BY <2>3, <2>4, <2>5, <4>1
      <4>. QED
        BY <4>1, <4>2
    <3>. QED
      BY <2>1, <3>2 DEF Losing
  <2>10. TypeOK'
    <3>1. content' \in [Devices -> Contents]
      BY <1>1, <2>1, <2>6 DEF TypeOK
    <3>. QED
      BY <1>1, <2>1, <2>2, <3>1 DEF TypeOK
  <2>11. Agreement' /\ History'
    <3>1. Agreement'
      BY <1>1 DEF Agreement, Target, Reserved
    <3>2. \A d \in Devices : d[1] # Target => content'[d] = before.content[d]
      BY <1>1, <2>6, <2>8 DEF History
    <3>. QED
      BY <1>1, <2>9, <3>1, <3>2 DEF History, Target
  <2>12. AfterZap'
    <3>1. Target' = Target /\ Layout(shown)' = Layout(shown) /\ F' = F
      BY <2>5 DEF F, Target, Layout, Format
    <3>2. content'[Whole(Target)] = "none"
      <4>1. Whole(Target) \in Devices /\ Whole(Target) # dev
        BY <1>1, <2>6, <2>7, DiskAssumption DEF Whole, Devices, Agreement
      <4>. QED
        BY <1>1, <2>8, <4>1 DEF AfterZap
    <3>3. ASSUME NEW k \in Numbers, NEW f \in Contents \ {"none"}
          PROVE  content'[<<Target, k>>] = f <=> <<<<Target, k>>, f>> \in F \ todo'["mkfs"]
      <4>1. CASE k = n
        <5>1. content'[<<Target, k>>] = fs
          BY <2>6, <2>8, <4>1
        <5>2. <<<<Target, k>>, f>> \in F => <<<<Target, k>>, f>> = x
          BY <2>3, <2>4, <2>5, <2>6, <4>1
        <5>3. f = fs <=> <<<<Target, k>>, f>> = x
          BY <2>6, <4>1
        <5>. QED
          BY <2>2, <2>4, <5>1, <5>2, <5>3
      <4>2. CASE k # n
        <5>1. <<Target, k>> \in Devices \ {dev}
          BY <1>1, <2>6, <4>2, DiskAssumption DEF Agreement, Devices, Numbers
        <5>2. <<<<Target, k>>, f>> # x
          BY <2>6, <4>2
        <5>3. content'[<<Target, k>>] = content[<<Target, k>>]
          BY <2>8, <5>1
        <5>. QED
          BY <1>1, <2>2, <2>5, <5>2, <5>3 DEF AfterZap
      <4>. QED
        BY <4>1, <4>2
    <3>4. /\ todo'["new"] = {} /\ todo'["zap"] = {} /\ todo'["wipefs"] = {}
          /\ todo'["mkfs"] \subseteq F
      BY <1>1, <2>2, <2>5 DEF AfterZap
    <3>5. \A k \in Numbers :
            /\ type'[<<Target, k>>] \in NewTypes \cup {"absent"}
            /\ \A u \in NewTypes : type'[<<Target, k>>] = u <=> <<k, u>> \in Layout(shown) \ todo'["new"]
      BY <1>1, <2>1, <2>2 DEF AfterZap
    <3>. QED
      BY <2>5, <3>1, <3>2, <3>3, <3>4, <3>5 DEF AfterZap
  <2>. QED
    BY <2>2, <2>10, <2>11, <2>12 DEF Inv, Started
<1>. QED
  BY <1>2, <1>3

LEMMA PerformInv ==
  Inv /\ Perform => Inv'
<1> SUFFICES ASSUME Inv, Perform PROVE Inv'
  OBVIOUS
<1>1. UNCHANGED <<choice, shown, before, changes>>
  BY DEF Perform
<1>2. ASSUME NEW reason, stage = "running", Refuses(reason) PROVE Inv'
  BY <1>1, <1>2, RefusesInv
<1>3. ASSUME NEW dev \in todo["swapoff"], Swapoff(dev) PROVE Inv'
  <2>1. stage = "running" /\ TypeOK
    BY <1>3 DEF Swapoff, Turn, Inv
  <2>2. CASE dev \in swapOn
    BY <1>1, <1>3, <2>1, <2>2, ReleaseInv DEF Swapoff, TypeOK
  <2>3. CASE dev \notin swapOn
    BY <1>2, <1>3, <2>1, <2>3 DEF Swapoff
  <2>. QED
    BY <2>2, <2>3
<1>4. ASSUME NEW m \in todo["umount"], Umount(m) PROVE Inv'
  <2>1. stage = "running" /\ TypeOK
    BY <1>4 DEF Umount, Turn, Inv
  <2>2. CASE m \in MountPoints /\ mounted[m] # NoDevice
    <3>1. mounted' \in [MountPoints -> Devices \cup {NoDevice}]
      BY <1>4, <2>1, <2>2 DEF Umount, TypeOK
    <3>2. /\ Succeeds("umount", m)
          /\ UNCHANGED <<content, type, swapOn, active, running, erased>>
      BY <1>4, <2>2 DEF Umount
    <3>. QED
      BY <1>1, <2>1, <3>1, <3>2, ReleaseInv
  <2>3. CASE ~(m \in MountPoints /\ mounted[m] # NoDevice)
    BY <1>2, <1>4, <2>1, <2>3 DEF Umount
  <2>. QED
    BY <2>2, <2>3
<1>5. ASSUME NEW g \in todo["vgchange"], Vgchange(g) PROVE Inv'
  <2>1. stage = "running" /\ TypeOK
    BY <1>5 DEF Vgchange, Turn, Inv
  <2>2. CASE g \notin lvMounted
    BY <1>1, <1>5, <2>1, <2>2, ReleaseInv DEF Vgchange, TypeOK
  <2>3. CASE g \in lvMounted
    BY <1>2, <1>5, <2>1, <2>3 DEF Vgchange
  <2>. QED
    BY <2>2, <2>3
<1>6. ASSUME NEW dev \in todo["wipefs"], Wipefs(dev) PROVE Inv'
  BY <1>1, <1>6, WipefsInv
<1>7. ASSUME NEW disk \in todo["zap"], ZapAll(disk) PROVE Inv'
  BY <1>1, <1>7, ZapInv
<1>8. ASSUME NEW x \in todo["new"], NewPartition(x) PROVE Inv'
  BY <1>1, <1>8, NewPartitionInv
<1>9. ASSUME NEW x \in todo["mkfs"], Mkfs(x) PROVE Inv'
  BY <1>1, <1>9, MkfsInv
<1>. QED
  BY <1>2, <1>3, <1>4, <1>5, <1>6, <1>7, <1>8, <1>9 DEF Perform

(* What others mount and unmount is no part of the argument.               *)
LEMMA MountingInv ==
  ASSUME Inv, mounted' \in [MountPoints -> Devices \cup {NoDevice}],
         UNCHANGED <<content, type, swapOn, active, running, stage, choice, shown, todo, erased,
                     before>>
  PROVE  Inv'
<1>1. TypeOK'
  BY DEF Inv, TypeOK
<1>2. Tidy => Tidy'
  BY DEF Tidy, LabelledGroups
<1>3. Started' = Started
  BY DEF Started
<1>4. Core => Core'
  BY NothingWritten DEF Writes
<1>. QED
  BY <1>1, <1>2, <1>3, <1>4 DEF Inv, Core

(* What others format before the start leaves the machine plausible: a     *)
(* physical volume of an active group is in use.                           *)
LEMMA ReformatInv ==
  Inv /\ Reformat => Inv'
<1> SUFFICES ASSUME Inv, Reformat PROVE Inv'
  OBVIOUS
<1>1. /\ stage \in {"choosing", "planned"}
      /\ UNCHANGED <<stage, choice, shown, todo, erased, before>>
      /\ UNCHANGED <<type, mounted, swapOn, active, running>>
  BY DEF Reformat, Others
<1>2. PICK dev \in Devices, fs \in {"ext4", "swap"} :
        /\ Usable(dev) /\ ~Held(dev) /\ content' = [content EXCEPT ![dev] = fs]
  BY DEF Reformat
<1>3. TypeOK /\ Tidy /\ erased = {}
  BY <1>1 DEF Inv
<1>4. content'[dev] = fs /\ \A d \in Devices \ {dev} : content'[d] = content[d]
  BY <1>2, <1>3 DEF TypeOK
<1>5. TypeOK'
  <2>1. content' \in [Devices -> Contents]
    BY <1>2, <1>3 DEF TypeOK, Contents
  <2>. QED
    BY <1>1, <1>3, <2>1 DEF TypeOK
<1>6. ASSUME NEW disk \in Disks, NEW n \in Numbers
      PROVE  /\ type'[<<disk, n>>] \in {"absent", "old"}
             /\ IF type'[<<disk, n>>] = "absent" THEN content'[<<disk, n>>] = "none"
                                                 ELSE content'[Whole(disk)] = "none"
  <2>1. <<disk, n>> \in Devices /\ Whole(disk) \in Devices /\ n # 0
    BY DiskAssumption DEF Devices, Numbers, Whole
  <2>2. type[<<disk, n>>] = "absent" => <<disk, n>> # dev
    BY <1>2, <2>1 DEF Usable, Partitions
  <2>3. type[<<disk, n>>] # "absent" => Whole(disk) # dev
    BY <1>2 DEF Usable, Partitions, Whole
  <2>. QED
    BY <1>1, <1>3, <1>4, <2>1, <2>2, <2>3 DEF Tidy
<1>7. ASSUME NEW g \in active PROVE g \in LabelledGroups'
  <2>1. g \in Groups /\ \E pv \in PvsOf[g] : content[pv] = "lvm"
    BY <1>3 DEF Tidy, LabelledGroups
  <2>2. PICK pv \in PvsOf[g] : content[pv] = "lvm"
    BY <2>1
  <2>3. pv \in Devices /\ pv \in UsedMembers
    BY <2>1, DiskAssumption DEF UsedMembers
  <2>4. pv # dev
    BY <1>2, <2>3 DEF Held
  <2>. QED
    BY <1>4, <2>1, <2>2, <2>3, <2>4 DEF LabelledGroups
<1>8. Tidy'
  BY <1>1, <1>6, <1>7 DEF Tidy
<1>. QED
  BY <1>1, <1>3, <1>5, <1>8 DEF Inv, Started

LEMMA NextInv ==
  Inv /\ [Next]_vars => Inv'
<1> SUFFICES ASSUME Inv, [Next]_vars PROVE Inv'
  OBVIOUS
<1>1. TypeOK
  BY DEF Inv
<1>2. CASE Automount
  <2>1. mounted' \in [MountPoints -> Devices \cup {NoDevice}]
    BY <1>1, <1>2 DEF Automount, TypeOK
  <2>. QED
    BY <1>2, <2>1, MountingInv DEF Automount, Others
<1>3. CASE Unmount
  <2>1. mounted' \in [MountPoints -> Devices \cup {NoDevice}]
    BY <1>1, <1>3 DEF Unmount, TypeOK
  <2>. QED
    BY <1>3, <2>1, MountingInv DEF Unmount, Others
<1>4. CASE UNCHANGED vars
  BY <1>1, <1>4, MountingInv DEF vars, machineVars, TypeOK
<1>. QED
  BY <1>2, <1>3, <1>4, ChooseInv, StartServiceInv, PerformInv, ReformatInv DEF Next

(* What keeps a member of an array or group from being lost.               *)
LEMMA StillSpared ==
  ASSUME Spared, UNCHANGED <<shown, before, active, running>>,
         todo'["vgchange"] \subseteq todo["vgchange"],
         \A e \in erased' : e \in erased \/ e[1] # Whole(Target)
  PROVE  Spared'
<1>1. UsedMembers' = UsedMembers /\ Target' = Target
  BY DEF UsedMembers, Target
<1>. QED
  BY <1>1 DEF Spared

(* Only vgchange lets go of members, and there it is not run; wipefs is    *)
(* refused; the table and the file systems concern partitions.             *)
LEMMA SparedPerform ==
  ASSUME Inv, Spared, stage = "running", Perform
  PROVE  Spared'
<1>1. UNCHANGED <<shown, before>> /\ TypeOK /\ Target \in Disks
  BY DEF Perform, Inv, Agreement, Started
<1>2. ASSUME NEW reason, Refuses(reason) PROVE Spared'
  BY <1>1, <1>2, StillSpared DEF Refuses, machineVars
<1>3. ASSUME NEW tool \in Tools, NEW x, Succeeds(tool, x)
      PROVE  todo'["vgchange"] \subseteq todo["vgchange"]
  BY <1>1, <1>3, Success, ToolNames
<1>4. ASSUME NEW dev \in todo["swapoff"], Swapoff(dev) PROVE Spared'
  <2>1. CASE dev \in swapOn
    BY <1>1, <1>3, <1>4, <2>1, StillSpared, ToolNames DEF Swapoff
  <2>. QED
    BY <1>2, <1>4, <2>1 DEF Swapoff
<1>5. ASSUME NEW m \in todo["umount"], Umount(m) PROVE Spared'
  <2>1. CASE m \in MountPoints /\ mounted[m] # NoDevice
    BY <1>1, <1>3, <1>5, <2>1, StillSpared, ToolNames DEF Umount
  <2>. QED
    BY <1>2, <1>5, <2>1 DEF Umount
<1>6. ASSUME NEW g \in todo["vgchange"], Vgchange(g) PROVE Spared'
  <2>1. CASE g \notin lvMounted
    <3>1. UNCHANGED <<running, erased>> /\ todo'["vgchange"] \subseteq todo["vgchange"]
      BY <1>3, <1>6, <2>1, ToolNames DEF Vgchange
    <3>2. todo["vgchange"] # {}
      BY <1>6
    <3>. QED
      BY <1>1, <3>1, <3>2 DEF Spared, Target
  <2>. QED
    BY <1>2, <1>6, <2>1 DEF Vgchange
<1>7. ASSUME NEW dev \in todo["wipefs"], Wipefs(dev) PROVE Spared'
  <2>1. CASE ~Held(dev)
    <3>1. /\ erased' = erased \cup Losing(dev)
          /\ UNCHANGED <<active, running>> /\ todo'["vgchange"] \subseteq todo["vgchange"]
      BY <1>3, <1>7, <2>1, ToolNames DEF Wipefs
    <3>2. BeforeZap
      BY <1>7 DEF Inv, Started, AfterZap
    <3>3. ASSUME Whole(Target) \in before.members, dev = Whole(Target) PROVE Losing(dev) = {}
      <4>1. dev \in Devices /\ dev[2] = 0 /\ 0 \in 0..MaxPartitions
        BY <1>1, <3>3, DiskAssumption DEF Whole, Devices
      <4>2. content[dev] = before.content[dev]
        BY <3>2, <3>3, <4>1, <1>7 DEF BeforeZap, Whole
      <4>3. dev \notin UsedMembers
        BY <2>1, <4>1 DEF Held
      <4>. QED
        BY <3>3, <4>2, <4>3 DEF Spared, Losing
    <3>4. \A e \in Losing(dev) : e[1] = dev
      BY DEF Losing
    <3>5. UsedMembers' = UsedMembers /\ Target' = Target
      BY <1>1, <3>1 DEF UsedMembers, Target
    <3>. QED
      BY <1>1, <3>1, <3>3, <3>4, <3>5 DEF Spared
  <2>. QED
    BY <1>2, <1>7, <2>1 DEF Wipefs
<1>8. ASSUME NEW disk \in todo["zap"], ZapAll(disk) PROVE Spared'
  <2>1. \A n \in Partitions(disk) : n # 0
    BY DEF Partitions, Numbers
  <2>2. \A e \in erased' : e \in erased \/ e[1] # Whole(Target)
    <3>1. \A n \in Partitions(disk) : \A e \in Losing(<<disk, n>>) : e[1] = <<disk, n>>
      BY DEF Losing
    <3>2. \A n \in Partitions(disk) : <<disk, n>> # Whole(Target)
      BY <2>1 DEF Whole
    <3>3. erased' = erased \cup UNION {Losing(<<disk, n>>) : n \in Partitions(disk)}
      BY <1>8 DEF ZapAll
    <3>. QED
      BY <3>1, <3>2, <3>3
  <2>. QED
    BY <1>1, <1>3, <1>8, <2>2, StillSpared, ToolNames DEF ZapAll
<1>9. ASSUME NEW x \in todo["new"], NewPartition(x) PROVE Spared'
  BY <1>1, <1>3, <1>9, StillSpared, ToolNames DEF NewPartition
<1>10. ASSUME NEW x \in todo["mkfs"], Mkfs(x) PROVE Spared'
  <2>1. CASE ~Held(x[1])
    <3>1. x \in Format(Target, shown)
      BY <1>10 DEF Inv, Started, BeforeZap, AfterZap
    <3>2. x[1][2] \in 1..3
      BY <3>1, Numbering
    <3>3. x[1] # Whole(Target)
      BY <3>2 DEF Whole
    <3>4. \A e \in erased' : e \in erased \/ e[1] # Whole(Target)
      BY <1>10, <2>1, <3>3 DEF Mkfs, Losing
    <3>. QED
      BY <1>1, <1>3, <1>10, <2>1, <3>4, StillSpared, ToolNames DEF Mkfs
  <2>. QED
    BY <1>2, <1>10, <2>1 DEF Mkfs
<1>. QED
  BY <1>2, <1>4, <1>5, <1>6, <1>7, <1>8, <1>9, <1>10 DEF Perform

LEMMA SparedNext ==
  ASSUME Inv, Started => Spared, [Next]_vars
  PROVE  (Started => Spared)'
<1>1. CASE Perform
  <2>1. CASE stage = "running"
    BY <1>1, <2>1, SparedPerform DEF Started
  <2>2. CASE stage # "running"
    BY <1>1, <2>2
    DEF Perform, Swapoff, Umount, Vgchange, Wipefs, ZapAll, NewPartition, Mkfs, Turn
  <2>. QED
    BY <2>1, <2>2
<1>2. CASE StartService
  BY <1>2, Acceptance DEF StartService, Inv, Started
<1>3. CASE Choose \/ Reformat
  BY <1>3 DEF Choose, Reformat, Others, Started
<1>4. CASE Automount \/ Unmount \/ UNCHANGED vars
  <2>1. UNCHANGED <<stage, shown, before, active, running, todo, erased>>
    BY <1>4 DEF Automount, Unmount, Others, vars, machineVars
  <2>2. Started' = Started
    BY <2>1 DEF Started
  <2>. QED
    BY <2>1, <2>2, StillSpared
<1>. QED
  BY <1>1, <1>2, <1>3, <1>4 DEF Next

(* The argument holds in every state the machine reaches.                  *)
THEOREM Preparation == Spec => []Inv
<1>. QED
  BY InitInv, NextInv, PTL DEF Spec

(* The typing invariant.                                                   *)
THEOREM PreparationTyped == Spec => []TypeOK
<1>1. Inv => TypeOK
  BY DEF Inv
<1>. QED
  BY <1>1, Preparation, PTL

(* Nothing is lost that the user was not shown: every partition that loses *)
(* its data was on the confirmed summary, with that content, and no other  *)
(* disk is written (describe_disk_erasure and the revalidation as root).   *)
THEOREM NoUnannouncedLoss == Spec => []LossesAreAgreed
<1>1. Inv => LossesAreAgreed
  <2> SUFFICES ASSUME Inv PROVE LossesAreAgreed
    OBVIOUS
  <2>1. CASE ~Started
    <3>1. erased = {}
      BY <2>1 DEF Inv, TypeOK, Started
    <3>. QED
      BY <2>1, <3>1 DEF LossesAreAgreed
  <2>2. CASE Started
    <3>1. Agreement /\ History
      BY <2>2 DEF Inv
    <3>2. ASSUME NEW e \in erased
          PROVE  /\ e[1][1] = Target
                 /\ e[1][2] > 0 => \E line \in shown.erased : line.path = e[1] /\ line.fs = e[2]
      <4>1. PICK n \in 0..MaxPartitions :
              /\ e = <<<<Target, n>>, before.content[<<Target, n>>]>>
              /\ before.content[<<Target, n>>] # "none"
        BY <3>1 DEF History
      <4>2. n > 0 => n \in Numbers
        BY DiskAssumption DEF Numbers
      <4>. QED
        BY <3>1, <4>1, <4>2 DEF Agreement
    <3>. QED
      BY <2>2, <3>1, <3>2 DEF LossesAreAgreed, History
  <2>. QED
    BY <2>1, <2>2
<1>. QED
  BY <1>1, Preparation, PTL

(* A disk that as a whole is in use by an array or a group, or belongs to  *)
(* a group the service was told of, is never written, whatever discovery   *)
(* could see of it (apply_membership_roles, the revalidation, and the      *)
(* kernel's refusal of the wipefs that comes first).                       *)
THEOREM NoMemberLost == Spec => []MembersAreSpared
<1>1. Init => (Started => Spared)
  BY DEF Init, Started
<1>2. Inv /\ (Started => Spared) /\ [Next]_vars => (Started => Spared)'
  BY SparedNext
<1>3. Inv /\ (Started => Spared) => MembersAreSpared
  <2> SUFFICES ASSUME Inv, Started => Spared, NEW e \in erased, e[1][2] = 0
               PROVE  e[1] \notin before.members
    BY DEF MembersAreSpared
  <2>1. Started
    BY DEF Inv, TypeOK, Started
  <2>2. PICK n \in 0..MaxPartitions : e = <<<<Target, n>>, before.content[<<Target, n>>]>>
    BY <2>1 DEF Inv, History
  <2>3. e[1] = Whole(Target)
    BY <2>2 DEF Whole
  <2>. QED
    BY <2>1, <2>3 DEF Spared
<1>. QED
  BY <1>1, <1>2, <1>3, Preparation, PTL DEF Spec

-----------------------------------------------------------------------------
(* What is on a partition made by the service is what its type says.       *)
LEMMA FormattedForItsType ==
  ASSUME AfterZap, NEW n \in Numbers, content[<<Target, n>>] \in Contents \ {"none"}
  PROVE  /\ type[<<Target, n>>] \in NewTypes
         /\ content[<<Target, n>>] = FsOf[type[<<Target, n>>]]
<1> DEFINE L == Layout(shown)
           F == Format(Target, shown)
           fs == content[<<Target, n>>]
<1>1. <<<<Target, n>>, fs>> \in F \ todo["mkfs"]
  BY DEF AfterZap
<1>2. todo["new"] = {}
  BY <1>1 DEF AfterZap
<1>3. /\ \A x \in F : \E y \in L : x = <<<<Target, y[1]>>, FsOf[y[2]]>>
      /\ \A y \in L : y = <<y[1], y[2]>> /\ y[2] \in NewTypes
  <2>1. \A x \in F : \E y \in L : x = <<<<Target, y[1]>>, FsOf[y[2]]>>
    BY Numbering
  <2>2. \A y \in L : y = <<y[1], y[2]>> /\ y[1] \in 1..3 /\ y[2] \in NewTypes
    BY Numbering
  <2>. QED
    BY <2>1, <2>2
<1>4. PICK y \in L : <<<<Target, n>>, fs>> = <<<<Target, y[1]>>, FsOf[y[2]]>>
  BY <1>1, <1>3
<1>5. <<n, y[2]>> \in L /\ y[2] \in NewTypes /\ fs = FsOf[y[2]]
  BY <1>3, <1>4
<1>6. type[<<Target, n>>] = y[2]
  BY <1>2, <1>5 DEF AfterZap
<1>. QED
  BY <1>5, <1>6

(* When nothing is left to do, the table is the layout and every partition *)
(* is formatted.                                                           *)
LEMMA TableIsLayout ==
  ASSUME AfterZap, todo = Nothing, Target \in Disks
  PROVE  /\ \A x \in Layout(shown) : /\ x[1] \in Numbers /\ x[2] \in NewTypes
                                     /\ type[<<Target, x[1]>>] = x[2]
                                     /\ content[<<Target, x[1]>>] = FsOf[x[2]]
         /\ \A n \in Partitions(Target) : <<n, type[<<Target, n>>]>> \in Layout(shown)
<1>1. todo["new"] = {} /\ todo["mkfs"] = {}
  BY ToolNames DEF Nothing
<1>2. 1..3 \subseteq Numbers
  BY DiskAssumption DEF Numbers
<1>3. ASSUME NEW x \in Layout(shown)
      PROVE  /\ x[1] \in Numbers /\ x[2] \in NewTypes
             /\ type[<<Target, x[1]>>] = x[2]
             /\ content[<<Target, x[1]>>] = FsOf[x[2]]
  <2>1. x = <<x[1], x[2]>> /\ x[1] \in Numbers /\ x[2] \in NewTypes
    <3>1. \A y \in Layout(shown) : y = <<y[1], y[2]>> /\ y[1] \in 1..3 /\ y[2] \in NewTypes
      BY Numbering
    <3>. QED
      BY <1>2, <3>1
  <2>2. <<<<Target, x[1]>>, FsOf[x[2]]>> \in Format(Target, shown)
    BY Numbering
  <2>3. FsOf[x[2]] \in Contents \ {"none"}
    BY <2>1 DEF FsOf, NewTypes, Contents
  <2>4. type[<<Target, x[1]>>] = x[2]
    BY <1>1, <2>1 DEF AfterZap
  <2>5. content[<<Target, x[1]>>] = FsOf[x[2]]
    BY <1>1, <2>1, <2>2, <2>3 DEF AfterZap
  <2>. QED
    BY <2>1, <2>4, <2>5
<1>4. ASSUME NEW n \in Partitions(Target)
      PROVE  <<n, type[<<Target, n>>]>> \in Layout(shown)
  BY <1>1 DEF AfterZap, Partitions
<1>. QED
  BY <1>3, <1>4

(* Every new partition is formatted for the type it was given, and a       *)
(* prepared disk has exactly the partitions of the plan, the root last     *)
(* (CreatePartitionTable and plan_to_operations).                          *)
THEOREM FormattedAsNumbered == Spec => []NumbersAgree
<1>1. Inv => NumbersAgree
  <2> SUFFICES ASSUME Inv, Started PROVE NumbersAgree
    BY DEF NumbersAgree
  <2> DEFINE t(n) == type[<<Target, n>>]
  <2>1. TypeOK /\ Agreement /\ (BeforeZap \/ AfterZap)
    BY DEF Inv
  <2>2. ASSUME NEW n \in Partitions(Target)
        PROVE  t(n) = "old" \/ content[<<Target, n>>] \in {"none", FsOf[t(n)]}
    <3>1. n \in Numbers /\ t(n) # "absent"
      BY DEF Partitions
    <3>2. content[<<Target, n>>] \in Contents
      BY <2>1, <3>1, DiskAssumption DEF TypeOK, Agreement, Devices, Numbers
    <3>3. CASE BeforeZap
      BY <3>1, <3>3 DEF BeforeZap
    <3>4. CASE AfterZap
      BY <3>1, <3>2, <3>4, FormattedForItsType
    <3>. QED
      BY <2>1, <3>3, <3>4
  <2>3. ASSUME stage = "prepared"
        PROVE  /\ \A n \in Partitions(Target) :
                    /\ t(n) \in NewTypes /\ content[<<Target, n>>] = FsOf[t(n)]
                    /\ t(n) = "8300" <=> \A k \in Partitions(Target) : k <= n
               /\ Partitions(Target) # {}
               /\ shown.swap = "disk" <=> \E n \in Partitions(Target) : t(n) = "8200"
    <3> DEFINE L == Layout(shown)
    <3>1. todo = Nothing
      BY <2>3 DEF Inv
    <3>2. AfterZap
      BY <2>1, <3>1, ToolNames DEF BeforeZap, Nothing
    <3>3. /\ \A x \in L : /\ x[1] \in Numbers /\ x[2] \in NewTypes /\ t(x[1]) = x[2]
                          /\ content[<<Target, x[1]>>] = FsOf[x[2]]
          /\ \A n \in Partitions(Target) : <<n, t(n)>> \in L
      BY <2>1, <3>1, <3>2, TableIsLayout DEF Agreement
    <3>4. \A x \in L : x[1] \in Partitions(Target)
      BY <3>3 DEF Partitions, NewTypes
    <3>5. /\ \A x \in L : x[2] = "8300" <=> \A y \in L : y[1] <= x[1]
          /\ \E y \in L : y[2] = "8300"
          /\ (\E x \in L : x[2] = "8200") <=> shown.swap = "disk"
      BY Numbering
    <3>. HIDE DEF L, t
    <3>6. ASSUME NEW n \in Partitions(Target)
          PROVE  t(n) = "8300" <=> \A k \in Partitions(Target) : k <= n
      <4>1. <<n, t(n)>> \in L
        BY <3>3
      <4>2. t(n) = "8300" <=> \A y \in L : y[1] <= n
        BY <3>5, <4>1
      <4>3. (\A y \in L : y[1] <= n) <=> \A k \in Partitions(Target) : k <= n
        BY <3>3, <3>4
      <4>. QED
        BY <4>2, <4>3
    <3>7. ASSUME NEW n \in Partitions(Target)
          PROVE  t(n) \in NewTypes /\ content[<<Target, n>>] = FsOf[t(n)]
      BY <3>3
    <3>8. Partitions(Target) # {}
      BY <3>4, <3>5
    <3>9. (\E x \in L : x[2] = "8200") <=> \E n \in Partitions(Target) : t(n) = "8200"
      BY <3>3, <3>4
    <3>. QED
      BY <3>5, <3>6, <3>7, <3>8, <3>9
  <2>. QED
    BY <2>2, <2>3 DEF NumbersAgree
<1>. QED
  BY <1>1, Preparation, PTL

(* Once a new partition exists nothing of the old installation is left on  *)
(* the disk (CreatePartitionTable wipes each partition before it zaps).    *)
THEOREM OldDataIsGone == Spec => []NothingStale
<1>1. Inv => NothingStale
  <2> SUFFICES ASSUME Inv, Started, NEW m \in Numbers, type[<<Target, m>>] \in NewTypes,
                      NEW n \in 0..MaxPartitions, content[<<Target, n>>] # "none"
               PROVE  /\ n # 0 /\ type[<<Target, n>>] \in NewTypes
                      /\ content[<<Target, n>>] = FsOf[type[<<Target, n>>]]
    BY DEF NothingStale
  <2>1. TypeOK /\ Agreement /\ AfterZap
    BY DEF Inv, BeforeZap, NewTypes
  <2>2. n # 0 /\ n \in Numbers
    BY <2>1, DiskAssumption DEF AfterZap, Whole, Numbers
  <2>3. content[<<Target, n>>] \in Contents
    BY <2>1 DEF TypeOK, Agreement, Devices
  <2>. QED
    BY <2>1, <2>2, <2>3, FormattedForItsType
<1>. QED
  BY <1>1, Preparation, PTL

(* A prepared machine can be booted and holds the system: it has a new ESP *)
(* or one that was spared, and room for the root.                          *)
THEOREM PreparedCanBeInstalled == Spec => []PreparedIsInstallable
<1>1. Inv => PreparedIsInstallable
  <2> SUFFICES ASSUME Inv, stage = "prepared" PROVE PreparedIsInstallable
    BY DEF PreparedIsInstallable
  <2> DEFINE made(t) == \E n \in Numbers : type[<<Target, n>>] = t
             L == Layout(shown)
  <2>1. Agreement /\ todo = Nothing /\ (BeforeZap \/ AfterZap)
    BY DEF Inv, Started
  <2>2. AfterZap
    BY <2>1, ToolNames DEF BeforeZap, Nothing
  <2>3. /\ \A x \in L : x[1] \in Numbers /\ type[<<Target, x[1]>>] = x[2]
        /\ \A n \in Partitions(Target) : <<n, type[<<Target, n>>]>> \in L
    BY <2>1, <2>2, TableIsLayout DEF Agreement
  <2>4. ASSUME NEW t \in NewTypes
        PROVE  made(t) <=> \E x \in L : x[2] = t
    <3>1. made(t) => \E n \in Partitions(Target) : type[<<Target, n>>] = t
      BY DEF Partitions, NewTypes
    <3>. QED
      BY <2>3, <3>1
  <2>5. /\ made("ef00") <=> shown.esp = NoDevice
        /\ made("8200") <=> shown.swap = "disk"
    BY <2>4, Numbering DEF NewTypes
  <2>. HIDE DEF made
  <2>6. /\ made("ef00") \/ (shown.esp # NoDevice /\ shown.esp[1] # Target)
        /\ Capacity[Target] - (IF made("ef00") THEN EspRecommendedSize ELSE 0)
                            - (IF made("8200") THEN DiskSwapSize ELSE 0) >= MinimumRootSize
    <3>1. Capacity[Target] \in Nat /\ Capacity[Target] - Reserved(shown.esp, shown.swap) >= MinimumRootSize
      BY <2>1, DiskAssumption DEF Agreement
    <3>2. made("ef00") \/ (shown.esp # NoDevice /\ shown.esp[1] # Target)
      BY <2>1, <2>5 DEF Agreement
    <3>. QED
      BY <2>5, <3>1, <3>2 DEF Reserved, EspRecommendedSize, DiskSwapSize, MinimumRootSize
  <2>. QED
    BY <2>6 DEF PreparedIsInstallable, made
<1>. QED
  BY <1>1, Preparation, PTL
=============================================================================

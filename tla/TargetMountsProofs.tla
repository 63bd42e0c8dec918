-------------------------- MODULE TargetMountsProofs --------------------------
(***************************************************************************)
(* Proofs about TargetMounts, for every well-formed list of subvolumes,    *)
(* any number of disks, services and faults.  The mounts of a service are  *)
(* exactly those of the operations it has done and not undone (Accounts),  *)
(* no operation mounts over what an earlier one mounted (NoneCovers), and  *)
(* the unwind takes them away in the opposite order.                       *)
(***************************************************************************)
EXTENDS TargetMounts, FiniteSetTheorems, SequenceTheorems, TLAPS

Paths == Seq(Names)

(* The mount of operation i, and of the staging path, by the service that  *)
(* is at work.                                                             *)
MountOf(i) ==
  [at |-> Dest(Operations[i].path), disk |-> DiskOf(Operations[i].kind), by |-> attempt, op |-> i]
StagingMount == [at |-> Staging, disk |-> disk, by |-> attempt, op |-> 3]

Own == {m \in mounts : m.by = attempt}
Made(n) == {MountOf(i) : i \in {j \in DOMAIN Operations : j <= n /\ Operations[j].kind \in Mounting}}

(* What the service has mounted is what its operations account for, unless *)
(* an umount failed for a reason of its own.                               *)
Accounts ==
  /\ phase = "working" => ~stuck
  /\ phase = "working" =>
       Own = Made(op - 1) \cup (IF op = 3 /\ part > 0 THEN {StagingMount} ELSE {})
  /\ phase = "unwinding" /\ ~stuck => Own = Made(undoing)
  /\ phase = "ended" /\ ~stuck => Own = {}

OneEach == \A m, k \in mounts : m.by = k.by /\ m.op = k.op => m = k

(* While it releases its disk it knows what is mounted from it.            *)
Releasing ==
  phase = "working" /\ ~buried =>
    /\ op = 1 => listed = MountsOf(disk) /\ \A m \in listed : OnTop(m)
    /\ op = 2 => MountsOf(disk) = {}

(* The subvolumes made so far, and the directories they needed.            *)
Creating ==
  phase = "working" =>
    /\ op = 3 =>
         /\ part <= Len(Subvolumes) + 1
         /\ \A i \in DOMAIN Subvolumes : i < part => Volume(Subvolumes[i]) \in volumes
         /\ \A v \in volumes \cup directories :
              /\ v \in Paths
              /\ \E i \in DOMAIN Subvolumes : i < part /\ IsPrefix(v, Volume(Subvolumes[i]))
    /\ op > 3 => \A i \in DOMAIN Subvolumes : Volume(Subvolumes[i]) \in volumes

Inv ==
  /\ TypeOK
  /\ phase # "idle" => disk \in Disks /\ attempt > 0
  /\ Accounts /\ OneEach /\ Releasing /\ Creating
  /\ OnlyOthersInterfere

-----------------------------------------------------------------------------
(* Prefixes of paths.                                                      *)
LEMMA PrefixMeans ==
  ASSUME NEW s \in Paths, NEW t \in Paths
  PROVE  IsPrefix(s, t) <=> Len(s) <= Len(t) /\ \A i \in 1..Len(s) : s[i] = t[i]
<1>1. CASE Len(s) <= Len(t)
  <2>1. /\ SubSeq(t, 1, Len(s)) \in Paths /\ Len(SubSeq(t, 1, Len(s))) = Len(s)
        /\ \A i \in 1..Len(s) : SubSeq(t, 1, Len(s))[i] = t[i]
    <3>1. Len(s) \in Nat /\ Len(t) \in Nat
      BY DEF Paths
    <3>2. \A i \in 1..Len(s) : t[i] \in Names
      BY <1>1, <3>1 DEF Paths
    <3>. QED
      BY <3>1, <3>2, SubSeqProperties DEF Paths
  <2>2. SubSeq(s, 1, Len(s)) = s
    BY SubSeqFull DEF Paths
  <2>3. (\A i \in 1..Len(s) : s[i] = t[i]) => s = SubSeq(t, 1, Len(s))
    BY <2>1, SeqEqual DEF Paths
  <2>. QED
    BY <1>1, <2>1, <2>2, <2>3 DEF IsPrefix
<1>2. CASE ~(Len(s) <= Len(t))
  BY <1>2 DEF IsPrefix
<1>. QED
  BY <1>1, <1>2

LEMMA PrefixOfItself ==
  ASSUME NEW s \in Paths
  PROVE  IsPrefix(s, s)
BY PrefixMeans DEF Paths

LEMMA PrefixNoShorter ==
  ASSUME NEW s \in Paths, NEW t \in Paths, IsPrefix(s, t), Len(t) <= Len(s)
  PROVE  s = t
<1>1. Len(s) = Len(t) /\ \A i \in 1..Len(s) : s[i] = t[i]
  BY PrefixMeans DEF Paths
<1>. QED
  BY <1>1, SeqEqual DEF Paths

(* What holds of two paths holds of them under the same directory.         *)
LEMMA PrefixUnder ==
  ASSUME NEW root \in Names, NEW s \in Paths, NEW t \in Paths
  PROVE  /\ <<root>> \o s \in Paths /\ <<root>> \o t \in Paths
         /\ IsPrefix(<<root>> \o s, <<root>> \o t) <=> IsPrefix(s, t)
<1> DEFINE u == <<root>> \o s
           v == <<root>> \o t
<1>1. <<root>> \in Paths /\ Len(<<root>>) = 1
  <2>1. <<root>> \in Paths
    BY DEF Paths
  <2>2. Len(<<root>>) = 1
    OBVIOUS
  <2>. QED
    BY <2>1, <2>2
<1>2. /\ u \in Paths /\ Len(u) = 1 + Len(s)
      /\ \A i \in 1..1 + Len(s) : u[i] = IF i <= 1 THEN <<root>>[i] ELSE s[i - 1]
  BY <1>1, ConcatProperties DEF Paths
<1>3. /\ v \in Paths /\ Len(v) = 1 + Len(t)
      /\ \A i \in 1..1 + Len(t) : v[i] = IF i <= 1 THEN <<root>>[i] ELSE t[i - 1]
  BY <1>1, ConcatProperties DEF Paths
<1>. HIDE DEF u, v
<1>4. Len(s) \in Nat /\ Len(t) \in Nat
  BY DEF Paths
<1>5. CASE Len(s) <= Len(t)
  <2>1. (\A i \in 1..Len(u) : u[i] = v[i]) <=> \A i \in 1..Len(s) : s[i] = t[i]
    <3>1. ASSUME \A i \in 1..Len(u) : u[i] = v[i], NEW i \in 1..Len(s) PROVE s[i] = t[i]
      <4>1. i + 1 \in 1..Len(u) /\ i + 1 \in 1..1 + Len(t) /\ ~(i + 1 <= 1) /\ (i + 1) - 1 = i
        BY <1>2, <1>4, <1>5
      <4>. QED
        BY <1>2, <1>3, <3>1, <4>1
    <3>2. ASSUME \A i \in 1..Len(s) : s[i] = t[i], NEW i \in 1..Len(u) PROVE u[i] = v[i]
      <4>1. i \in 1..1 + Len(s) /\ i \in 1..1 + Len(t) /\ (~(i <= 1) => i - 1 \in 1..Len(s))
        BY <1>2, <1>4, <1>5
      <4>. QED
        BY <1>2, <1>3, <3>2, <4>1
    <3>. QED
      BY <3>1, <3>2
  <2>2. Len(u) <= Len(v)
    BY <1>2, <1>3, <1>4, <1>5
  <2>. QED
    BY <1>2, <1>3, <1>5, <2>1, <2>2, PrefixMeans DEF u, v
<1>6. CASE ~(Len(s) <= Len(t))
  <2>1. ~(Len(u) <= Len(v))
    BY <1>2, <1>3, <1>4, <1>6
  <2>. QED
    BY <1>2, <1>3, <1>6, <2>1, PrefixMeans DEF u, v
<1>. QED
  BY <1>2, <1>3, <1>5, <1>6 DEF u, v

-----------------------------------------------------------------------------
(* sort_by_key: the element with the smaller key comes first, of two with  *)
(* the same key the one that was first.                                    *)
LEMMA PositionOrder ==
  ASSUME NEW n \in Nat, NEW key \in [1..n -> Int], NEW i \in 1..n, NEW j \in 1..n,
         key[i] < key[j] \/ (key[i] = key[j] /\ i < j)
  PROVE  Position(key, i) < Position(key, j)
<1> DEFINE upTo(k) == {x \in DOMAIN key : key[x] < key[k] \/ (key[x] = key[k] /\ x <= k)}
<1>1. IsFiniteSet(1..n)
  BY FS_Interval
<1>2. upTo(j) \in SUBSET (1..n)
  OBVIOUS
<1>3. IsFiniteSet(upTo(j))
  BY <1>1, <1>2, FS_Subset
<1>4. upTo(i) \in SUBSET upTo(j)
  OBVIOUS
<1>5. j \in upTo(j) /\ j \notin upTo(i)
  OBVIOUS
<1>6. IsFiniteSet(upTo(i)) /\ Cardinality(upTo(i)) \in Nat /\ Cardinality(upTo(j)) \in Nat
  BY <1>3, <1>4, FS_Subset, FS_CardinalityType
<1>7. Cardinality(upTo(i)) <= Cardinality(upTo(j)) /\ Cardinality(upTo(i)) # Cardinality(upTo(j))
  BY <1>3, <1>4, <1>5, FS_Subset
<1>8. Position(key, i) = Cardinality(upTo(i)) /\ Position(key, j) = Cardinality(upTo(j))
  BY DEF Position
<1>. HIDE DEF upTo
<1>. QED
  BY <1>6, <1>7, <1>8

LEMMA PositionRange ==
  ASSUME NEW n \in Nat, NEW key \in [1..n -> Int], NEW i \in 1..n
  PROVE  Position(key, i) \in 1..n
<1> DEFINE upTo == {x \in DOMAIN key : key[x] < key[i] \/ (key[x] = key[i] /\ x <= i)}
<1>1. IsFiniteSet(1..n) /\ Cardinality(1..n) = n
  BY FS_Interval
<1>2. upTo \in SUBSET (1..n) /\ i \in upTo
  OBVIOUS
<1>3. IsFiniteSet(upTo) /\ Cardinality(upTo) <= n
  BY <1>1, <1>2, FS_Subset
<1>4. Cardinality(upTo) \in Nat /\ Cardinality(upTo) # 0
  BY <1>2, <1>3, FS_CardinalityType, FS_EmptySet
<1>5. Position(key, i) = Cardinality(upTo)
  BY DEF Position
<1>. HIDE DEF upTo
<1>. QED
  BY <1>3, <1>4, <1>5

LEMMA Sorted ==
  ASSUME NEW n \in Nat, NEW key \in [1..n -> Int]
  PROVE  /\ StableSort(key) \in [1..n -> 1..n]
         /\ \A k, l \in 1..n : k < l =>
              LET i == StableSort(key)[k]
                  j == StableSort(key)[l]
              IN  key[i] < key[j] \/ (key[i] = key[j] /\ i < j)
<1> DEFINE pos == [i \in 1..n |-> Position(key, i)]
           s == StableSort(key)
<1>1. pos \in [1..n -> 1..n]
  BY PositionRange
<1>2. \A i, j \in 1..n : pos[i] = pos[j] => i = j
  <2> SUFFICES ASSUME NEW i \in 1..n, NEW j \in 1..n, i # j PROVE pos[i] # pos[j]
    OBVIOUS
  <2>1. \/ key[i] < key[j] \/ (key[i] = key[j] /\ i < j)
        \/ key[j] < key[i] \/ (key[j] = key[i] /\ j < i)
    OBVIOUS
  <2>2. Position(key, i) < Position(key, j) \/ Position(key, j) < Position(key, i)
    BY <2>1, PositionOrder
  <2>3. Position(key, i) \in Nat /\ Position(key, j) \in Nat
    BY PositionRange
  <2>4. Position(key, i) # Position(key, j)
    BY <2>2, <2>3
  <2>. QED
    BY <2>4
<1>3. pos \in Surjection(1..n, 1..n)
  <2>1. pos \in Injection(1..n, 1..n)
    BY <1>1, <1>2 DEF Injection, IsInjective
  <2>2. IsFiniteSet(1..n)
    BY FS_Interval
  <2>. QED
    BY <2>1, <2>2, FS_Injection
<1>4. ASSUME NEW k \in 1..n PROVE s[k] \in 1..n /\ Position(key, s[k]) = k
  <2>1. \E i \in 1..n : pos[i] = k
    BY <1>3 DEF Surjection
  <2>2. \E i \in DOMAIN key : Position(key, i) = k
    BY <2>1
  <2>3. s[k] = CHOOSE i \in DOMAIN key : Position(key, i) = k
    BY DEF StableSort
  <2>. QED
    BY <2>2, <2>3
<1>5. s \in [1..n -> 1..n]
  <2>1. s = [k \in 1..n |-> s[k]]
    BY DEF StableSort
  <2>. QED
    BY <1>4, <2>1
<1>6. ASSUME NEW k \in 1..n, NEW l \in 1..n, k < l
      PROVE  key[s[k]] < key[s[l]] \/ (key[s[k]] = key[s[l]] /\ s[k] < s[l])
  <2>1. /\ s[k] \in 1..n /\ s[l] \in 1..n /\ s[k] # s[l]
        /\ ~(Position(key, s[l]) < Position(key, s[k]))
    BY <1>4, <1>6
  <2>2. ~(key[s[l]] < key[s[k]] \/ (key[s[l]] = key[s[k]] /\ s[l] < s[k]))
    BY <2>1, PositionOrder
  <2>3. key[s[k]] \in Int /\ key[s[l]] \in Int
    BY <2>1
  <2>. HIDE DEF s
  <2>. QED
    BY <2>1, <2>2, <2>3
<1>. QED
  BY <1>5, <1>6

-----------------------------------------------------------------------------
(* The paths that the installer itself names.                              *)
LEMMA OwnPaths ==
  /\ <<>> \in Paths /\ Staging \in Paths /\ EspPath \in Paths
  /\ VirtualPaths \in Seq(Paths) /\ Len(VirtualPaths) = 6
<1>1. ASSUME NEW a \in Names PROVE <<a>> \in Paths
  BY DEF Paths
<1>2. ASSUME NEW a \in Names, NEW b \in Names PROVE <<a, b>> \in Paths
  BY DEF Paths
<1>3. ASSUME NEW a \in Names, NEW b \in Names, NEW c \in Names, NEW d \in Names
      PROVE  <<a, b, c, d>> \in Paths
  BY DEF Paths
<1>4. OwnNames \subseteq Names
  BY MountsAssumption
<1>5. <<>> \in Paths
  BY DEF Paths
<1>6. Staging \in Paths
  BY <1>1, <1>4 DEF Staging, OwnNames
<1>7. EspPath \in Paths
  BY <1>2, <1>4 DEF EspPath, OwnNames
<1>8. VirtualPaths \in Seq(Paths) /\ Len(VirtualPaths) = 6
  <2>1. ASSUME NEW a \in Paths, NEW b \in Paths, NEW c \in Paths,
               NEW d \in Paths, NEW e \in Paths, NEW f \in Paths
        PROVE  <<a, b, c, d, e, f>> \in Seq(Paths)
    OBVIOUS
  <2>2. /\ <<"proc">> \in Paths /\ <<"sys">> \in Paths /\ <<"dev">> \in Paths
        /\ <<"run">> \in Paths
    BY <1>1, <1>4 DEF OwnNames
  <2>3. <<"run", "udev">> \in Paths
    BY <1>2, <1>4 DEF OwnNames
  <2>4. <<"sys", "firmware", "efi", "efivars">> \in Paths
    BY <1>3, <1>4 DEF OwnNames
  <2>. QED
    BY <2>1, <2>2, <2>3, <2>4 DEF VirtualPaths
<1>. QED
  BY <1>5, <1>6, <1>7, <1>8

(* Parents are mounted before what lies under them.                        *)
LEMMA ParentsFirst ==
  LET n == Len(Subvolumes)
  IN  /\ n \in Nat \ {0} /\ \A i \in 1..n : Subvolumes[i] \in Paths
      /\ MountOrder \in Seq(Paths) /\ Len(MountOrder) = n
      /\ \A k \in 1..n : \E i \in 1..n : MountOrder[k] = Subvolumes[i]
      /\ \A k, l \in 1..n : k < l => ~IsPrefix(MountOrder[l], MountOrder[k])
<1> DEFINE n == Len(Subvolumes)
           key == Components(Subvolumes)
           order == StableSort(key)
<1>1. /\ n \in Nat \ {0} /\ DOMAIN Subvolumes = 1..n
      /\ \A i \in 1..n : Subvolumes[i] \in Paths
  BY MountsAssumption, LenProperties DEF WellFormed, Paths
<1>2. key \in [1..n -> Int] /\ \A i \in 1..n : key[i] = Len(Subvolumes[i])
  <2>1. \A i \in 1..n : Len(Subvolumes[i]) \in Nat
    BY <1>1 DEF Paths
  <2>. QED
    BY <1>1, <2>1 DEF Components
<1>. HIDE DEF key
<1>3. /\ order \in [1..n -> 1..n]
      /\ \A k, l \in 1..n : k < l =>
           \/ key[order[k]] < key[order[l]]
           \/ key[order[k]] = key[order[l]] /\ order[k] < order[l]
  BY <1>1, <1>2, Sorted
<1>4. MountOrder = [k \in 1..n |-> Subvolumes[order[k]]]
  BY <1>1 DEF MountOrder, key
<1>. HIDE DEF order, n
<1>5. MountOrder \in Seq(Paths) /\ Len(MountOrder) = n
  <2>1. MountOrder \in [1..n -> Paths]
    BY <1>1, <1>3, <1>4
  <2>. QED
    BY <1>1, <2>1
<1>6. ASSUME NEW k \in 1..n, NEW l \in 1..n, k < l,
             IsPrefix(MountOrder[l], MountOrder[k])
      PROVE  FALSE
  <2> DEFINE i == order[k]
             j == order[l]
  <2>1. /\ i \in 1..n /\ j \in 1..n /\ IsPrefix(Subvolumes[j], Subvolumes[i])
        /\ Subvolumes[i] \in Paths /\ Subvolumes[j] \in Paths
    BY <1>1, <1>3, <1>4, <1>6
  <2>2. key[i] < key[j] \/ (key[i] = key[j] /\ i < j)
    BY <1>3, <1>6
  <2>3. key[i] \in Int /\ key[j] \in Int /\ key[j] <= key[i]
    BY <1>2, <2>1, PrefixMeans
  <2>4. ~(key[i] < key[j])
    BY <2>3
  <2>5. i < j
    BY <2>2, <2>4
  <2>. HIDE DEF i, j
  <2>. QED
    BY <1>1, <2>1, <2>5, MountsAssumption DEF WellFormed
<1>7. \A k \in 1..n : \E i \in 1..n : MountOrder[k] = Subvolumes[i]
  BY <1>3, <1>4
<1>. QED
  BY <1>1, <1>5, <1>6, <1>7 DEF n

(* The sequence of operations.                                             *)
Kinds == {"release", "format", "create", "subvolume", "esp", "files", "virtual", "chroot"}
Ops == [kind : Kinds, path : Paths]

LEMMA Listed ==
  ASSUME NEW S, NEW n \in Nat, NEW f \in [1..n -> S]
  PROVE  f \in Seq(S) /\ Len(f) = n
OBVIOUS

LEMMA Joined ==
  ASSUME NEW s \in Seq(Ops), NEW t \in Seq(Ops)
  PROVE  /\ s \o t \in Seq(Ops) /\ Len(s \o t) = Len(s) + Len(t)
         /\ \A k \in 1..Len(s) : (s \o t)[k] = s[k]
         /\ \A k \in 1..Len(t) : (s \o t)[Len(s) + k] = t[k]
<1> DEFINE u == s \o t
<1>1. /\ u \in Seq(Ops) /\ Len(u) = Len(s) + Len(t) /\ Len(s) \in Nat /\ Len(t) \in Nat
      /\ \A i \in 1..Len(s) + Len(t) : u[i] = IF i <= Len(s) THEN s[i] ELSE t[i - Len(s)]
  BY ConcatProperties
<1>. HIDE DEF u
<1>2. ASSUME NEW k \in 1..Len(s) PROVE u[k] = s[k]
  BY <1>1
<1>3. ASSUME NEW k \in 1..Len(t) PROVE u[Len(s) + k] = t[k]
  <2>1. /\ Len(s) + k \in 1..Len(s) + Len(t) /\ ~(Len(s) + k <= Len(s))
        /\ (Len(s) + k) - Len(s) = k
    BY <1>1
  <2>. QED
    BY <1>1, <2>1
<1>. QED
  BY <1>1, <1>2, <1>3 DEF u

LEMMA PreparingIs ==
  /\ Preparing \in Seq(Ops) /\ Len(Preparing) = 3
  /\ Preparing[1].kind = "release" /\ Preparing[2].kind = "format"
  /\ Preparing[3].kind = "create"
<1> DEFINE step(kind) == Operation(kind, <<>>)
<1>1. \A kind \in Kinds : step(kind) \in Ops
  BY OwnPaths DEF Operation, Ops
<1>2. Preparing = <<step("release"), step("format"), step("create")>>
  BY DEF Preparing
<1>3. /\ step("release").kind = "release" /\ step("format").kind = "format"
      /\ step("create").kind = "create"
  BY DEF Operation
<1>4. step("release") \in Ops /\ step("format") \in Ops /\ step("create") \in Ops
  BY <1>1 DEF Kinds
<1>. HIDE DEF step
<1>. QED
  BY <1>2, <1>3, <1>4

LEMMA FillingIs ==
  /\ Filling \in Seq(Ops) /\ Len(Filling) = 9
  /\ Filling[1].kind = "esp" /\ Filling[1].path = EspPath
  /\ Filling[2].kind = "files"
  /\ \A k \in 1..6 : Filling[2 + k].kind = "virtual" /\ Filling[2 + k].path = VirtualPaths[k]
  /\ Filling[9].kind = "chroot"
<1> DEFINE esp == Each("esp", <<EspPath>>)
           virtual == Each("virtual", VirtualPaths)
<1>1. /\ esp \in Seq(Ops) /\ Len(esp) = 1 /\ esp[1].kind = "esp" /\ esp[1].path = EspPath
  <2>1. Operation("esp", EspPath) \in Ops
    BY OwnPaths DEF Operation, Ops, Kinds
  <2>2. esp = [i \in 1..1 |-> Operation("esp", EspPath)]
    BY DEF Each
  <2>3. esp \in [1..1 -> Ops]
    BY <2>1, <2>2
  <2>4. esp[1] = Operation("esp", EspPath)
    BY <2>2
  <2>5. esp \in Seq(Ops) /\ Len(esp) = 1
    BY <2>3, Listed
  <2>6. esp[1].kind = "esp" /\ esp[1].path = EspPath
    BY <2>4 DEF Operation
  <2>. QED
    BY <2>5, <2>6
<1>2. /\ virtual \in Seq(Ops) /\ Len(virtual) = 6
      /\ \A k \in 1..6 : virtual[k].kind = "virtual" /\ virtual[k].path = VirtualPaths[k]
  <2>1. DOMAIN VirtualPaths = 1..6 /\ \A k \in 1..6 : VirtualPaths[k] \in Paths
    BY OwnPaths, LenProperties
  <2>2. \A k \in 1..6 : Operation("virtual", VirtualPaths[k]) \in Ops
    BY <2>1 DEF Operation, Ops, Kinds
  <2>3. virtual = [k \in 1..6 |-> Operation("virtual", VirtualPaths[k])]
    BY <2>1 DEF Each
  <2>4. virtual \in [1..6 -> Ops]
    BY <2>2, <2>3
  <2>5. \A k \in 1..6 : virtual[k] = Operation("virtual", VirtualPaths[k])
    BY <2>3
  <2>. HIDE DEF virtual
  <2>6. virtual \in Seq(Ops) /\ Len(virtual) = 6
    BY <2>4, Listed
  <2>. QED
    BY <2>5, <2>6 DEF Operation
<1>3. ASSUME NEW kind \in Kinds
      PROVE  One(kind) \in Seq(Ops) /\ Len(One(kind)) = 1 /\ One(kind)[1].kind = kind
  <2>1. Operation(kind, <<>>) \in Ops /\ Operation(kind, <<>>).kind = kind
    BY OwnPaths DEF Operation, Ops
  <2>. QED
    BY <2>1 DEF One
<1>4. "files" \in Kinds /\ "chroot" \in Kinds
  BY DEF Kinds
<1>. HIDE DEF esp, virtual
<1> DEFINE first == esp \o One("files")
           second == first \o virtual
<1>5. /\ first \in Seq(Ops) /\ Len(first) = 2
      /\ first[1] = esp[1] /\ first[2] = One("files")[1]
  BY <1>1, <1>3, <1>4, ConcatProperties
<1>. HIDE DEF first
<1>6. /\ second \in Seq(Ops) /\ Len(second) = 8
      /\ second[1] = first[1] /\ second[2] = first[2]
      /\ \A k \in 1..6 : second[2 + k] = virtual[k]
  <2>1. /\ second \in Seq(Ops) /\ Len(second) = Len(first) + Len(virtual)
        /\ \A k \in 1..Len(first) : second[k] = first[k]
        /\ \A k \in 1..Len(virtual) : second[Len(first) + k] = virtual[k]
    <3>1. first \in Seq(Ops) /\ virtual \in Seq(Ops)
      BY <1>2, <1>5
    <3>. QED
      BY <3>1, Joined
  <2>. HIDE DEF second
  <2>. QED
    BY <1>2, <1>5, <2>1
<1>. HIDE DEF second
<1>7. Filling = second \o One("chroot")
  BY DEF Filling, second, first, esp, virtual
<1>8. /\ Filling \in Seq(Ops) /\ Len(Filling) = 9
      /\ \A k \in 1..8 : Filling[k] = second[k]
      /\ Filling[9] = One("chroot")[1]
  <2>1. One("chroot") \in Seq(Ops) /\ Len(One("chroot")) = 1
    BY <1>3, <1>4
  <2>2. /\ Filling \in Seq(Ops) /\ Len(Filling) = Len(second) + Len(One("chroot"))
        /\ \A k \in 1..Len(second) : Filling[k] = second[k]
        /\ \A k \in 1..Len(One("chroot")) : Filling[Len(second) + k] = One("chroot")[k]
    <3>1. second \in Seq(Ops) /\ One("chroot") \in Seq(Ops)
      BY <1>6, <2>1
    <3>. QED
      BY <1>7, <3>1, Joined
  <2>3. \A k \in 1..8 : Filling[k] = second[k]
    BY <1>6, <2>2
  <2>4. Filling[8 + 1] = One("chroot")[1] /\ 8 + 1 = 9
    BY <1>6, <2>1, <2>2
  <2>5. Filling[9] = One("chroot")[1]
    BY <2>4
  <2>6. Filling \in Seq(Ops)
    BY <2>2
  <2>7. Len(Filling) = 9
    <3>1. Len(second) = 8 /\ Len(One("chroot")) = 1
      BY <1>6, <2>1
    <3>2. Len(Filling) = 8 + 1
      BY <2>2, <3>1, Zenon
    <3>. QED
      BY <3>2
  <2>. QED
    BY <2>3, <2>5, <2>6, <2>7
<1>9. \A k \in 1..6 : Filling[2 + k] = virtual[k]
  BY <1>6, <1>8
<1>. QED
  BY <1>1, <1>2, <1>3, <1>4, <1>5, <1>6, <1>8, <1>9

(* The operations by number: three that prepare the file system, one for   *)
(* each subvolume, the ESP, the files, six virtual file systems, and what  *)
(* runs in the chroot.                                                     *)
LEMMA OperationsAre ==
  LET n == Len(Subvolumes)
  IN  /\ Operations \in Seq(Ops) /\ Len(Operations) = n + 12 /\ DOMAIN Operations = 1..n + 12
      /\ Operations[1].kind = "release" /\ Operations[2].kind = "format"
      /\ Operations[3].kind = "create"
      /\ \A k \in 1..n : /\ Operations[3 + k].kind = "subvolume"
                         /\ Operations[3 + k].path = MountOrder[k]
      /\ Operations[n + 4].kind = "esp" /\ Operations[n + 4].path = EspPath
      /\ Operations[n + 5].kind = "files"
      /\ \A k \in 1..6 : /\ Operations[n + 5 + k].kind = "virtual"
                         /\ Operations[n + 5 + k].path = VirtualPaths[k]
      /\ Operations[n + 12].kind = "chroot"
<1> DEFINE n == Len(Subvolumes)
           each == Each("subvolume", MountOrder)
           first == Preparing \o each
<1>1. n \in Nat
  BY ParentsFirst
<1>2. /\ each \in Seq(Ops) /\ Len(each) = n
      /\ \A k \in 1..n : each[k].kind = "subvolume" /\ each[k].path = MountOrder[k]
  <2>1. DOMAIN MountOrder = 1..n /\ \A k \in 1..n : MountOrder[k] \in Paths
    BY ParentsFirst, LenProperties
  <2>2. \A k \in 1..n : Operation("subvolume", MountOrder[k]) \in Ops
    BY <2>1 DEF Operation, Ops, Kinds
  <2>3. each = [k \in 1..n |-> Operation("subvolume", MountOrder[k])]
    BY <2>1 DEF Each
  <2>. HIDE DEF n
  <2>4. each \in [1..n -> Ops]
    BY <2>2, <2>3
  <2>. QED
    BY <1>1, <2>3, <2>4 DEF Operation
<1>. HIDE DEF each, n
<1>3. /\ first \in Seq(Ops) /\ Len(first) = n + 3
      /\ \A k \in 1..3 : first[k] = Preparing[k]
      /\ \A k \in 1..n : first[3 + k] = each[k]
  <2>1. /\ first \in Seq(Ops) /\ Len(first) = Len(Preparing) + Len(each)
        /\ \A k \in 1..Len(Preparing) : first[k] = Preparing[k]
        /\ \A k \in 1..Len(each) : first[Len(Preparing) + k] = each[k]
    <3>1. Preparing \in Seq(Ops) /\ each \in Seq(Ops)
      BY <1>2, PreparingIs
    <3>. QED
      BY <3>1, Joined
  <2>. HIDE DEF first
  <2>. QED
    BY <1>1, <1>2, <2>1, PreparingIs
<1>. HIDE DEF first
<1>4. Operations = first \o Filling
  BY DEF Operations, first, each
<1>5. /\ Operations \in Seq(Ops) /\ Len(Operations) = n + 12
      /\ \A k \in 1..n + 3 : Operations[k] = first[k]
      /\ \A k \in 1..9 : Operations[n + 3 + k] = Filling[k]
  <2>1. /\ Operations \in Seq(Ops) /\ Len(Operations) = Len(first) + Len(Filling)
        /\ \A k \in 1..Len(first) : Operations[k] = first[k]
        /\ \A k \in 1..Len(Filling) : Operations[Len(first) + k] = Filling[k]
    <3>1. first \in Seq(Ops) /\ Filling \in Seq(Ops)
      BY <1>3, FillingIs
    <3>. QED
      BY <1>4, <3>1, Joined
  <2>. QED
    BY <1>1, <1>3, <2>1, FillingIs
<1>6. /\ Operations[1] = Preparing[1] /\ Operations[2] = Preparing[2]
      /\ Operations[3] = Preparing[3]
      /\ \A k \in 1..n : Operations[3 + k] = each[k]
  <2>1. \A k \in 1..3 : k \in 1..n + 3
    BY <1>1
  <2>2. \A k \in 1..3 : Operations[k] = Preparing[k]
    BY <1>3, <1>5, <2>1
  <2>3. 1 \in 1..3 /\ 2 \in 1..3 /\ 3 \in 1..3
    OBVIOUS
  <2>4. \A k \in 1..n : 3 + k \in 1..n + 3
    BY <1>1
  <2>5. \A k \in 1..n : Operations[3 + k] = each[k]
    BY <1>3, <1>5, <2>4
  <2>. QED
    BY <2>2, <2>3, <2>5
<1>7. /\ Operations[n + 4] = Filling[1] /\ Operations[n + 5] = Filling[2]
      /\ Operations[n + 12] = Filling[9]
  <2>1. n + 4 = n + 3 + 1 /\ n + 5 = n + 3 + 2 /\ n + 12 = n + 3 + 9
    BY <1>1
  <2>. QED
    BY <1>5, <2>1
<1>8. \A k \in 1..6 : Operations[n + 5 + k] = Filling[2 + k]
  <2>1. \A k \in 1..6 : n + 5 + k = n + 3 + (2 + k) /\ 2 + k \in 1..9
    BY <1>1
  <2>. QED
    BY <1>5, <2>1
<1>9. DOMAIN Operations = 1..n + 12
  BY <1>5, LenProperties
<1>10. /\ Operations[1].kind = "release" /\ Operations[2].kind = "format"
       /\ Operations[3].kind = "create"
  BY <1>6, PreparingIs
<1>11. /\ Operations[n + 4].kind = "esp" /\ Operations[n + 4].path = EspPath
       /\ Operations[n + 5].kind = "files" /\ Operations[n + 12].kind = "chroot"
  BY <1>7, FillingIs
<1>12. \A k \in 1..6 : /\ Operations[n + 5 + k].kind = "virtual"
                       /\ Operations[n + 5 + k].path = VirtualPaths[k]
  BY <1>8, FillingIs
<1>13. \A k \in 1..n : /\ Operations[3 + k].kind = "subvolume"
                       /\ Operations[3 + k].path = MountOrder[k]
  BY <1>2, <1>6
<1>. QED
  BY <1>5, <1>9, <1>10, <1>11, <1>12, <1>13 DEF n

LEMMA OperationNumbers ==
  /\ DOMAIN Operations = 1..Len(Operations) /\ Len(Operations) \in Nat
  /\ \A i \in DOMAIN Operations : i \in Int /\ i - 1 \in 0..Len(Operations)
<1>1. DOMAIN Operations = 1..Len(Operations) /\ Len(Operations) \in Nat
  BY OperationsAre, ParentsFirst
<1>. QED
  BY <1>1

(* Which operation is of which kind.                                       *)
LEMMA KindsAre ==
  ASSUME NEW i \in DOMAIN Operations
  PROVE  LET n == Len(Subvolumes)
         IN  /\ Operations[i].kind = "release" <=> i = 1
             /\ Operations[i].kind = "format" <=> i = 2
             /\ Operations[i].kind = "create" <=> i = 3
             /\ Operations[i].kind \in {"files", "chroot"} => i > 3
             /\ Operations[i].kind \in Mounting =>
                  \/ \E k \in 1..n : i = 3 + k
                  \/ i = n + 4
                  \/ \E k \in 1..6 : i = n + 5 + k
             /\ Operations[i].kind = "subvolume" => \E k \in 1..n : i = 3 + k
             /\ Operations[i].path \in Paths
<1> DEFINE n == Len(Subvolumes)
<1>1. n \in Nat /\ i \in 1..n + 12
  BY ParentsFirst, OperationsAre
<1>2. Operations[i].path \in Paths
  <2>1. Operations \in Seq(Ops)
    BY OperationsAre
  <2>2. Operations[i] \in Ops
    BY <2>1, LenProperties
  <2>. QED
    BY <2>2 DEF Ops
<1>. HIDE DEF n
<1>3. \/ i = 1 \/ i = 2 \/ i = 3
      \/ \E k \in 1..n : i = 3 + k
      \/ i = n + 4 \/ i = n + 5 \/ i = n + 12
      \/ \E k \in 1..6 : i = n + 5 + k
  <2>1. i > 3 /\ i <= n + 3 => i - 3 \in 1..n /\ i = 3 + (i - 3)
    BY <1>1
  <2>2. i > n + 5 /\ i < n + 12 => i - (n + 5) \in 1..6 /\ i = n + 5 + (i - (n + 5))
    BY <1>1
  <2>. QED
    BY <1>1, <2>1, <2>2
<1>4. CASE i = 1 \/ i = 2 \/ i = 3
  BY <1>2, <1>4, OperationsAre DEF Mounting, n
<1>5. CASE \E k \in 1..n : i = 3 + k
  <2>1. Operations[i].kind = "subvolume" /\ i > 3
    BY <1>1, <1>5, OperationsAre DEF n
  <2>. QED
    BY <1>2, <1>5, <2>1 DEF n
<1>6. CASE i = n + 4
  <2>1. Operations[i].kind = "esp" /\ i > 3
    BY <1>1, <1>6, OperationsAre DEF n
  <2>. QED
    BY <1>2, <1>6, <2>1 DEF n
<1>7. CASE i = n + 5
  <2>1. Operations[i].kind = "files" /\ i > 3
    BY <1>1, <1>7, OperationsAre DEF n
  <2>. QED
    BY <1>2, <1>7, <2>1 DEF n, Mounting
<1>8. CASE i = n + 12
  <2>1. Operations[i].kind = "chroot" /\ i > 3
    BY <1>1, <1>8, OperationsAre DEF n
  <2>. QED
    BY <1>2, <1>8, <2>1 DEF n, Mounting
<1>9. CASE \E k \in 1..6 : i = n + 5 + k
  <2>1. i > 3
    BY <1>1, <1>9
  <2>2. Operations[i].kind = "virtual"
    BY <1>9, OperationsAre DEF n
  <2>. QED
    BY <1>2, <1>9, <2>1, <2>2 DEF n
<1>. QED
  BY <1>3, <1>4, <1>5, <1>6, <1>7, <1>8, <1>9

(* Of the installer's own mount points none lies over an earlier one.      *)
LEMMA VirtualOrder ==
  /\ \A k \in 1..6 : VirtualPaths[k] \in Paths /\ ~IsPrefix(VirtualPaths[k], EspPath)
  /\ \A k, l \in 1..6 : k < l => ~IsPrefix(VirtualPaths[l], VirtualPaths[k])
<1>1. \A k \in 1..6 : VirtualPaths[k] \in Paths
  BY OwnPaths, LenProperties
<1>2. EspPath \in Paths /\ Len(EspPath) = 2 /\ EspPath[1] = "boot"
  BY OwnPaths DEF EspPath
<1> DEFINE v == VirtualPaths
<1>3. /\ Len(v[1]) = 1 /\ v[1][1] = "proc"
      /\ Len(v[2]) = 1 /\ v[2][1] = "sys"
      /\ Len(v[3]) = 1 /\ v[3][1] = "dev"
      /\ Len(v[4]) = 1 /\ v[4][1] = "run"
      /\ Len(v[5]) = 2 /\ v[5][1] = "run"
      /\ Len(v[6]) = 4 /\ v[6][1] = "sys"
  BY DEF VirtualPaths
<1>4. ASSUME NEW s \in Paths, NEW t \in Paths, Len(s) \in 1..4, Len(t) \in 1..4, IsPrefix(s, t)
      PROVE  s[1] = t[1] /\ Len(s) <= Len(t)
  BY <1>4, PrefixMeans
<1>. HIDE DEF v
<1>5. \A k \in 1..6 : v[k] \in Paths
  BY <1>1 DEF v
<1>6. \A k \in 1..6 : ~IsPrefix(v[k], EspPath)
  BY <1>2, <1>3, <1>4, <1>5
<1>7. ASSUME NEW k \in 1..6, NEW l \in 1..6,
             v[l][1] # v[k][1] \/ Len(v[k]) < Len(v[l])
      PROVE  ~IsPrefix(v[l], v[k])
  <2>1. /\ Len(v[k]) \in 1..4 /\ Len(v[l]) \in 1..4
        /\ v[k] \in Paths /\ v[l] \in Paths
    BY <1>3, <1>5
  <2>2. ~(Len(v[k]) < Len(v[l])) \/ ~(Len(v[l]) <= Len(v[k]))
    BY <2>1
  <2>. QED
    BY <1>4, <1>7, <2>1, <2>2
<1>8. \A k, l \in 1..6 : k < l => v[l][1] # v[k][1] \/ Len(v[k]) < Len(v[l])
  <2> DEFINE apart(k, l) == v[l][1] # v[k][1] \/ Len(v[k]) < Len(v[l])
  <2>1. apart(1, 2) /\ apart(1, 3) /\ apart(1, 4) /\ apart(1, 5) /\ apart(1, 6)
    BY <1>3
  <2>2. apart(2, 3) /\ apart(2, 4) /\ apart(2, 5) /\ apart(2, 6)
    BY <1>3
  <2>3. apart(3, 4) /\ apart(3, 5) /\ apart(3, 6)
    BY <1>3
  <2>4. apart(4, 5) /\ apart(4, 6) /\ apart(5, 6)
    BY <1>3
  <2>. HIDE DEF apart
  <2>5. \A k, l \in 1..6 : k < l => apart(k, l)
    BY <2>1, <2>2, <2>3, <2>4
  <2>. QED
    BY <2>5 DEF apart
<1>9. \A k, l \in 1..6 : k < l => ~IsPrefix(v[l], v[k])
  BY <1>7, <1>8
<1>. QED
  BY <1>5, <1>6, <1>9 DEF v

(* No operation mounts over what an earlier one mounted.                   *)
LEMMA NoneCovers ==
  ASSUME NEW i \in DOMAIN Operations, NEW j \in DOMAIN Operations, i < j,
         Operations[i].kind \in Mounting, Operations[j].kind \in Mounting
  PROVE  ~IsPrefix(Dest(Operations[j].path), Dest(Operations[i].path))
<1> DEFINE n == Len(Subvolumes)
           p == Operations[i].path
           q == Operations[j].path
<1>1. n \in Nat /\ p \in Paths /\ q \in Paths
  BY ParentsFirst, KindsAre
<1>2. /\ \/ \E k \in 1..n : i = 3 + k
         \/ i = n + 4
         \/ \E k \in 1..6 : i = n + 5 + k
      /\ \/ \E k \in 1..n : j = 3 + k
         \/ j = n + 4
         \/ \E k \in 1..6 : j = n + 5 + k
  BY KindsAre
<1>. HIDE DEF n
<1>3. \A k \in 1..n : ~IsPrefix(EspPath, MountOrder[k]) /\
        \A l \in 1..6 : ~IsPrefix(VirtualPaths[l], MountOrder[k])
  <2>1. DOMAIN Subvolumes = 1..n /\ DOMAIN VirtualPaths = 1..6
    BY MountsAssumption, OwnPaths, LenProperties DEF n
  <2>. QED
    BY <2>1, ParentsFirst, MountsAssumption DEF WellFormed, n
<1>4. ~IsPrefix(q, p)
  <2>1. ASSUME NEW k \in 1..n, i = 3 + k PROVE ~IsPrefix(q, p)
    <3>1. p = MountOrder[k]
      BY <2>1, OperationsAre DEF n
    <3>2. ASSUME NEW l \in 1..n, j = 3 + l PROVE ~IsPrefix(q, p)
      <4>1. q = MountOrder[l]
        BY <3>2, OperationsAre DEF n
      <4>2. k < l
        BY <1>1, <2>1, <3>2
      <4>. QED
        BY <3>1, <4>1, <4>2, ParentsFirst DEF n
    <3>3. CASE j = n + 4
      BY <1>3, <3>1, <3>3, OperationsAre DEF n
    <3>4. ASSUME NEW l \in 1..6, j = n + 5 + l PROVE ~IsPrefix(q, p)
      BY <1>3, <3>1, <3>4, OperationsAre DEF n
    <3>. QED
      BY <1>2, <3>2, <3>3, <3>4
  <2>2. CASE i = n + 4
    <3>1. PICK l \in 1..6 : j = n + 5 + l
      BY <1>1, <1>2, <2>2
    <3>. QED
      BY <2>2, <3>1, OperationsAre, VirtualOrder DEF n
  <2>3. ASSUME NEW k \in 1..6, i = n + 5 + k PROVE ~IsPrefix(q, p)
    <3>1. PICK l \in 1..6 : j = n + 5 + l
      BY <1>1, <1>2, <2>3
    <3>2. k < l
      BY <1>1, <2>3, <3>1
    <3>. QED
      BY <2>3, <3>1, <3>2, OperationsAre, VirtualOrder DEF n
  <2>. QED
    BY <1>2, <2>1, <2>2, <2>3
<1>. QED
  <2>1. "target" \in Names
    BY MountsAssumption DEF OwnNames
  <2>. QED
    BY <1>1, <1>4, <2>1, PrefixUnder DEF Dest

-----------------------------------------------------------------------------
(* The mount table.                                                        *)
Row == [at : Paths, disk : Disks \cup {NoDisk}, by : 1..attempt, op : DOMAIN Operations]

LEMMA Rows ==
  ASSUME TypeOK
  PROVE  /\ mounts \subseteq Row /\ attempt \in Nat
         /\ \A m \in mounts : /\ m.at \in Paths /\ m.by \in 1..attempt
                              /\ m.op \in DOMAIN Operations /\ m.op \in Nat
<1>1. mounts \subseteq Row
  BY DEF TypeOK, Row, Paths
<1>2. attempt \in Nat
  BY MountsAssumption DEF TypeOK
<1>3. \A i \in DOMAIN Operations : i \in Nat
  BY OperationsAre, ParentsFirst
<1>. QED
  BY <1>1, <1>2, <1>3 DEF Row

(* A mount that nothing newer hides is the one its path leads to.          *)
LEMMA TopIsUnique ==
  ASSUME TypeOK, OneEach, NEW m \in mounts, OnTop(m)
  PROVE  MountsAt(m.at) = {m}
<1> SUFFICES ASSUME NEW k \in mounts, k.at = m.at, OnTop(k) PROVE k = m
  BY DEF MountsAt
<1>1. /\ m.by \in Nat /\ k.by \in Nat /\ m.op \in Nat /\ k.op \in Nat
      /\ m.at \in Paths /\ IsPrefix(m.at, m.at)
  BY Rows, PrefixOfItself
<1>2. ~Newer(m, k) /\ ~Newer(k, m)
  BY <1>1 DEF OnTop
<1>3. m.by = k.by /\ m.op = k.op
  BY <1>1, <1>2 DEF Newer
<1>. QED
  BY <1>3 DEF OneEach

(* Nothing lies over or in the newest mount.                               *)
LEMMA NewestIsFree ==
  ASSUME TypeOK, NEW m \in Own, \A k \in Own : k.op <= m.op
  PROVE  OnTop(m) /\ Inside(m) = {}
<1>1. ASSUME NEW k \in mounts PROVE ~Newer(k, m)
  <2>1. /\ k.by \in Nat /\ k.by <= attempt /\ attempt \in Nat /\ k.op \in Nat
        /\ m.op \in Nat /\ m.by = attempt
    BY Rows DEF Own
  <2>2. k.by = attempt => k.op <= m.op
    BY DEF Own
  <2>. QED
    BY <2>1, <2>2 DEF Newer
<1>. QED
  BY <1>1 DEF OnTop, Inside

LEMMA MadeIs ==
  ASSUME NEW n \in Int
  PROVE  /\ n <= 3 => Made(n) = {}
         /\ \A m \in Made(n) : /\ m.by = attempt /\ m.op \in DOMAIN Operations /\ m.op <= n
                               /\ Operations[m.op].kind \in Mounting /\ m = MountOf(m.op)
         /\ \A i \in DOMAIN Operations :
              Operations[i].kind \in Mounting /\ i <= n => MountOf(i) \in Made(n)
<1>1. \A i \in DOMAIN Operations : MountOf(i).by = attempt /\ MountOf(i).op = i
  BY DEF MountOf
<1>2. ASSUME NEW i \in DOMAIN Operations, Operations[i].kind \in Mounting PROVE i > 3
  <2> DEFINE n0 == Len(Subvolumes)
  <2>1. n0 \in Nat /\ i \in Int
    BY OperationsAre, ParentsFirst
  <2>2. (\E k \in 1..n0 : i = 3 + k) \/ i = n0 + 4 \/ (\E k \in 1..6 : i = n0 + 5 + k)
    BY <1>2, KindsAre
  <2>. HIDE DEF n0
  <2>. QED
    BY <2>1, <2>2
<1>3. \A i \in DOMAIN Operations : i \in Int
  BY OperationsAre, ParentsFirst
<1>4. n <= 3 => Made(n) = {}
  BY <1>2, <1>3 DEF Made
<1>. HIDE DEF MountOf
<1>. QED
  BY <1>1, <1>4 DEF Made

LEMMA MadeOneMore ==
  ASSUME NEW n \in DOMAIN Operations
  PROVE  /\ Operations[n].kind \in Mounting => Made(n) = Made(n - 1) \cup {MountOf(n)}
         /\ Operations[n].kind \notin Mounting => Made(n) = Made(n - 1)
<1>1. \A i \in DOMAIN Operations : i \in Int /\ (i <= n <=> i <= n - 1 \/ i = n)
  <2>1. n \in Int /\ \A i \in DOMAIN Operations : i \in Int
    BY OperationNumbers
  <2>. QED
    BY <2>1
<1> DEFINE upTo(k) == {j \in DOMAIN Operations : j <= k /\ Operations[j].kind \in Mounting}
<1>2. /\ Operations[n].kind \in Mounting => upTo(n) = upTo(n - 1) \cup {n}
      /\ Operations[n].kind \notin Mounting => upTo(n) = upTo(n - 1)
  BY <1>1
<1>3. Made(n) = {MountOf(i) : i \in upTo(n)} /\ Made(n - 1) = {MountOf(i) : i \in upTo(n - 1)}
  BY DEF Made
<1>. HIDE DEF MountOf, upTo
<1>. QED
  BY <1>2, <1>3

LEMMA PrefixesAre ==
  ASSUME NEW s \in Paths, NEW p \in Prefixes(s)
  PROVE  p \in Paths /\ IsPrefix(p, s)
<1>1. PICK l \in 0..Len(s) : p = SubSeq(s, 1, l)
  BY DEF Prefixes
<1>2. Len(s) \in Nat /\ \A i \in 1..l : s[i] \in Names
  BY DEF Paths
<1>3. /\ p \in Seq(Names) /\ Len(p) = (IF 1 <= l THEN l - 1 + 1 ELSE 0)
      /\ \A i \in 1..l - 1 + 1 : p[i] = s[1 + i - 1]
  BY <1>1, <1>2, SubSeqProperties
<1>4. p \in Paths /\ Len(p) = l /\ \A i \in 1..l : p[i] = s[i]
  BY <1>2, <1>3 DEF Paths
<1>. QED
  BY <1>2, <1>4, PrefixMeans

-----------------------------------------------------------------------------
(* The bookkeeping of the engine: an operation that is done, and the turn  *)
(* to the unwind when one fails or the run is cancelled.                   *)
LEMMA BackInv ==
  ASSUME Inv, phase = "working", TurnBack, UNCHANGED <<plan, filesystem>>,
         mounts' \subseteq mounts,
         ~stuck' => {m \in mounts' : m.by = attempt} = Made(op - 1),
         refused' => stuck' \/ buried
  PROVE  Inv'
<1>1. /\ phase' = "unwinding" /\ undoing' = op - 1 /\ part' = 0 /\ UNCHANGED <<op, listed>>
      /\ UNCHANGED <<attempt, disk, espDisk, buried, volumes, directories>>
  BY DEF TurnBack, plan, filesystem
<1>2. op - 1 \in 0..Len(Operations)
  <2>1. op \in DOMAIN Operations
    BY DEF Inv, TypeOK
  <2>. QED
    BY <2>1, OperationNumbers
<1>3. TypeOK'
  BY <1>1, <1>2 DEF Inv, TypeOK
<1>4. OneEach' /\ Releasing' /\ Creating'
  BY <1>1 DEF Inv, OneEach, Releasing, Creating
<1>5. Accounts'
  <2>1. (Made(undoing))' = Made(op - 1)
    BY <1>1 DEF Made, MountOf, DiskOf
  <2>. QED
    BY <1>1, <2>1 DEF Accounts, Own
<1>. QED
  BY <1>1, <1>3, <1>4, <1>5 DEF Inv, OnlyOthersInterfere

LEMMA DoneInv ==
  ASSUME Inv, phase = "working", Performed, UNCHANGED <<plan, refused, stuck>>,
         mounts' \subseteq Row, OneEach',
         {m \in mounts' : m.by = attempt} = Made(op),
         volumes' \cap directories' = {},
         op = 1 /\ ~buried => \A m \in mounts' : m.disk # disk,
         op = 2 => volumes' \cup directories' = {},
         op = 3 => \A i \in DOMAIN Subvolumes : Volume(Subvolumes[i]) \in volumes',
         op > 3 => volumes' = volumes
  PROVE  Inv'
<1>1. UNCHANGED <<attempt, disk, espDisk, buried, refused, stuck, listed>> /\ part' = 0
  BY DEF Performed, plan
<1>2. op \in Int /\ op \in DOMAIN Operations /\ Len(Operations) \in Nat
  BY OperationsAre, ParentsFirst DEF Inv, TypeOK
<1>3. OnlyOthersInterfere'
  BY <1>1 DEF Inv, OnlyOthersInterfere
<1>4. TypeOK'
  <2>1. op' \in DOMAIN Operations /\ undoing' \in 0..Len(Operations)
    <3>1. DOMAIN Operations = 1..Len(Operations)
      BY OperationsAre
    <3>2. undoing \in 0..Len(Operations)
      BY DEF Inv, TypeOK
    <3>. QED
      BY <1>2, <3>1, <3>2 DEF Performed
  <2>2. phase' \in {"working", "unwinding"}
    BY DEF Performed
  <2>. QED
    BY <1>1, <2>1, <2>2 DEF Inv, TypeOK, Row, Paths
<1>5. CASE op < Len(Operations)
  <2>1. op' = op + 1 /\ UNCHANGED <<phase, undoing>>
    BY <1>5 DEF Performed
  <2>2. Accounts'
    <3>1. (Made(op - 1))' = Made(op)
      BY <1>1, <1>2, <2>1 DEF Made, MountOf, DiskOf
    <3>2. Own' = Made(op) /\ ~stuck
      BY <1>1 DEF Own, Inv, Accounts
    <3>. QED
      BY <1>1, <2>1, <3>1, <3>2 DEF Accounts
  <2>3. Releasing'
    <3>1. op' # 1 /\ (op' = 2 => op = 1)
      BY <1>2, <2>1, OperationsAre, ParentsFirst
    <3>. QED
      BY <1>1, <3>1 DEF Releasing, MountsOf
  <2>4. Creating'
    <3>1. (op' = 3 => op = 2) /\ (op' > 3 => op = 3 \/ op > 3)
      BY <1>2, <2>1
    <3>2. DOMAIN Subvolumes = 1..Len(Subvolumes) /\ Len(Subvolumes) \in Nat
      BY ParentsFirst, MountsAssumption, LenProperties
    <3>3. CASE op' = 3
      BY <1>1, <3>1, <3>2, <3>3 DEF Creating
    <3>4. CASE op' > 3
      BY <1>1, <3>1, <3>4 DEF Inv, Creating
    <3>5. CASE ~(op' = 3) /\ ~(op' > 3)
      BY <3>5 DEF Creating
    <3>. QED
      BY <3>3, <3>4, <3>5
  <2>. QED
    BY <1>1, <1>3, <1>4, <2>1, <2>2, <2>3, <2>4 DEF Inv
<1>6. CASE ~(op < Len(Operations))
  <2>1. phase' = "unwinding" /\ undoing' = op
    BY <1>6 DEF Performed
  <2>2. Accounts'
    <3>1. (Made(undoing))' = Made(op)
      BY <1>1, <2>1 DEF Made, MountOf, DiskOf
    <3>. QED
      BY <1>1, <2>1, <3>1 DEF Accounts, Own
  <2>3. Releasing' /\ Creating'
    BY <2>1 DEF Releasing, Creating
  <2>. QED
    BY <1>1, <1>3, <1>4, <2>1, <2>2, <2>3 DEF Inv
<1>. QED
  BY <1>5, <1>6

-----------------------------------------------------------------------------
(* What Inv says of a service that works on an operation.                  *)
LEMMA Working ==
  ASSUME Inv, phase = "working"
  PROVE  /\ TypeOK /\ OneEach /\ ~stuck /\ disk \in Disks /\ attempt > 0
         /\ op \in DOMAIN Operations /\ op \in Int /\ Current.path \in Paths
         /\ (At("release") <=> op = 1) /\ (At("format") <=> op = 2) /\ (At("create") <=> op = 3)
         /\ op # 3 \/ part = 0 => Own = Made(op - 1)
         /\ op <= 3 => Made(op) = {} /\ Made(op - 1) = {}
         /\ Own = Made(op - 1) \cup (IF op = 3 /\ part > 0 THEN {StagingMount} ELSE {})
         /\ OnlyOthersInterfere
<1>1. op \in DOMAIN Operations /\ op \in Int
  BY OperationsAre, ParentsFirst DEF Inv, TypeOK
<1>2. Current.path \in Paths
  BY <1>1, KindsAre DEF Current
<1>3. (At("release") <=> op = 1) /\ (At("format") <=> op = 2) /\ (At("create") <=> op = 3)
  BY <1>1, KindsAre DEF At
<1>4. op <= 3 => Made(op) = {} /\ Made(op - 1) = {}
  BY <1>1, MadeIs
<1>5. Own = Made(op - 1) \cup (IF op = 3 /\ part > 0 THEN {StagingMount} ELSE {})
  BY DEF Inv, Accounts
<1>6. part \in Nat
  BY DEF Inv, TypeOK
<1>. QED
  BY <1>1, <1>2, <1>3, <1>4, <1>5, <1>6 DEF Inv, Accounts

LEMMA FailsInv ==
  ASSUME Inv, phase = "working", op # 3 \/ part = 0, UNCHANGED plan, Fails
  PROVE  Inv'
<1>1. Own = Made(op - 1) /\ OnlyOthersInterfere
  BY Working
<1>. QED
  BY <1>1, BackInv DEF Fails, Own, OnlyOthersInterfere

(* A refusal is due to the mounts of another disk.                         *)
LEMMA RefusesInv ==
  ASSUME Inv, phase = "working", op # 3 \/ part = 0, UNCHANGED plan, Refuses, buried
  PROVE  Inv'
<1>1. Own = Made(op - 1)
  BY Working
<1>. QED
  BY <1>1, BackInv DEF Refuses, Own

LEMMA StartInv ==
  Inv /\ Start => Inv'
<1> SUFFICES ASSUME Inv, Start PROVE Inv'
  OBVIOUS
<1>1. /\ attempt' = attempt + 1 /\ attempt < Attempts
      /\ disk' \in Disks /\ espDisk' \in {disk', NoDisk}
      /\ listed' = MountsOf(disk')
      /\ buried' = \E m \in MountsOf(disk') : ~OnTop(m)
      /\ phase' = "working" /\ op' = 1 /\ part' = 0 /\ undoing' = 0
      /\ refused' = FALSE /\ stuck' = FALSE
      /\ UNCHANGED <<mounts, volumes, directories>>
  BY DEF Start, filesystem
<1>2. /\ TypeOK /\ attempt \in Nat /\ Attempts \in Nat
      /\ \A m \in mounts : m.by \in 1..attempt
  BY Rows, MountsAssumption DEF Inv
<1>3. 1 \in DOMAIN Operations /\ 0 \in 0..Len(Operations)
  BY OperationsAre, ParentsFirst
<1>4. TypeOK'
  <2>1. attempt' \in 0..Attempts
    BY <1>1, <1>2
  <2>2. 1..attempt \subseteq 1..attempt'
    BY <1>1, <1>2
  <2>3. mounts' \subseteq [at : Seq(Names), disk : Disks \cup {NoDisk}, by : 1..attempt',
                           op : DOMAIN Operations]
    BY <1>1, <1>2, <2>2 DEF TypeOK
  <2>4. listed' \subseteq [at : Seq(Names), disk : Disks, by : 1..attempt', op : DOMAIN Operations]
    BY <1>1, <2>3 DEF MountsOf
  <2>. QED
    BY <1>1, <1>2, <1>3, <2>1, <2>3, <2>4 DEF TypeOK
<1>5. Accounts'
  <2>1. Own' = {}
    BY <1>1, <1>2 DEF Own
  <2>2. (Made(op - 1))' = {}
    <3>1. \A j \in DOMAIN Operations : ~(j <= op' - 1)
      BY <1>1, OperationsAre, ParentsFirst
    <3>. QED
      BY <3>1 DEF Made
  <2>. QED
    BY <1>1, <2>1, <2>2 DEF Accounts
<1>6. OneEach'
  BY <1>1 DEF Inv, OneEach
<1>7. Releasing'
  <2>1. MountsOf(disk)' = MountsOf(disk')
    BY <1>1 DEF MountsOf
  <2>2. \A m \in listed' : OnTop(m)' <=> OnTop(m)
    BY <1>1 DEF OnTop, Newer
  <2>. QED
    BY <1>1, <2>1, <2>2 DEF Releasing
<1>8. Creating'
  BY <1>1 DEF Creating
<1>. QED
  BY <1>1, <1>2, <1>4, <1>5, <1>6, <1>7, <1>8 DEF Inv, OnlyOthersInterfere

LEMMA ReleaseOneInv ==
  ASSUME Inv, At("release"), NEW m \in listed, ReleaseOne(m), UNCHANGED plan
  PROVE  Inv'
<1>1. phase = "working" /\ op = 1 /\ TypeOK /\ OneEach /\ Own = {} /\ ~stuck
  BY Working DEF At
<1>2. ~buried => /\ listed = MountsOf(disk) /\ \A k \in listed : OnTop(k)
                 /\ m \in mounts /\ MountsAt(m.at) = {m}
  BY <1>1, TopIsUnique DEF Inv, Releasing, MountsOf
<1>3. CASE MountsAt(m.at) = {} /\ Refuses
  BY <1>1, <1>2, <1>3, RefusesInv
<1>4. CASE /\ MountsAt(m.at) # {}
           /\ UnmountsAll(m.at)
           /\ listed' = listed \ {m} /\ part' = part + 1
           /\ UNCHANGED <<phase, op, undoing, filesystem, refused, stuck, faults>>
  <2>1. UNCHANGED <<attempt, disk, espDisk, buried, phase, op, undoing, volumes, directories,
                    refused, stuck>>
    BY <1>4 DEF plan, filesystem
  <2>2. mounts' \subseteq mounts /\ listed' = listed \ {m} /\ part' = part + 1
    BY <1>4 DEF UnmountsAll
  <2>3. TypeOK'
    <3>1. Operations[op].kind = "release"
      BY <1>1, OperationsAre
    <3>. QED
      BY <1>1, <2>1, <2>2, <3>1 DEF TypeOK, Current
  <2>4. Accounts'
    <3>1. Own' = {}
      BY <1>1, <2>1, <2>2 DEF Own
    <3>2. (Made(op - 1))' = {}
      <4>1. \A j \in DOMAIN Operations : ~(j <= op' - 1)
        BY <1>1, <2>1, OperationsAre, ParentsFirst
      <4>. QED
        BY <4>1 DEF Made
    <3>. QED
      BY <1>1, <2>1, <3>1, <3>2 DEF Accounts
  <2>5. OneEach'
    BY <1>1, <2>2 DEF OneEach
  <2>6. Releasing'
    <3> SUFFICES ASSUME ~buried
                 PROVE  listed' = MountsOf(disk)' /\ \A k \in listed' : OnTop(k)'
      BY <1>1, <2>1 DEF Releasing
    <3>1. mounts' = mounts \ ({m} \cup Inside(m))
      BY <1>2, <1>4 DEF UnmountsAll
    <3>2. ASSUME NEW k \in listed, k \in Inside(m) PROVE FALSE
      <4>1. /\ k.at \in Paths /\ m.at \in Paths /\ IsPrefix(m.at, k.at) /\ Newer(k, m)
            /\ Len(k.at) <= Len(m.at) /\ k \in mounts
        BY <1>1, <1>2, <3>2, Rows DEF Inside, ReleaseOne
      <4>2. k.at = m.at
        BY <4>1, PrefixNoShorter
      <4>3. IsPrefix(k.at, m.at)
        BY <4>1, <4>2
      <4>. QED
        BY <1>2, <4>1, <4>3 DEF OnTop
    <3>3. MountsOf(disk)' = {k \in mounts' : k.disk = disk}
      BY <2>1 DEF MountsOf
    <3>4. listed' = MountsOf(disk)'
      BY <1>2, <2>2, <3>1, <3>2, <3>3 DEF MountsOf
    <3>5. \A k \in listed' : OnTop(k)'
      BY <1>2, <2>2 DEF OnTop, Newer
    <3>. QED
      BY <3>4, <3>5
  <2>7. Creating'
    BY <1>1, <2>1 DEF Creating
  <2>. QED
    BY <2>1, <2>3, <2>4, <2>5, <2>6, <2>7 DEF Inv, OnlyOthersInterfere
<1>. QED
  BY <1>3, <1>4 DEF ReleaseOne

LEMMA ReleaseInv ==
  Inv /\ Release => Inv'
<1> SUFFICES ASSUME Inv, Release PROVE Inv'
  OBVIOUS
<1>1. At("release") /\ phase = "working" /\ UNCHANGED plan
  BY DEF Release, At
<1>2. op = 1 /\ TypeOK /\ OneEach /\ Own = {} /\ Made(op) = {}
  BY <1>1, Working
<1>3. ASSUME NEW m \in listed, ReleaseOne(m) PROVE Inv'
  BY <1>1, <1>3, ReleaseOneInv
<1>4. CASE Fails
  BY <1>1, <1>2, <1>4, FailsInv
<1>5. CASE /\ listed = {} /\ Performed
           /\ UNCHANGED <<mounts, filesystem, refused, stuck, faults>>
  <2>1. mounts' \subseteq Row /\ OneEach'
    BY <1>2, <1>5, Rows DEF OneEach
  <2>2. {m \in mounts' : m.by = attempt} = Made(op)
    BY <1>2, <1>5 DEF Own
  <2>3. ~buried => \A m \in mounts' : m.disk # disk
    BY <1>1, <1>2, <1>5 DEF Inv, Releasing, MountsOf
  <2>4. volumes' \cap directories' = {}
    BY <1>2, <1>5 DEF TypeOK, filesystem
  <2>. QED
    BY <1>1, <1>2, <1>5, <2>1, <2>2, <2>3, <2>4, DoneInv
<1>. QED
  BY <1>3, <1>4, <1>5 DEF Release

LEMMA FormatInv ==
  Inv /\ Format => Inv'
<1> SUFFICES ASSUME Inv, Format PROVE Inv'
  OBVIOUS
<1>1. At("format") /\ phase = "working" /\ UNCHANGED plan
  BY DEF Format, At
<1>2. op = 2 /\ TypeOK /\ OneEach /\ Own = {} /\ Made(op) = {}
  BY <1>1, Working
<1>3. CASE Fails
  BY <1>1, <1>2, <1>3, FailsInv
<1>4. CASE MountsOf(disk) # {} /\ Refuses
  <2>1. buried
    BY <1>1, <1>2, <1>4 DEF Inv, Releasing
  <2>. QED
    BY <1>1, <1>2, <1>4, <2>1, RefusesInv
<1>5. CASE /\ volumes' = {} /\ directories' = {}
           /\ Performed
           /\ UNCHANGED <<mounts, refused, stuck, faults>>
  <2>1. mounts' \subseteq Row /\ OneEach'
    BY <1>2, <1>5, Rows DEF OneEach
  <2>2. {m \in mounts' : m.by = attempt} = Made(op)
    BY <1>2, <1>5 DEF Own
  <2>. QED
    BY <1>1, <1>2, <1>5, <2>1, <2>2, DoneInv
<1>. QED
  BY <1>3, <1>4, <1>5 DEF Format

(* The staging mount is alone and on top.                                  *)
LEMMA StagingIsOnTop ==
  ASSUME Inv, At("create"), part > 0
  PROVE  Own = {StagingMount} /\ MountsAt(Staging) = {StagingMount}
<1>1. phase = "working"
  BY DEF At
<1>2. Own = {StagingMount} /\ TypeOK /\ OneEach
  BY <1>1, Working
<1>3. StagingMount \in Own /\ StagingMount.at = Staging /\ StagingMount.op = 3
  BY <1>2 DEF StagingMount
<1>. HIDE DEF StagingMount
<1>4. OnTop(StagingMount)
  BY <1>2, <1>3, NewestIsFree
<1>5. StagingMount \in mounts
  BY <1>3 DEF Own
<1>6. MountsAt(StagingMount.at) = {StagingMount}
  BY <1>2, <1>4, <1>5, TopIsUnique
<1>. QED
  BY <1>2, <1>3, <1>6

LEMMA MountStagingInv ==
  Inv /\ MountStaging => Inv'
<1> SUFFICES ASSUME Inv, MountStaging PROVE Inv'
  OBVIOUS
<1>1. At("create") /\ phase = "working" /\ part = 0 /\ UNCHANGED plan
  BY DEF MountStaging, At
<1>2. op = 3 /\ op \in DOMAIN Operations /\ TypeOK /\ OneEach /\ Own = {} /\ Made(2) = {}
      /\ disk \in Disks /\ attempt > 0 /\ ~stuck
  BY <1>1, Working
<1>3. CASE Fails
  BY <1>1, <1>2, <1>3, FailsInv
<1>4. CASE /\ Mounts(Staging, disk)
           /\ part' = 1
           /\ UNCHANGED <<phase, op, undoing, listed, filesystem, refused, stuck, faults>>
  <2>1. UNCHANGED <<attempt, disk, espDisk, buried, phase, op, undoing, listed, volumes,
                    directories, refused, stuck>>
    BY <1>1, <1>4 DEF plan, filesystem
  <2>2. mounts' = mounts \cup {StagingMount}
    BY <1>2, <1>4 DEF Mounts, Mount, StagingMount
  <2>3. StagingMount \in Row /\ StagingMount.by = attempt
    <3>1. attempt \in 1..attempt
      BY <1>2, Rows
    <3>. QED
      BY <1>2, <3>1, OwnPaths DEF StagingMount, Row
  <2>4. StagingMount' = StagingMount
    BY <2>1 DEF StagingMount
  <2>. HIDE DEF StagingMount
  <2>5. TypeOK'
    <3>1. mounts' \subseteq Row
      BY <1>2, <2>2, <2>3, Rows
    <3>2. Operations[op].kind = "create"
      BY <1>1 DEF At
    <3>. QED
      BY <1>2, <1>4, <2>1, <3>1, <3>2 DEF TypeOK, Row, Paths, Current
  <2>6. Accounts'
    <3>1. Own' = {StagingMount}
      BY <1>2, <2>1, <2>2, <2>3 DEF Own
    <3>2. (Made(op - 1))' = {}
      <4>1. (Made(op - 1))' = Made(2)
        BY <1>2, <2>1 DEF Made, MountOf, DiskOf
      <4>. QED
        BY <1>2, <4>1
    <3>. QED
      BY <1>1, <1>2, <1>4, <2>1, <2>4, <3>1, <3>2 DEF Accounts
  <2>7. OneEach'
    <3>1. \A m \in mounts : m.by # attempt
      BY <1>2 DEF Own
    <3>. QED
      BY <1>2, <2>2, <2>3, <3>1 DEF OneEach
  <2>8. Releasing'
    BY <1>2, <2>1 DEF Releasing
  <2>9. Creating'
    <3>1. Len(Subvolumes) \in Nat /\ part' = 1
      BY <1>4, ParentsFirst
    <3>2. \A i \in DOMAIN Subvolumes : ~(i < 1)
      BY MountsAssumption, LenProperties
    <3>3. volumes \cup directories = {}
      <4>1. \A v \in volumes \cup directories : \E i \in DOMAIN Subvolumes : i < part
        BY <1>1, <1>2 DEF Inv, Creating
      <4>2. \A i \in DOMAIN Subvolumes : ~(i < part)
        BY <1>1, MountsAssumption, LenProperties
      <4>. QED
        BY <4>1, <4>2
    <3>. QED
      BY <1>2, <2>1, <3>1, <3>2, <3>3 DEF Creating
  <2>. QED
    BY <1>2, <2>1, <2>5, <2>6, <2>7, <2>8, <2>9 DEF Inv, OnlyOthersInterfere
<1>. QED
  BY <1>3, <1>4 DEF MountStaging

(* No subvolume meets one that was made before it, nor a directory.        *)
LEMMA LeafIsNew ==
  ASSUME Inv, At("create"), part \in 1..Len(Subvolumes)
  PROVE  /\ Volume(Subvolumes[part]) \in Paths
         /\ Volume(Subvolumes[part]) \notin volumes \cup directories
<1>1. phase = "working" /\ op = 3
  BY Working DEF At
<1>2. DOMAIN Subvolumes = 1..Len(Subvolumes) /\ \A i \in 1..Len(Subvolumes) : Subvolumes[i] \in Paths
  BY ParentsFirst, MountsAssumption, LenProperties
<1>3. "@" \in Names
  BY MountsAssumption DEF OwnNames
<1>4. ASSUME Volume(Subvolumes[part]) \in volumes \cup directories PROVE FALSE
  <2>1. PICK i \in DOMAIN Subvolumes :
          i < part /\ IsPrefix(Volume(Subvolumes[part]), Volume(Subvolumes[i]))
    BY <1>1, <1>4 DEF Inv, Creating
  <2>2. IsPrefix(Subvolumes[part], Subvolumes[i])
    BY <1>2, <1>3, <2>1, PrefixUnder DEF Volume
  <2>. QED
    BY <1>2, <2>1, <2>2, MountsAssumption DEF WellFormed
<1>. QED
  BY <1>2, <1>3, <1>4, PrefixUnder DEF Volume

LEMMA CreateSubvolumeInv ==
  Inv /\ CreateSubvolume => Inv'
<1> SUFFICES ASSUME Inv, CreateSubvolume PROVE Inv'
  OBVIOUS
<1> DEFINE leaf == Volume(Subvolumes[part])
<1>1. /\ At("create") /\ phase = "working" /\ part \in 1..Len(Subvolumes)
      /\ volumes' = volumes \cup {leaf}
      /\ directories' = directories \cup (Parents(leaf) \ volumes)
      /\ part' = part + 1
      /\ UNCHANGED <<attempt, disk, espDisk, buried, phase, op, undoing, listed, mounts, refused,
                     stuck>>
  BY DEF CreateSubvolume, At, plan
<1>2. op = 3 /\ TypeOK
  BY <1>1, Working
<1>3. leaf \in Paths /\ leaf \notin volumes \cup directories
  BY <1>1, LeafIsNew
<1>. HIDE DEF leaf
<1>4. \A p \in Parents(leaf) : p # leaf /\ p \in Paths /\ IsPrefix(p, leaf)
  BY <1>3, PrefixesAre DEF Parents
<1>5. TypeOK'
  <2>1. volumes' \cap directories' = {}
    BY <1>1, <1>2, <1>3, <1>4 DEF TypeOK
  <2>2. Operations[op].kind = "create"
    BY <1>1 DEF At
  <2>. QED
    BY <1>1, <1>2, <2>1, <2>2 DEF TypeOK, Current
<1>6. Accounts'
  <2>1. (Made(op - 1))' = Made(op - 1) /\ StagingMount' = StagingMount /\ Own' = Own
    BY <1>1 DEF Made, MountOf, DiskOf, StagingMount, Own
  <2>2. part > 0 /\ part' > 0
    BY <1>1
  <2>. QED
    BY <1>1, <1>2, <2>1, <2>2 DEF Inv, Accounts
<1>7. OneEach' /\ Releasing'
  BY <1>1, <1>2 DEF Inv, OneEach, Releasing
<1>8. Creating'
  <2>1. /\ DOMAIN Subvolumes = 1..Len(Subvolumes) /\ Len(Subvolumes) \in Nat
        /\ part \in DOMAIN Subvolumes
    BY <1>1, MountsAssumption, LenProperties
  <2>2. \A i \in DOMAIN Subvolumes : i < part' => i < part \/ i = part
    BY <1>1, <2>1
  <2>3. part < part' /\ part' <= Len(Subvolumes) + 1 /\ \A i \in DOMAIN Subvolumes : i < part => i < part'
    BY <1>1, <2>1
  <2>4. ASSUME NEW i \in DOMAIN Subvolumes, i < part' PROVE Volume(Subvolumes[i]) \in volumes'
    <3>1. CASE i < part
      BY <1>1, <1>2, <3>1 DEF Inv, Creating
    <3>2. CASE i = part
      BY <1>1, <3>2 DEF leaf
    <3>. QED
      BY <2>2, <2>4, <3>1, <3>2
  <2>5. ASSUME NEW v \in volumes' \cup directories'
        PROVE  /\ v \in Paths
               /\ \E i \in DOMAIN Subvolumes : i < part' /\ IsPrefix(v, Volume(Subvolumes[i]))
    <3>1. CASE v \in volumes \cup directories
      <4>1. v \in Paths /\ \E i \in DOMAIN Subvolumes : i < part /\ IsPrefix(v, Volume(Subvolumes[i]))
        BY <1>1, <1>2, <3>1 DEF Inv, Creating
      <4>. QED
        BY <2>3, <4>1
    <3>2. CASE v = leaf \/ v \in Parents(leaf)
      <4>1. v \in Paths /\ IsPrefix(v, leaf)
        BY <1>3, <1>4, <3>2, PrefixOfItself
      <4>. QED
        BY <2>1, <2>3, <4>1 DEF leaf
    <3>. QED
      BY <1>1, <3>1, <3>2
  <2>. QED
    BY <1>1, <1>2, <2>3, <2>4, <2>5 DEF Creating
<1>. QED
  BY <1>1, <1>2, <1>5, <1>6, <1>7, <1>8 DEF Inv, OnlyOthersInterfere

LEMMA CreationFailsInv ==
  Inv /\ CreationFails => Inv'
<1> SUFFICES ASSUME Inv, CreationFails PROVE Inv'
  OBVIOUS
<1>1. /\ At("create") /\ phase = "working" /\ part \in 1..Len(Subvolumes) /\ TurnBack
      /\ UNCHANGED <<plan, filesystem>>
      /\ (Unmounts(Staging) /\ UNCHANGED stuck) \/ (stuck' = TRUE /\ UNCHANGED mounts)
  BY DEF CreationFails, At
<1>2. part > 0
  BY <1>1
<1>3. UNCHANGED refused
  BY <1>1, LeafIsNew DEF CreationFails
<1>4. Own = {StagingMount} /\ MountsAt(Staging) = {StagingMount}
  BY <1>1, <1>2, StagingIsOnTop
<1>5. Made(op - 1) = {} /\ OnlyOthersInterfere /\ ~stuck
  BY <1>1, Working
<1>6. CASE Unmounts(Staging) /\ UNCHANGED stuck
  <2>1. mounts' = mounts \ {StagingMount}
    BY <1>4, <1>6 DEF Unmounts
  <2>2. mounts' \subseteq mounts /\ {m \in mounts' : m.by = attempt} = Made(op - 1)
    BY <1>4, <1>5, <2>1 DEF Own
  <2>. QED
    BY <1>1, <1>3, <1>5, <1>6, <2>2, BackInv DEF OnlyOthersInterfere
<1>7. CASE stuck' = TRUE /\ UNCHANGED mounts
  BY <1>1, <1>7, BackInv
<1>. QED
  BY <1>1, <1>6, <1>7

LEMMA UnmountStagingInv ==
  Inv /\ UnmountStaging => Inv'
<1> SUFFICES ASSUME Inv, UnmountStaging PROVE Inv'
  OBVIOUS
<1>1. /\ At("create") /\ phase = "working" /\ part = Len(Subvolumes) + 1
      /\ UNCHANGED <<plan, filesystem, refused>>
  BY DEF UnmountStaging, At
<1>2. part > 0 /\ op = 3
  BY <1>1, ParentsFirst, Working
<1>3. Own = {StagingMount} /\ MountsAt(Staging) = {StagingMount}
  BY <1>1, <1>2, StagingIsOnTop
<1>4. TypeOK /\ OneEach /\ Made(op) = {}
  BY <1>1, <1>2, Working
<1>5. CASE Unmounts(Staging) /\ Performed /\ UNCHANGED <<stuck, faults>>
  <2>1. mounts' = mounts \ {StagingMount}
    BY <1>3, <1>5 DEF Unmounts
  <2>2. mounts' \subseteq Row /\ OneEach' /\ {m \in mounts' : m.by = attempt} = Made(op)
    BY <1>3, <1>4, <2>1, Rows DEF Own, OneEach
  <2>3. \A i \in DOMAIN Subvolumes : Volume(Subvolumes[i]) \in volumes'
    <3>1. \A i \in DOMAIN Subvolumes : i < part
      BY <1>1, ParentsFirst, MountsAssumption, LenProperties
    <3>. QED
      BY <1>1, <1>2, <3>1 DEF Inv, Creating, filesystem
  <2>4. volumes' \cap directories' = {}
    BY <1>1, <1>4 DEF filesystem, TypeOK
  <2>. QED
    BY <1>1, <1>2, <1>5, <2>2, <2>3, <2>4, DoneInv
<1>6. CASE Fault /\ stuck' = TRUE /\ TurnBack /\ UNCHANGED mounts
  BY <1>1, <1>6, BackInv
<1>. QED
  BY <1>5, <1>6 DEF UnmountStaging

LEMMA MountOnInv ==
  Inv /\ MountOn => Inv'
<1> SUFFICES ASSUME Inv, MountOn PROVE Inv'
  OBVIOUS
<1>1. /\ phase = "working" /\ Current = Operations[op] /\ Current.kind \in Mounting
      /\ UNCHANGED plan
  BY DEF MountOn, Current
<1>2. /\ TypeOK /\ OneEach /\ op \in DOMAIN Operations /\ op \in Int /\ disk \in Disks
      /\ attempt > 0 /\ Current.path \in Paths
  BY <1>1, Working
<1>3. MountOf(op) \in Made(op) /\ op > 3 /\ op # 3
  <2>1. MountOf(op) \in Made(op) /\ (op <= 3 => Made(op) = {})
    BY <1>1, <1>2, MadeIs
  <2>. QED
    BY <1>2, <2>1
<1>4. Own = Made(op - 1)
  BY <1>1, <1>3, Working
<1>5. Current.kind = "subvolume" => Volume(Current.path) \in volumes
  <2> SUFFICES ASSUME Current.kind = "subvolume" PROVE Volume(Current.path) \in volumes
    OBVIOUS
  <2>1. PICK k \in 1..Len(Subvolumes) : op = 3 + k
    BY <1>1, <1>2, KindsAre
  <2>2. Current.path = MountOrder[k]
    BY <1>1, <2>1, OperationsAre
  <2>3. PICK i \in DOMAIN Subvolumes : Current.path = Subvolumes[i]
    BY <2>2, ParentsFirst, MountsAssumption, LenProperties
  <2>. QED
    BY <1>1, <1>3, <2>3 DEF Inv, Creating
<1>6. CASE Fails
  BY <1>1, <1>3, <1>6, FailsInv
<1>7. CASE /\ Mounts(Dest(Current.path), DiskOf(Current.kind))
           /\ Performed
           /\ UNCHANGED <<filesystem, refused, stuck, faults>>
  <2>1. mounts' = mounts \cup {MountOf(op)}
    BY <1>1, <1>7 DEF Mounts, Mount, MountOf
  <2>2. MountOf(op) \in Row /\ MountOf(op).by = attempt /\ MountOf(op).op = op
    <3>1. attempt \in 1..attempt
      BY <1>2, Rows
    <3>2. Dest(Current.path) \in Paths
      <4>1. "target" \in Names
        BY MountsAssumption DEF OwnNames
      <4>. QED
        BY <1>2, <4>1, PrefixUnder DEF Dest
    <3>3. DiskOf(Current.kind) \in Disks \cup {NoDisk}
      BY <1>2 DEF DiskOf, TypeOK
    <3>. QED
      BY <1>1, <1>2, <3>1, <3>2, <3>3 DEF MountOf, Row
  <2>. HIDE DEF MountOf
  <2>3. mounts' \subseteq Row
    BY <1>2, <2>1, <2>2, Rows
  <2>4. \A m \in mounts : m.by = attempt => m.op # op
    <3>1. \A m \in Made(op - 1) : m.op \in DOMAIN Operations /\ m.op <= op - 1
      BY <1>2, MadeIs
    <3>2. \A m \in Made(op - 1) : m.op # op
      BY <1>2, <3>1
    <3>. QED
      BY <1>4, <3>2 DEF Own
  <2>5. OneEach'
    BY <1>2, <2>1, <2>2, <2>4 DEF OneEach
  <2>6. {m \in mounts' : m.by = attempt} = Made(op)
    <3>1. {m \in mounts' : m.by = attempt} = Own \cup {MountOf(op)}
      BY <2>1, <2>2 DEF Own
    <3>2. Made(op) = Made(op - 1) \cup {MountOf(op)}
      BY <1>1, <1>2, MadeOneMore
    <3>. QED
      BY <1>4, <3>1, <3>2
  <2>7. UNCHANGED <<volumes, directories, refused, stuck>> /\ volumes \cap directories = {}
    BY <1>2, <1>7 DEF filesystem, TypeOK
  <2>8. op # 1 /\ op # 2
    BY <1>3
  <2>. QED
    BY <1>1, <1>3, <1>7, <2>3, <2>5, <2>6, <2>7, <2>8, DoneInv
<1>. QED
  BY <1>5, <1>6, <1>7 DEF MountOn

LEMMA WriteInv ==
  Inv /\ Write => Inv'
<1> SUFFICES ASSUME Inv, Write PROVE Inv'
  OBVIOUS
<1>1. /\ phase = "working" /\ Operations[op].kind \in {"files", "chroot"} /\ UNCHANGED plan
  BY DEF Write, At
<1>2. TypeOK /\ OneEach /\ op \in DOMAIN Operations /\ op \in Int
  BY <1>1, Working
<1>3. op > 3 /\ op # 1 /\ op # 2 /\ op # 3
  <2>1. op > 3
    BY <1>1, <1>2, KindsAre
  <2>. QED
    BY <1>2, <2>1
<1>4. Own = Made(op - 1) /\ Made(op) = Made(op - 1)
  <2>1. Operations[op].kind \notin Mounting
    BY <1>1 DEF Mounting
  <2>. QED
    BY <1>1, <1>2, <1>3, <2>1, Working, MadeOneMore
<1>5. CASE Fails
  BY <1>1, <1>3, <1>5, FailsInv
<1>6. CASE Performed /\ UNCHANGED <<mounts, filesystem, refused, stuck, faults>>
  <2>1. mounts' \subseteq Row /\ OneEach'
    BY <1>2, <1>6, Rows DEF OneEach
  <2>2. {m \in mounts' : m.by = attempt} = Made(op)
    BY <1>4, <1>6 DEF Own
  <2>3. UNCHANGED <<volumes, directories, refused, stuck>> /\ volumes \cap directories = {}
    BY <1>2, <1>6 DEF filesystem, TypeOK
  <2>. QED
    BY <1>1, <1>3, <1>6, <2>1, <2>2, <2>3, DoneInv
<1>. QED
  BY <1>5, <1>6 DEF Write

LEMMA CancelInv ==
  Inv /\ Cancel => Inv'
<1> SUFFICES ASSUME Inv, Cancel PROVE Inv'
  OBVIOUS
<1>1. /\ phase = "working" /\ part = 0 /\ TurnBack
      /\ UNCHANGED <<plan, mounts, filesystem, refused, stuck, faults>>
  BY DEF Cancel
<1>2. Own = Made(op - 1) /\ OnlyOthersInterfere
  BY <1>1, Working
<1>. QED
  BY <1>1, <1>2, BackInv DEF Own, OnlyOthersInterfere

(* What an operation mounted is on top when its turn comes to be undone.   *)
LEMMA LastIsFree ==
  ASSUME Inv, phase = "unwinding", ~stuck, undoing > 0, Undone.kind \in Mounting
  PROVE  /\ MountOf(undoing) \in Own
         /\ MountsAt(Dest(Undone.path)) = {MountOf(undoing)}
         /\ Inside(MountOf(undoing)) = {}
<1>1. /\ TypeOK /\ OneEach /\ Own = Made(undoing) /\ undoing \in DOMAIN Operations
      /\ undoing \in Int
  <2>1. TypeOK /\ OneEach /\ Own = Made(undoing)
    BY DEF Inv, Accounts
  <2>2. undoing \in 0..Len(Operations)
    BY <2>1 DEF TypeOK
  <2>3. undoing \in DOMAIN Operations /\ undoing \in Int
    BY <2>2, OperationsAre, ParentsFirst
  <2>. QED
    BY <2>1, <2>3
<1>2. /\ MountOf(undoing).at = Dest(Undone.path) /\ MountOf(undoing).op = undoing
  BY DEF MountOf, Undone
<1>3. MountOf(undoing) \in Own /\ \A k \in Own : k.op <= undoing
  BY <1>1, MadeIs DEF Undone
<1>. HIDE DEF MountOf
<1>4. OnTop(MountOf(undoing)) /\ Inside(MountOf(undoing)) = {}
  BY <1>1, <1>2, <1>3, NewestIsFree
<1>5. MountOf(undoing) \in mounts
  BY <1>3 DEF Own
<1>6. MountsAt(MountOf(undoing).at) = {MountOf(undoing)}
  BY <1>1, <1>4, <1>5, TopIsUnique
<1>. QED
  BY <1>2, <1>3, <1>4, <1>6

LEMMA UndoInv ==
  Inv /\ Undo => Inv'
<1> SUFFICES ASSUME Inv, Undo PROVE Inv'
  OBVIOUS
<1>1. /\ phase = "unwinding" /\ undoing > 0 /\ undoing' = undoing - 1
      /\ UNCHANGED <<attempt, disk, espDisk, buried, phase, op, part, listed, volumes, directories>>
  BY DEF Undo, plan, filesystem
<1>2. /\ TypeOK /\ OneEach /\ undoing \in DOMAIN Operations /\ undoing \in Int
      /\ undoing - 1 \in 0..Len(Operations)
  <2>1. TypeOK /\ OneEach /\ undoing \in 0..Len(Operations) /\ undoing > 0
    BY <1>1 DEF Inv, TypeOK
  <2>2. undoing \in DOMAIN Operations
    BY <2>1, OperationNumbers
  <2>. QED
    BY <2>1, <2>2, OperationNumbers
<1>3. (Made(undoing))' = Made(undoing - 1)
  BY <1>1 DEF Made, MountOf, DiskOf
<1>4. ASSUME mounts' \subseteq mounts, ~stuck' => Own' = Made(undoing - 1),
             refused' => stuck' \/ buried
      PROVE  Inv'
  <2>1. TypeOK'
    BY <1>1, <1>2, <1>4 DEF TypeOK, Current
  <2>2. Accounts'
    BY <1>1, <1>3, <1>4 DEF Accounts
  <2>3. OneEach' /\ Releasing' /\ Creating'
    BY <1>1, <1>2, <1>4 DEF OneEach, Releasing, Creating
  <2>. QED
    BY <1>1, <1>4, <2>1, <2>2, <2>3 DEF Inv, OnlyOthersInterfere
<1>5. OnlyOthersInterfere /\ (~stuck => Own = Made(undoing))
  BY <1>1 DEF Inv, Accounts
<1>6. CASE Undone.kind \notin Mounting
  <2>1. UNCHANGED <<mounts, refused, stuck>>
    BY <1>6 DEF Undo
  <2>2. Made(undoing) = Made(undoing - 1)
    BY <1>2, <1>6, MadeOneMore DEF Undone
  <2>. QED
    BY <1>1, <1>4, <1>5, <2>1, <2>2 DEF Own, OnlyOthersInterfere
<1>7. CASE Undone.kind \in Mounting
  <2> DEFINE path == Dest(Undone.path)
             possible == \E m \in MountsAt(path) : Inside(m) = {}
             mine == MountOf(undoing)
  <2>1. \/ possible /\ Unmounts(path) /\ UNCHANGED <<refused, stuck>>
        \/ ~possible /\ refused' = TRUE /\ UNCHANGED <<mounts, stuck>>
        \/ stuck' = TRUE /\ UNCHANGED <<mounts, refused>>
    BY <1>7 DEF Undo
  <2>2. ~stuck => possible /\ mine \in Own /\ MountsAt(path) = {mine}
    BY <1>1, <1>7, LastIsFree
  <2>3. CASE Unmounts(path) /\ UNCHANGED <<refused, stuck>>
    <3>1. mounts' \subseteq mounts /\ (~stuck => mounts' = mounts \ {mine})
      BY <2>2, <2>3 DEF Unmounts
    <3>2. Made(undoing) = Made(undoing - 1) \cup {mine} /\ mine \notin Made(undoing - 1)
      <4>1. \A m \in Made(undoing - 1) : m.op \in DOMAIN Operations /\ m.op <= undoing - 1
        BY <1>2, MadeIs
      <4>2. mine.op = undoing /\ ~(undoing <= undoing - 1)
        BY <1>2 DEF MountOf
      <4>. HIDE DEF mine
      <4>3. mine \notin Made(undoing - 1)
        BY <4>1, <4>2
      <4>. QED
        BY <1>2, <1>7, <4>3, MadeOneMore DEF Undone, mine
    <3>3. ~stuck => Own' = Own \ {mine}
      BY <1>1, <3>1 DEF Own
    <3>. HIDE DEF mine
    <3>4. ~stuck => Own' = Made(undoing - 1)
      BY <1>5, <3>2, <3>3
    <3>. QED
      BY <1>4, <1>5, <2>3, <3>1, <3>4 DEF OnlyOthersInterfere
  <2>4. CASE ~possible /\ refused' = TRUE /\ UNCHANGED <<mounts, stuck>>
    BY <1>4, <2>2, <2>4
  <2>5. CASE stuck' = TRUE /\ UNCHANGED <<mounts, refused>>
    BY <1>4, <2>5
  <2>. QED
    BY <2>1, <2>3, <2>4, <2>5
<1>. QED
  BY <1>6, <1>7

LEMMA EndInv ==
  Inv /\ End => Inv'
<1> SUFFICES ASSUME Inv, End PROVE Inv'
  OBVIOUS
<1>1. /\ phase = "unwinding" /\ undoing = 0 /\ phase' = "ended"
      /\ UNCHANGED <<attempt, disk, espDisk, buried, op, part, undoing, listed, mounts, volumes,
                     directories, refused, stuck>>
  BY DEF End, plan, filesystem
<1>2. TypeOK'
  BY <1>1 DEF Inv, TypeOK, Current
<1>3. Accounts'
  <2>1. Made(0) = {}
    BY MadeIs
  <2>. QED
    BY <1>1, <2>1 DEF Inv, Accounts, Own
<1>4. OneEach' /\ Releasing' /\ Creating' /\ OnlyOthersInterfere'
  BY <1>1 DEF Inv, OneEach, Releasing, Creating, OnlyOthersInterfere
<1>. QED
  BY <1>1, <1>2, <1>3, <1>4 DEF Inv

LEMMA DieInv ==
  Inv /\ Die => Inv'
<1> SUFFICES ASSUME Inv, Die PROVE Inv'
  OBVIOUS
<1>1. /\ phase \in {"working", "unwinding"} /\ phase' = "dead"
      /\ UNCHANGED <<attempt, disk, espDisk, buried, op, part, undoing, listed, mounts, volumes,
                     directories, refused, stuck>>
  BY DEF Die, plan, filesystem
<1>2. TypeOK'
  BY <1>1 DEF Inv, TypeOK, Current
<1>3. Accounts' /\ OneEach' /\ Releasing' /\ Creating' /\ OnlyOthersInterfere'
  BY <1>1 DEF Inv, Accounts, OneEach, Releasing, Creating, OnlyOthersInterfere
<1>. QED
  BY <1>1, <1>2, <1>3 DEF Inv

-----------------------------------------------------------------------------
LEMMA InitInv ==
  Init => Inv
<1> SUFFICES ASSUME Init PROVE Inv
  OBVIOUS
<1>1. 1 \in DOMAIN Operations /\ 0 \in 0..Len(Operations)
  BY OperationsAre, ParentsFirst
<1>2. TypeOK
  BY <1>1, MountsAssumption DEF Init, TypeOK
<1>. QED
  BY <1>2 DEF Init, Inv, Accounts, OneEach, Releasing, Creating, OnlyOthersInterfere

LEMMA NextInv ==
  Inv /\ [Next]_vars => Inv'
<1> SUFFICES ASSUME Inv, [Next]_vars PROVE Inv'
  OBVIOUS
<1>1. CASE Start
  BY <1>1, StartInv
<1>2. CASE Release
  BY <1>2, ReleaseInv
<1>3. CASE Format
  BY <1>3, FormatInv
<1>4. CASE MountStaging
  BY <1>4, MountStagingInv
<1>5. CASE CreateSubvolume
  BY <1>5, CreateSubvolumeInv
<1>6. CASE CreationFails
  BY <1>6, CreationFailsInv
<1>7. CASE UnmountStaging
  BY <1>7, UnmountStagingInv
<1>8. CASE MountOn
  BY <1>8, MountOnInv
<1>9. CASE Write
  BY <1>9, WriteInv
<1>10. CASE Cancel
  BY <1>10, CancelInv
<1>11. CASE Undo
  BY <1>11, UndoInv
<1>12. CASE End
  BY <1>12, EndInv
<1>13. CASE Die
  BY <1>13, DieInv
<1>14. CASE UNCHANGED vars
  <2>1. UNCHANGED <<attempt, disk, espDisk, buried, phase, op, part, undoing, listed, mounts,
                    volumes, directories, refused, stuck>>
    BY <1>14 DEF vars, plan, progress, filesystem
  <2>2. TypeOK'
    BY <2>1 DEF Inv, TypeOK, Current
  <2>3. Accounts'
    <3>1. Own' = Own /\ (Made(op - 1))' = Made(op - 1) /\ (Made(undoing))' = Made(undoing)
          /\ StagingMount' = StagingMount
      BY <2>1 DEF Own, Made, MountOf, DiskOf, StagingMount
    <3>. QED
      BY <2>1, <3>1 DEF Inv, Accounts
  <2>4. Releasing'
    BY <2>1 DEF Inv, Releasing, MountsOf, OnTop, Newer
  <2>5. OneEach' /\ Creating' /\ OnlyOthersInterfere'
    BY <2>1 DEF Inv, OneEach, Creating, OnlyOthersInterfere
  <2>. QED
    BY <2>1, <2>2, <2>3, <2>4, <2>5 DEF Inv
<1>. QED
  BY <1>1, <1>2, <1>3, <1>4, <1>5, <1>6, <1>7, <1>8, <1>9, <1>10, <1>11, <1>12, <1>13, <1>14
     DEF Next

-----------------------------------------------------------------------------
(* The inductive invariant, for every well-formed list of subvolumes and   *)
(* every number of disks, services and faults.                             *)
THEOREM MountsAccounted ==
  Spec => []Inv
<1>1. Init => Inv
  BY InitInv
<1>2. Inv /\ [Next]_vars => Inv'
  BY NextInv
<1>. QED
  BY <1>1, <1>2, PTL DEF Spec

(* Every variable keeps its type, part stays 0 outside the operations that *)
(* run several commands, and no path is a subvolume and a directory.       *)
THEOREM MountsTyped ==
  Spec => []TypeOK
<1>1. Inv => TypeOK
  BY DEF Inv
<1>. QED
  BY <1>1, MountsAccounted, PTL

(* While a service works, each path that one of its operations mounted     *)
(* leads to what that operation mounted there: the order of MountSubvolume *)
(* operations hides nothing, whatever subvolumes the plan lists.           *)
THEOREM NothingIsHidden ==
  Spec => []WritesLandInTheirSubvolume
<1>1. ASSUME Inv, phase = "working", NEW i \in 1..op - 1, Operations[i].kind \in Mounting
      PROVE  \E m \in MountsAt(Dest(Operations[i].path)) : m.by = attempt /\ m.op = i
  <2>1. /\ TypeOK /\ op \in DOMAIN Operations /\ op \in Int /\ attempt \in Nat
        /\ Own = Made(op - 1) \cup (IF op = 3 /\ part > 0 THEN {StagingMount} ELSE {})
    BY <1>1, Working, Rows
  <2>2. i \in DOMAIN Operations /\ i <= op - 1 /\ i \in Int
    BY <2>1, OperationsAre, ParentsFirst
  <2>3. MountOf(i) \in Made(op - 1) /\ op > 3
    <3>1. MountOf(i) \in Made(op - 1) /\ MountOf(i) \in Made(i) /\ (i <= 3 => Made(i) = {})
      BY <1>1, <2>1, <2>2, MadeIs
    <3>. QED
      BY <2>1, <2>2, <3>1
  <2>4. Own = Made(op - 1)
    BY <2>1, <2>3
  <2>5. /\ MountOf(i).at = Dest(Operations[i].path) /\ MountOf(i).by = attempt
        /\ MountOf(i).op = i
    BY DEF MountOf
  <2>6. MountOf(i) \in mounts
    BY <2>3, <2>4 DEF Own
  <2>7. ASSUME NEW k \in mounts, Newer(k, MountOf(i)) PROVE ~IsPrefix(k.at, MountOf(i).at)
    <3>1. k.by \in Nat /\ k.by <= attempt /\ k.op \in Nat
      BY <2>1, Rows
    <3>2. k.by = attempt /\ k.op > i
      BY <2>1, <2>2, <2>5, <2>7, <3>1 DEF Newer
    <3>3. k \in Made(op - 1)
      BY <2>4, <3>2 DEF Own
    <3>4. /\ k.op \in DOMAIN Operations /\ Operations[k.op].kind \in Mounting
          /\ k = MountOf(k.op)
      BY <2>1, <3>3, MadeIs
    <3>5. k.at = Dest(Operations[k.op].path)
      BY <3>4 DEF MountOf
    <3>. QED
      BY <1>1, <2>2, <2>5, <3>2, <3>4, <3>5, NoneCovers
  <2>. HIDE DEF MountOf
  <2>8. MountOf(i) \in MountsAt(Dest(Operations[i].path))
    BY <2>5, <2>6, <2>7 DEF MountsAt, OnTop
  <2>. QED
    BY <2>5, <2>8
<1>2. Inv => WritesLandInTheirSubvolume
  BY <1>1 DEF WritesLandInTheirSubvolume
<1>. QED
  BY <1>2, MountsAccounted, PTL

(* The kernel refuses no command of a service, unless an umount of its own *)
(* failed for a reason outside, or it started with its target's mounts     *)
(* under those of another disk.                                            *)
THEOREM NeverInItsOwnWay ==
  Spec => []OnlyOthersInterfere
<1>1. Inv => OnlyOthersInterfere
  BY DEF Inv
<1>. QED
  BY <1>1, MountsAccounted, PTL

(* The unwind of a service takes away all that the service mounted, from   *)
(* whichever command it turned back, as long as every umount succeeded.    *)
THEOREM AllIsUnmounted ==
  Spec => []NothingIsLeftMounted
<1>1. Inv => NothingIsLeftMounted
  BY DEF Inv, Accounts, Own, NothingIsLeftMounted
<1>. QED
  BY <1>1, MountsAccounted, PTL
=============================================================================

-------------------------- MODULE MCDiskPreparation --------------------------
(***************************************************************************)
(* A target that is empty, carries two old partitions, or belongs to a     *)
(* group or an array as a whole; a second disk with an ESP or without; the *)
(* live medium.  The target is so small that a swap partition fits only    *)
(* when no ESP has to be created.                                          *)
(***************************************************************************)
EXTENDS DiskPreparation

CONSTANTS d1, d2, live, mnt, mntData, efi, root, swapArea, noDevice, vg, md, mdLinear

MCListedAt == (d1 :> 1) @@ (d2 :> 2) @@ (live :> 3)
MCCapacity == (d1 :> 28800) @@ (d2 :> 40000) @@ (live :> 4000)
MCDepth == (mnt :> 1) @@ (mntData :> 2) @@ (efi :> 2) @@ (swapArea :> 1)
MCBelow == (mnt :> {mnt, mntData}) @@ (mntData :> {mntData}) @@ (efi :> {efi})
MCPvsOf == vg :> {<<d1, 0>>, <<d1, 2>>}
MCMembersOf == (md :> {<<d1, 0>>, <<d1, 2>>}) @@ (mdLinear :> {<<d1, 0>>})
MCLevelOf == (md :> "raid1") @@ (mdLinear :> "linear")

(* d1 has as many old partitions as t1 names, d2 one when it has an ESP.   *)
State(t1, mounts, efiOnD2, swaps, groups, volumes, arrays) ==
  LET old(p) == (p[1] = d1 /\ p[2] <= Len(t1)) \/ (p = <<d2, 1>> /\ efiOnD2)
      efiMount == IF efiOnD2 THEN efi :> <<d2, 1>> ELSE <<>>
  IN  [content |-> [dev \in Devices |->
                      IF dev[2] # 0 /\ old(dev)
                      THEN IF dev[1] = d1 THEN t1[dev[2]] ELSE "vfat"
                      ELSE "none"],
       type |-> [p \in Disks \X Numbers |-> IF old(p) THEN "old" ELSE "absent"],
       mounted |-> mounts @@ efiMount @@ [m \in MountPoints |-> NoDevice],
       swapOn |-> swaps, active |-> groups, lvMounted |-> volumes, running |-> arrays]

(* d1 is used as a whole.                                                  *)
Unpartitioned(fs, efiOnD2, groups, arrays) ==
  [State(<<>>, <<>>, efiOnD2, {}, groups, {}, arrays) EXCEPT !.content[<<d1, 0>>] = fs]

MCMachines ==
  UNION {
    { Unpartitioned("none", e, {}, {}),
      Unpartitioned("ext4", e, {}, {}),
      Unpartitioned("swap", e, {}, {}),
      Unpartitioned("lvm", e, {}, {}),
      Unpartitioned("lvm", e, {vg}, {}),
      Unpartitioned("raid", e, {}, {md}),
      Unpartitioned("raid", e, {}, {mdLinear}),
      State(<<"vfat", "ext4">>, <<>>, e, {}, {}, {}, {}),
      State(<<"ext4", "ext4">>, (mnt :> <<d1, 1>>) @@ (mntData :> <<d1, 2>>), e, {}, {}, {}, {}),
      State(<<"ext4", "swap">>, <<>>, e, {}, {}, {}, {}),
      State(<<"ext4", "swap">>, <<>>, e, {<<d1, 2>>}, {}, {}, {}),
      State(<<"ext4", "lvm">>, <<>>, e, {}, {}, {}, {}),
      State(<<"ext4", "lvm">>, <<>>, e, {}, {vg}, {}, {}),
      State(<<"ext4", "lvm">>, <<>>, e, {}, {vg}, {vg}, {}),
      State(<<"ext4", "raid">>, <<>>, e, {}, {}, {}, {md}) } : e \in BOOLEAN}
  \cup {State(<<"vfat", "ext4">>, efi :> <<d1, 1>>, FALSE, {}, {}, {}, {})}

Direct == [kind |-> "direct"]
RootVolume == <<[mount |-> root, size |-> MinimumRootSize], [mount |-> mnt, size |-> FillRemaining]>>
DiskTarget(d) == [kind |-> "disk", disk |-> d]
Ask(target, layer, swap) == [target |-> target, layer |-> layer, swap |-> swap]

MCRequests ==
  {Ask(DiskTarget(d), Direct, swap) : d \in {d1, d2, live}, swap \in {"zram", "disk"}}
  \cup {Ask([kind |-> "newRaid", level |-> "Raid1", members |-> <<d1, d2>>], Direct, "none"),
        Ask([kind |-> "newRaid", level |-> "Raid5", members |-> <<d1, d2>>], Direct, "none"),
        Ask([kind |-> "existingRaid", array |-> md], Direct, "none"),
        Ask([kind |-> "none"], [kind |-> "existingGroup", group |-> vg, volumes |-> RootVolume], "none"),
        Ask(DiskTarget(d2), [kind |-> "newGroup", volumes |-> RootVolume], "disk")}
=============================================================================

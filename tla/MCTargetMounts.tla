---------------------------- MODULE MCTargetMounts ----------------------------
(***************************************************************************)
(* One subvolume of every kind: /, one below it, two below plain           *)
(* directories that they share, and one that shares /boot with the ESP.    *)
(***************************************************************************)
EXTENDS TargetMounts, TLC

CONSTANTS sda, sdb, none

MCSubvolumes ==
  << <<>>, <<"home">>, <<"boot", "grub2", "x86_64-efi">>, <<"var", "log">>,
     <<"var", "lib", "mysql">> >>

MCNames ==
  OwnNames \cup UNION {ToSet(DefaultSubvolumes[i]) : i \in DOMAIN DefaultSubvolumes}

(* The disks differ in nothing; only safety is checked.                    *)
Symmetry == Permutations(Disks)
=============================================================================

------------------------------ MODULE MCWizard ------------------------------
(***************************************************************************)
(* Two disks of which one cannot take a swap partition, and a form that is *)
(* valid, valid in another way, or rejected by Rust only (time zone).      *)
(***************************************************************************)
EXTENDS Wizard, TLC

CONSTANTS sda, sdb, noDisk, zram, swapDisk, planA, planB, planAS, noPlan, cfg1, cfg2, cfgBad

MCPlanOf == (<<sda, zram>> :> planA) @@ (<<sda, swapDisk>> :> planAS)
              @@ (<<sdb, zram>> :> planB) @@ (<<sdb, swapDisk>> :> noPlan)
=============================================================================

-------------------------- MODULE MCExecutionEngine --------------------------
(***************************************************************************)
(* A short installation with the shape of the real sequence: partition,    *)
(* create the subvolumes through a staging mount, mount / and two nested   *)
(* mount points, and a last operation that mounts nothing.                 *)
(***************************************************************************)
EXTENDS ExecutionEngine, TLC

CONSTANTS samePlan, otherPlan, raidPlan, blocked, asPlanned, changed, asRaid, unusable,
          noRequest, noDisk

MCMounts == {3, 4, 5}
MCUnder == (3 :> {4, 5}) @@ (4 :> {5}) @@ (5 :> {})
MCStaging == {2}
MCPlanOf == (asPlanned :> samePlan) @@ (changed :> otherPlan) @@ (asRaid :> raidPlan)
              @@ (unusable :> blocked)
=============================================================================

SPECIFICATION FairSpec
CONSTANTS
  samePlan = samePlan
  otherPlan = otherPlan
  raidPlan = raidPlan
  blocked = blocked
  asPlanned = asPlanned
  changed = changed
  asRaid = asRaid
  unusable = unusable
  noRequest = noRequest
  noDisk = noDisk
  N = 6
  Mounts <- MCMounts
  Under <- MCUnder
  Staging <- MCStaging
  Plans = {samePlan, otherPlan, raidPlan}
  Blocked = blocked
  Disks = {asPlanned, changed, asRaid, unusable}
  PlanOf <- MCPlanOf
  Executable = {samePlan, otherPlan}
  NoRequest = noRequest
  NoDisk = noDisk
INVARIANTS
  TypeOK
  VerdictIsHonest
  MountsNest
  OrderNeverBlocksUnwind
  LeaksAreReported
  WritesAreConfirmed
  CancelIsHonoured
PROPERTIES
  EveryRunEnds
  Transaction

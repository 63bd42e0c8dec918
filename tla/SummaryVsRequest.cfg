SPECIFICATION Spec
CONSTANTS
  sda = sda
  sdb = sdb
  noDisk = noDisk
  zram = zram
  swapDisk = swapDisk
  planA = planA
  planB = planB
  planAS = planAS
  noPlan = noPlan
  cfg1 = cfg1
  cfg2 = cfg2
  cfgBad = cfgBad
  Disks = {sda, sdb}
  NoDisk = noDisk
  Swaps = {zram, swapDisk}
  DefaultSwap = zram
  Plans = {planA, planB, planAS}
  NoPlan = noPlan
  PlanOf <- MCPlanOf
  Configs = {cfg1, cfgBad}
  AccountOk = {cfg1, cfgBad}
  Valid = {cfg1}
  MaxCalls = 2
INVARIANTS
  RequestIsWhatWasShown
CHECK_DEADLOCK FALSE

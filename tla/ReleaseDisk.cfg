SPECIFICATION Spec
CONSTANTS
  d1 = d1
  d2 = d2
  live = live
  mnt = mnt
  mntData = mntData
  efi = efi
  root = root
  swapArea = swapArea
  noDevice = noDevice
  vg = vg
  md = md
  mdLinear = mdLinear
  NoDevice = noDevice
  espMount = efi
  rootMount = root
  swapMark = swapArea
  Disks = {d1, d2, live}
  ListedAt <- MCListedAt
  Capacity <- MCCapacity
  LiveDisk = live
  MaxPartitions = 3
  PvsOf <- MCPvsOf
  MembersOf <- MCMembersOf
  LevelOf <- MCLevelOf
  ArraySize = 28000
  GroupFree = 30000
  Depth <- MCDepth
  Below <- MCBelow
  Machines <- MCMachines
  Requests <- MCRequests
  MaxChanges = 0
INVARIANTS
  TargetIsReleased
CHECK_DEADLOCK FALSE

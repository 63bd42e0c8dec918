SPECIFICATION FairSpec
CONSTANTS
  Releases = {r0, r1}
  Kernels = {k0, k1}
  r0 = r0
  r1 = r1
  k0 = k0
  k1 = k1
  Release0 = r0
  Kernel0 = k0
  Targets = {1}
  LastSnapshot = 7
  Faults = 1
INVARIANTS
  TypeOK
  PassedMeansRestored
PROPERTIES
  WorkflowIsTruthful
  InterruptedRollbackRecovers
CHECK_DEADLOCK FALSE

SPECIFICATION Spec
CONSTANTS
  sda = sda
  sdb = sdb
  none = none
  Names <- MCNames
  Subvolumes <- MCSubvolumes
  Disks = {sda, sdb}
  NoDisk = none
  Attempts = 3
  Faults = 2
SYMMETRY Symmetry
INVARIANTS
  TypeOK
  WritesLandInTheirSubvolume
  OnlyOthersInterfere
  NothingIsLeftMounted
CHECK_DEADLOCK FALSE

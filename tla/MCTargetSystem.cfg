SPECIFICATION Spec
CONSTANTS
  slash = slash
  home = home
  efi = efi
  dotSnapshots = dotSnapshots
  swap = swap
  live = live
  ana = ana
  daemon = daemon
  nopasswd = nopasswd
  autologin = autologin
  service = service
  policy = policy
  nobody = nobody
  Subvolumes = {slash, home}
  rootMount = slash
  espMount = efi
  snapshotsMount = dotSnapshots
  swapArea = swap
  liveuser = live
  LiveFiles = {nopasswd, autologin}
  InstallerFiles = {service, policy}
  Images <- MCImages
  Configs <- MCConfigs
  LiveConnections <- MCConnections
INVARIANTS
  TypeOK
  SnapshotIsClean
  SnapshotIsBootable
  BootableHasNoLiveUser
  FstabMatchesLayout
  CompletedIsUsable
CHECK_DEADLOCK FALSE

SPECIFICATION GenFairSpec
CONSTANTS
  DeviceKeys = {d1}
  MaxGen = 1
  DiscoveryOnStart = TRUE
  DiscoveryOnTimer = TRUE
  WatchProfiles = TRUE
  MaxSaves = 2
  MaxEvents = 2
CHECK_DEADLOCK FALSE
INVARIANT GenerationInv
PROPERTIES ChangeRestarts WindsDown

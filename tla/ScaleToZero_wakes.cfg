SPECIFICATION FairSpec
CONSTANTS
  Request = {r1}
  Place = {east, west}
  Kinds <- MCKinds
  Quorum <- MCQuorum
  Offered <- MCOffered
  MaxPatches = 0
  DownTicks = 1
  SleepTicks = 1
  MaxFaults = 1
PROPERTIES RequestIsServed ParkedIsReleased
CHECK_DEADLOCK FALSE

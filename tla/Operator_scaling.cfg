SPECIFICATION OperatorSpec
CONSTANTS
  Request = {r1, r2}
  Place = {east, west}
  Kinds <- MCKinds
  Quorum <- MCQuorum
  Offered <- MCOffered
  MaxPatches = 1
  DownTicks = 3
  SleepTicks = 3
 
PROPERTIES ScaleDownLandsOnPeak CacheLostOnlyByMove
CHECK_DEADLOCK FALSE

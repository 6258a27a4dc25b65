CONSTANTS
  Follower <- MCFollower
  MaxTurn = 1
  Attempts <- ResultTwice
  MaxInterrupts = 1
  MaxDrops = 1
  PollFailures = 2
SPECIFICATION FairSpec
CHECK_DEADLOCK FALSE
INVARIANT LoggedOnce
INVARIANT SeenInOrder
PROPERTY ViewCatchesUp
PROPERTY DelegationReturns

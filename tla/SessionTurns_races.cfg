CONSTANTS
  h1 = h1
  h2 = h2
  h3 = h3
  MaxTurn = 1
  Attempts = 2
  Handler <- TwoHandlers
  MaxRestart = 0
  MayInterrupt = TRUE
  MayLock = TRUE
SPECIFICATION Spec
SYMMETRY HandlerSymmetry
INVARIANT LaunchOnce
INVARIANT ReplacedIsNotCurrent
INVARIANT NoCheckpointLeaks
PROPERTY ImplementsLedger
PROPERTY CheckpointMovesForward

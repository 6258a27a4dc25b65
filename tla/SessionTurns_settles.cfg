CONSTANTS
  h1 = h1
  h2 = h2
  h3 = h3
  MaxTurn = 2
  Attempts = 1
  Handler <- TwoHandlers
  MaxRestart = 1
  MayInterrupt = FALSE
  MayLock = FALSE
SPECIFICATION RestingSpec
PROPERTY InFlightSettles
CHECK_DEADLOCK FALSE

CONSTANTS
  s1 = s1
  d1 = d1
  w1 = w1
  w2 = w2
  Session = {s1}
  Deployment = {d1}
  Worker = {w1, w2}
  Settings <- Ledgers
  Minute = 2
  GapCap = 2
  MaxTurn = 1
  MaxTime = 4
SYMMETRY Workers
SPECIFICATION MCSpec
CHECK_DEADLOCK FALSE
INVARIANT SpansNeverOverlap
INVARIANT TickBillsRuntime

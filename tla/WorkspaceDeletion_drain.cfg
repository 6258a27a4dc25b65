SPECIFICATION Spec
CONSTANTS
  Writer = {w1}
  Runner = {r1, r2}
  TTL = 1
  MaxWrites = 1
  MaxRequests = 2
  MaxRestarts = 1
INVARIANTS OneDrain  
PROPERTIES OrphansAreSwept DeletionEnds
CHECK_DEADLOCK FALSE

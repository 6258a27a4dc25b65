SPECIFICATION Spec
CONSTANTS
  MaxTurn = 1
  MaxCalls = 1
  MaxAttempts = 2
  Limit = 4
  PromptSizes = {1, 3}
  ResultSizes = {1, 5}
  MaxResult = 2
  HasBuiltins = FALSE
  Servers = {s1}
  Path = {p1}
  MaxOther = 1
CHECK_DEADLOCK FALSE
INVARIANT RequestsAreValid
INVARIANT SavedIsValid
INVARIANT PublishedOnce
PROPERTY UntouchedIsKept
PROPERTY PodEnds

SPECIFICATION Spec
CONSTANTS
  gpt = gpt
  ext = ext
  Request = {r1, r2}
  External = {r1}
  Name = ext
  Model = {gpt, ext}
  Local = {gpt}
  Routings <- MCRoutings
  KeyTTL = 1
  RefusedTTL = 1
  RulesTTL = 1
  TargetsTTL = 1
  CostTTL = 1
  StateTTL = 1
  Budget = 1
  MaxFailures = 1
  MaxEdits = 1
INVARIANTS ExternalIsRouted BudgetHolds RevokedIsRefused  
CHECK_DEADLOCK FALSE

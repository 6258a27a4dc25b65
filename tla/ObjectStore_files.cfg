SPECIFICATION StoreSpec
CONSTANTS
  w1 = w1 w2 = w2
  File = {f1, f2, f3}
  SeedFile = f1
  NoFile = NoFile
  EntryPath = {p1}
  SkillPath = {s1, s2}
  SkillMd = s1
  Worker = {w1, w2}
  Maint = Maint
  MaxOps = 3
  MaxFailures = 1
  MaxCrashes = 1
SYMMETRY Workers
INVARIANTS RowsHaveContent GcReclaims PartsAreFound
CHECK_DEADLOCK FALSE

CONSTANTS
  w1 = w1
  w2 = w2
  Workers = {w1, w2}
  a = a
  b = b
  Sources = {a, b}
  Target = t
  s1 = s1
  Siblings = {s1}
  x = x
  y = y
  Names = {x, y}
  Operations = {"copy", "move", "duplicate"}
  Choices = {"Skip", "KeepBoth", "Replace", "Cancel"}
  Faults = {"setaside", "rename", "copy", "drop", "cleanup", "restore", "purge"}
  j1 = j1
  Jobs = {j1}
  NoJob = NoJob
  Kinds = {"transfer", "createFolder", "delete", "archive"}
  Answers = {"Skip", "KeepBoth", "Replace", "Cancel"}
  MaxItems = 3
  Keep = 1
  PoolSize = 1
SPECIFICATION JobsSpec
SYMMETRY MCSymmetry
CHECK_DEADLOCK FALSE
INVARIANTS WindowTellsTheTruth NoUnseenDecision   NoSilentOverwrite

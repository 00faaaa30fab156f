CONSTANTS
  w1 = w1
  w2 = w2
  Workers = {w1, w2}
  a = a
  b = b
  Sources = {a, b}
  Target = t
  s1 = s1
  Siblings = {s1}
  x = x
  Names = {x}
  Operations = {"copy", "move"}
  Choices = {"Skip", "KeepBoth", "Replace", "Cancel"}
  Faults = {}
SPECIFICATION TransferSpec
CHECK_DEADLOCK FALSE
INVARIANTS NoDataLost

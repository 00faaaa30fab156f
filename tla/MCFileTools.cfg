\* Two operations on two paths and two trash names; archives of at most three of
\* nine entries; one thing from outside in each behaviour.
SPECIFICATION ToolsSpec
CONSTANTS
  Paths = {p1, p2}
  Spares = {s1}
  Names = {n1, n2}
  Workers = {w1, w2}
  Data = {1, 2, 3}
  Unborn = Unborn
  Gone = Gone
  None = None
  Decisions = {"KeepBoth", "Replace"}
  Others = 1
  Archives <- MCArchives
  EntryNames = {"a", "b"}
  MaxEntries = 3
  MaxOthers = 1
  Selections <- MCSelections
  Destinations <- MCDestinations
  ItemNames = {"a", "b"}
  MaxChanges = 1
SYMMETRY ToolsSymmetry
INVARIANTS
  TrashLosesNoFile
  SettledTrashListIsTrue
  
  
  PublishedArchiveIsWhole
\* every behaviour ends: the requests and the bounds are used up
CHECK_DEADLOCK FALSE

CONSTANTS
  j1 = j1
  j2 = j2
  p1 = p1
  p2 = p2
  Jobs = {j1, j2}
  NoJob = NoJob
  Pieces = {p1, p2}
  Top = Top
  MaxAttempts = 2
  Keep = 0
SPECIFICATION FairSpec
INVARIANTS RemoteWorkIsSafe
PROPERTIES RemoteRefinesJobBoard EveryRemoteJobFinishes

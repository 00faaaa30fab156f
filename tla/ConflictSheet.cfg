CONSTANTS
  j1 = j1
  j2 = j2
  Jobs = {j1, j2}
  Kinds = {"transfer", "createFolder", "delete", "archive"}
  Answers = {"Skip"}
  MaxItems = 1
  Keep = 0
  PoolSize = 1
  NoJob = NoJob
SPECIFICATION FairSheetSpec
INVARIANTS LiveJobIsListed NoWorkerOutlivesManager
PROPERTIES RefinesJobBoard DestructorReturns EveryJobFinishes

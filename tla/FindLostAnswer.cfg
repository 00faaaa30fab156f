CONSTANTS
  j1 = j1
  Jobs = {j1}
  Kinds = {"transfer"}
  Answers = {"Skip", "KeepBoth", "Replace", "Cancel"}
  MaxItems = 2
  Keep = 1
  PoolSize = 1
  NoJob = NoJob
SPECIFICATION SheetSpec
INVARIANTS AnswerReachesWorker

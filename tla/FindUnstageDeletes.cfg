CONSTANTS
    Files = {"f", "g"}
    MaxActions = 2
SPECIFICATION ActionSpec
INVARIANTS UnstagingDeletesNothing
CHECK_DEADLOCK FALSE

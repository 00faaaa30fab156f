----------------------------- MODULE MCLocalJobs -----------------------------
(***************************************************************************)
(* A local job for TLC, on its two sides: what the window shows of it and  *)
(* the user answers (ConflictSheet), where the file system is a choice, or *)
(* what its transfers do to the file system (MCFileTransfer), where the    *)
(* decisions are.  They share no state, so a behaviour is about one side.  *)
(***************************************************************************)
EXTENDS ConflictSheet, MCFileTransfer, Functions

CONSTANTS a, j1

VARIABLE side

\* Nothing is requested in a behaviour about the window.
NoTransfers ==
  /\ TransferInit
  /\ before[Target] = Absent /\ \A p \in Sources : before[p].dir
  /\ op = [w \in Workers |-> "copy"] /\ Cardinality(Range(src)) = 1 /\ a \in Range(src)
  /\ at = [w \in Workers |-> "idle"] /\ faults = {}

JobsInit ==
  /\ SheetInit
  /\ \/ side = "files" /\ MCInit
     \/ side = "window" /\ NoTransfers
JobsNext ==
  \/ side = "files" /\ TransferNext /\ UNCHANGED <<side, viewVars>>
  \/ side = "window" /\ SheetNext /\ UNCHANGED <<side, transferVars>>
JobsSpec == JobsInit /\ [][JobsNext]_<<side, transferVars, viewVars>>
=============================================================================

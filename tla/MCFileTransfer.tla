--------------------------- MODULE MCFileTransfer ---------------------------
EXTENDS FileTransfer, TLC

(* A step that may fail may also succeed, so the largest sets of faults stand
   for the smaller ones: one transfer with all faults or with those that the
   rollback survives, or two transfers at a time of which only copies fail. *)
MCInit ==
  /\ TransferInit
  /\ \E w \in Workers : at[w] # "idle"
  /\ IF \A w \in Workers : at[w] # "idle"
       THEN faults = {"copy"}
       ELSE faults \in {Faults, Faults \ {"dropPartly", "cleanup", "restore", "purge"}}
  /\ \A w \in Workers : at[w] = "idle" => op[w] = "copy" /\ src[w] \in Sources

MCSpec == MCInit /\ [][TransferNext]_transferVars

MCSymmetry == Permutations(Workers) \cup Permutations(Sources)
=============================================================================

----------------------------- MODULE JobBoard -----------------------------
(***************************************************************************)
(* What the list of jobs promises to the views that show it, without any   *)
(* threads: a job is listed as Queued, runs, may go back and forth between *)
(* Running and WaitingForConflict, and ends once, in one of three final    *)
(* states.  Only a row in a final state disappears, and a job never comes  *)
(* back.  OperationManager and RemoteOperationManager implement this       *)
(* specification.                                                          *)
(***************************************************************************)
CONSTANTS
  Jobs,
  Withdrawable  \* whether a queued job that is cancelled ends without running

VARIABLES
  rows,    \* the jobs on display
  status   \* what their rows say; "Unknown" for a job nobody has asked for

vars == <<rows, status>>

Active == {"Running", "WaitingForConflict"}
Final  == {"Completed", "Failed", "Cancelled"}

Init ==
  /\ rows = {}
  /\ status = [j \in Jobs |-> "Unknown"]

Becomes(j, s) == status' = [status EXCEPT ![j] = s]

(* A new row may push finished rows out. *)
Add(j) ==
  /\ status[j] = "Unknown"
  /\ Becomes(j, "Queued")
  /\ \E old \in SUBSET {i \in rows : status[i] \in Final} :
       rows' = (rows \ old) \cup {j}

Run(j)   == j \in rows /\ status[j] \in {"Queued"} \cup Active /\ Becomes(j, "Running")
            /\ UNCHANGED rows
Raise(j) == j \in rows /\ status[j] = "Running" /\ Becomes(j, "WaitingForConflict")
            /\ UNCHANGED rows
End(j)   == j \in rows /\ status[j] \in Active /\ (\E s \in Final : Becomes(j, s))
            /\ UNCHANGED rows

Withdraw(j) == /\ Withdrawable /\ j \in rows /\ status[j] = "Queued"
               /\ Becomes(j, "Cancelled") /\ UNCHANGED rows

Clear ==
  /\ \E old \in SUBSET {i \in rows : status[i] \in Final} : rows' = rows \ old
  /\ UNCHANGED status

Next == (\E j \in Jobs : Add(j) \/ Run(j) \/ Raise(j) \/ End(j) \/ Withdraw(j))
        \/ Clear

Spec == Init /\ [][Next]_vars
=============================================================================

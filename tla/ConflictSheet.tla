--------------------------- MODULE ConflictSheet ---------------------------
(***************************************************************************)
(* The main window's conflict sheet (src/qml/Main.qml) in front of the     *)
(* operation queue.  There is one sheet and one conflictJobId for all      *)
(* jobs: conflictRaised shows the sheet for the job it names, a choice     *)
(* hides it and calls resolveConflict, and jobFinished hides it when it    *)
(* belongs to that job.  The trash view uses the same sheet in restoreMode.*)
(* Views reach resolveConflict only through the sheet.                     *)
(***************************************************************************)
EXTENDS OperationManager

CONSTANT NoJob  \* the empty conflictJobId, which is not in Jobs

VARIABLES
  visible,        \* conflictSheet.visible
  conflictJobId,
  answered        \* history: the item of each job answered last on the sheet

sheet    == <<visible, conflictJobId>>
viewVars == <<vars, sheet, answered>>

SheetTypeOK ==
  /\ TypeOK
  /\ visible \in BOOLEAN
  /\ conflictJobId \in Jobs \cup {NoJob}
  /\ answered \in [Jobs -> 0 .. MaxItems]

SheetInit ==
  /\ Init
  /\ visible = FALSE
  /\ conflictJobId = NoJob
  /\ answered = [j \in Jobs |-> 0]

(* onConflictRaised, for a file job *)
ShowConflict ==
  /\ RunRaise
  /\ visible' = TRUE
  /\ conflictJobId' = Head(posted).job
  /\ UNCHANGED answered

(* onConflictRaised of the trash: a restore whose original path is taken *)
ShowRestoreConflict ==
  /\ manager = "alive"
  /\ visible' = TRUE
  /\ conflictJobId' = NoJob
  /\ UNCHANGED <<vars, answered>>

\* Mutant of HideFinished: the sheet stays when its job ends.
HideNothing ==
  /\ RunFinish
  /\ UNCHANGED <<sheet, answered>>

(* onJobFinished *)
HideFinished ==
  /\ RunFinish
  /\ IF Head(posted).job \in listed /\ conflictJobId = Head(posted).job
       THEN visible' = FALSE /\ conflictJobId' = NoJob
       ELSE UNCHANGED sheet
  /\ UNCHANGED answered

\* Mutant of Choose: the sheet stays open until the row changes.
ChooseAgain(decision, applyToAll) ==
  /\ visible /\ conflictJobId # NoJob
  /\ UNCHANGED sheet
  /\ Resolve(conflictJobId, decision, applyToAll)
  /\ answered' = [answered EXCEPT ![conflictJobId] = shown[conflictJobId]]

(* onChoose for a file job; resolveConflict ignores a job that is not
   waiting, and the sheet is hidden all the same. *)
Choose(decision, applyToAll) ==
  /\ visible /\ conflictJobId # NoJob
  /\ visible' = FALSE
  /\ UNCHANGED conflictJobId
  /\ \/ /\ Resolve(conflictJobId, decision, applyToAll)
        /\ answered' = [answered EXCEPT ![conflictJobId] = shown[conflictJobId]]
     \/ /\ conflictJobId \notin listed \/ state[conflictJobId] # "WaitingForConflict"
        /\ manager = "alive"
        /\ UNCHANGED <<vars, answered>>

(* onChoose in restoreMode *)
ChooseRestore ==
  /\ manager = "alive"
  /\ visible /\ conflictJobId = NoJob
  /\ visible' = FALSE
  /\ UNCHANGED <<vars, conflictJobId, answered>>

(* What does not touch the sheet: the workers, the other closures, the other
   calls from the views and the end of the application. *)
Elsewhere ==
  /\ \/ \E j \in Jobs : \/ Worker(j) \/ Cancel(j) \/ Dismiss(j)
                        \/ \E k \in Kinds, n \in 0 .. MaxItems : Start(j, k, n)
     \/ RunRunning \/ RunWaiting \/ RunStep
     \/ ClearFinished \/ Destroy \/ Stopped
  /\ UNCHANGED <<sheet, answered>>

SheetNext ==
  \/ ShowConflict \/ ShowRestoreConflict \/ HideFinished
  \/ \E d \in Answers, all \in BOOLEAN : Choose(d, all)
  \/ ChooseRestore
  \/ Elsewhere

SheetSpec == SheetInit /\ [][SheetNext]_viewVars

(* Pool threads and the event loop keep running, a destructor that began goes
   on to its end, and the user answers the sheet that stands in front of the
   window's other views.  Nobody answers without a sheet or once the window is
   closing, and nobody has to cancel, dismiss or close anything. *)
SheetFairness ==
  /\ \A j \in Jobs : WF_viewVars(Worker(j) /\ UNCHANGED <<sheet, answered>>)
  /\ WF_viewVars(\/ ShowConflict \/ HideFinished
                 \/ (RunRunning \/ RunWaiting \/ RunStep) /\ UNCHANGED <<sheet, answered>>)
  /\ WF_viewVars(\E d \in Answers : Choose(d, FALSE))
  /\ WF_viewVars(EndDestroy /\ UNCHANGED <<sheet, answered>>)

FairSheetSpec == SheetSpec /\ SheetFairness

----------------------------------------------------------------------------
(* No decision is carried out on a conflict its user has not seen: what
   waitForConflict returns for an item was chosen while the sheet showed that
   item, or was given for all conflicts, although a worker reads the answer
   long after the GUI thread stored it. *)
NoUnseenDecision ==
  \A j \in Jobs :
    pc[j] = "decided" /\ choice[j] # "Cancel"
      => answered[j] = item[j] \/ choice[j] = persistent[j]

(* The sheet never offers choices for a job that has ended. *)
SheetIsForALiveJob ==
  visible /\ conflictJobId # NoJob => conflictJobId \in listed /\ ~Terminal(conflictJobId)

(* What the window shows of a job, its row with the conflict and the progress
   and the sheet in front of them, is true, although closures bring it there
   after the fact: see the three properties. *)
WindowTellsTheTruth ==
  SheetTypeOK /\ SheetIsForALiveJob /\ ShownConflictIsReal /\ ProgressIsTruthful

(* An answer given on the sheet reaches the worker: one that is still waiting
   for the conflict just answered has been told so. *)
AnswerReachesWorker ==
  \A j \in Jobs : pc[j] = "wait" /\ answered[j] = item[j] => resolved[j]

(* Job j waits and nobody can answer it any more.  Either the answer it got
   was thrown away when it began to wait, and the sheet has gone with it, or
   the sheet was taken over by another job or the trash before it answered. *)
AnswerLost(j) ==
  pc[j] = "wait" /\ ~resolved[j] /\ answered[j] = item[j]

SheetTaken(j) ==
  /\ pc[j] = "wait" /\ ~resolved[j] /\ answered[j] # item[j]
  /\ conflictJobId # j
  /\ \A i \in 1 .. Len(posted) : posted[i] # Closure(j, "raise", item[j])

Forsaken(j) == AnswerLost(j) \/ SheetTaken(j)

(* Every job that was started reaches a final state while the window is open,
   as long as each sheet that is shown is answered, and only two things can
   stand in its way: its own conflict is forsaken in one of the two ways
   above, or it still waits for a pool thread and forsaken jobs hold them
   all. *)
AnsweredJobsFinish ==
  \A j \in Jobs :
    pc[j] # "none"
      ~> \/ Terminal(j) \/ manager # "alive"
         \/ Forsaken(j)
         \/ pc[j] = "pooled" /\ Cardinality({k \in Jobs : Forsaken(k)}) >= PoolSize

(* Cancel, which the operation drawer offers for every row that is not final,
   gets a job out wherever its body is: in the middle of its sources, between
   announcing a conflict and waiting for the answer, or forsaken there. *)
CancelGetsAJobOut ==
  \A j \in Jobs :
    cancelRequested[j] /\ pc[j] \notin {"none", "pooled"}
      ~> Terminal(j) \/ j \notin listed \/ manager # "alive"

(* Every job comes to an end, by answering the sheets or by cancelling, though
   the answer to a conflict may be thrown away and its sheet taken: see the
   two properties. *)
EveryJobFinishes == AnsweredJobsFinish /\ CancelGetsAJobOut
=============================================================================

----------------------- MODULE RemoteOperationManager -----------------------
(***************************************************************************)
(* The queue of operations on network locations                            *)
(* (src/src/operations/RemoteOperationManager.cpp) and the conflict sheet  *)
(* of the pane that started them (RemotePaneActions.qml).  One operation   *)
(* is active at a time: a chain of asynchronous GIO calls whose callbacks  *)
(* run on the GUI thread or, for a directory, a thread of its own that     *)
(* copies the tree and posts closures.  GIO answers as it likes.           *)
(*                                                                         *)
(* A handler that ends an operation or adds one goes on to startNext; the  *)
(* views are told in between, so startNext is a step of its own (turn),    *)
(* in which no other handler of the GUI thread runs.  A location that was  *)
(* parsed when the job was made resolves again.                            *)
(***************************************************************************)
EXTENDS Naturals, Sequences, FiniteSets

CONSTANTS
  Jobs,         \* the jobs that can be requested
  NoJob,        \* the null m_active, and the sheet that is hidden
  Pieces,       \* the files in a directory that is transferred
  Top,          \* that directory itself
  MaxAttempts,  \* MaxKeepBothAttempts
  Keep          \* pruneFinished's keep

ASSUME NamesAssumption  ==
  NoJob \notin Jobs /\ IsFiniteSet(Jobs) /\ Top \notin Pieces /\ IsFiniteSet(Pieces)
ASSUME LimitsAssumption == MaxAttempts \in Nat \ {0} /\ Keep \in Nat

Kinds    == {"copy", "move", "single"}  \* single: rename, new folder, trash
Finished == {"Completed", "Failed", "Cancelled"}
States   == {"Unknown", "Queued", "Running", "WaitingForConflict"} \cup Finished
Answers  == {"Skip", "KeepBoth", "Replace", "Cancel"}
NoChoice == "none"

VARIABLES
  listed,      \* the jobs in m_jobs, which keeps them in the order of their enqueue
  born,        \* that order: the serial number of a job
  kind,        \* Job::kind
  state,       \* Job::state
  active,      \* m_active: the job of its context
  turn,        \* whether the handler that runs still has to call startNext
  call,        \* the GIO call that is outstanding; "tree" in treeMode
  attempt,     \* keepBothAttempt, 0 unless keepBothMode
  cancelled,   \* the context's cancellable
  conflict,    \* conflictResolved, conflictDecision, persistentDecision
  sheet,       \* the job the pane's conflict sheet shows
  worker,      \* where the tree's thread is; its future is ready at "none"
  item,        \* what it copies: Top or a piece
  left,        \* the children it has not come to yet
  skipped,     \* anySkipped
  result,      \* the state it will post
  source, copy, \* what is in the source and in the copy of the latest tree
  posted,      \* closures of the tree's thread that the GUI thread has to run
  manager      \* alive, in its destructor, or gone

gui    == <<listed, born, state, active, turn, sheet, manager>>
gio    == <<call, attempt>>
thread == <<worker, item, left, skipped, result>>
disk   == <<source, copy>>
vars   == <<gui, gio, thread, disk, kind, cancelled, conflict, posted>>

Terminal(j) == state[j] \in Finished
list        == <<listed, born>>
treeMode    == call = "tree"
Blank       == [resolved |-> FALSE, decision |-> "Skip", persistent |-> NoChoice]
Idle        == manager = "alive" /\ turn = "idle"

RemoteTypeOK ==
  /\ listed \subseteq Jobs /\ born \in [Jobs -> Nat]
  /\ kind \in [Jobs -> Kinds] /\ state \in [Jobs -> States]
  /\ active \in Jobs \cup {NoJob} /\ sheet \in Jobs \cup {NoJob}
  /\ turn \in {"idle", "start"}
  /\ call \in {"none", "type", "transfer", "single", "tree"} /\ attempt \in 0 .. MaxAttempts
  /\ cancelled \in BOOLEAN
  /\ conflict \in [resolved : BOOLEAN, decision : Answers, persistent : Answers \cup {NoChoice}]
  /\ worker \in {"none", "try", "meet", "check", "wait", "next", "cleanup", "delete", "post", "exit"}
  /\ item \in Pieces \cup {Top} /\ left \subseteq Pieces /\ skipped \in BOOLEAN
  /\ result \in Finished
  /\ source \subseteq Pieces /\ copy \subseteq Pieces
  /\ manager \in {"alive", "closing", "gone"}

Init ==
  /\ listed = {} /\ born = [j \in Jobs |-> 0] /\ kind = [j \in Jobs |-> "single"]
  /\ state = [j \in Jobs |-> "Unknown"]
  /\ active = NoJob /\ turn = "idle" /\ sheet = NoJob
  /\ call = "none" /\ attempt = 0 /\ cancelled = FALSE /\ conflict = Blank
  /\ worker = "none" /\ item = Top /\ left = {} /\ skipped = FALSE
  /\ result = "Completed"
  /\ source = Pieces /\ copy = {}
  /\ posted = <<>> /\ manager = "alive"

----------------------------------------------------------------------------
\* Mutant of Pruned: the oldest rows go, finished or not.
PrunedByAge == {j \in listed : Cardinality({k \in listed : born[k] > born[j]}) >= Keep}

(* pruneFinished: the oldest finished rows go until at most Keep remain. *)
Pruned ==
  {j \in listed : Terminal(j) /\ Cardinality({k \in listed : Terminal(k) /\ born[k] > born[j]}) >= Keep}

(* planTransfer, planRemoteItem, planCreateFolder, validLeafName: where the
   two ends of a request may be, and whether its name is one. *)
Places == {"network", "local", "invalid"}

Planned(k, from, to, validName) ==
  IF k = "single" THEN from = "network" /\ validName
                  ELSE "network" \in {from, to} /\ "invalid" \notin {from, to}

(* enqueue: a request without a valid plan is refused. *)
Enqueue(j) ==
  /\ \E k \in Kinds, from, to \in Places, validName \in BOOLEAN :
       Planned(k, from, to, validName) /\ kind' = [kind EXCEPT ![j] = k]
  /\ Idle /\ state[j] = "Unknown"
  /\ listed' = (listed \ Pruned) \cup {j}
  /\ born' = [born EXCEPT ![j] = Cardinality({i \in Jobs : state[i] # "Unknown"}) + 1]
  /\ state' = [state EXCEPT ![j] = "Queued"]
  /\ turn' = "start"
  /\ UNCHANGED <<active, sheet, manager, gio, thread, disk, cancelled, conflict, posted>>

(* startNext and startActive: the first queued job gets a fresh context. *)
Queued == {j \in listed : state[j] = "Queued"}

StartNext ==
  /\ manager = "alive" /\ turn = "start"
  /\ turn' = "idle"
  /\ \/ /\ active # NoJob \/ Queued = {}
        /\ UNCHANGED <<state, active, gio, cancelled, conflict>>
     \/ /\ active = NoJob
        /\ \E j \in Queued :
             /\ \A i \in Queued : born[j] <= born[i]
             /\ active' = j
             /\ state' = [state EXCEPT ![j] = "Running"]
             /\ call' = IF kind[j] = "single" THEN "single" ELSE "type"
        /\ attempt' = 0 /\ cancelled' = FALSE /\ conflict' = Blank
  /\ UNCHANGED <<list, sheet, manager, thread, disk, kind, posted>>

(* finishActive, with the pane's onJobFinished *)
Finish(outcome) ==
  /\ state' = [state EXCEPT ![active] = outcome]
  /\ active' = NoJob
  /\ turn' = "start"
  /\ sheet' = IF sheet = active THEN NoJob ELSE sheet
  /\ call' = "none" /\ attempt' = 0
  /\ cancelled' = FALSE /\ conflict' = Blank
  /\ UNCHANGED <<list, manager, kind>>

\* A call comes back with an error, as cancelled only when it was.
FailedCall == \/ Finish("Failed")
              \/ cancelled /\ Finish("Cancelled")

NotTree == UNCHANGED <<thread, disk, posted>>
SameContext == UNCHANGED <<cancelled, conflict>>

(* renameReady, createFolderReady, trashReady *)
SingleReady ==
  /\ Idle /\ call = "single"
  /\ FailedCall \/ Finish("Completed")
  /\ NotTree

(* startDirectoryTransfer: refused while the last tree's thread has not
   returned, although its result has been posted. *)
StartTree ==
  IF worker # "none"
    THEN Finish("Failed") /\ NotTree
    ELSE /\ worker' = "try" /\ item' = Top
         /\ left' = Pieces /\ skipped' = FALSE
         /\ source' = Pieces /\ copy' = {}
         /\ call' = "tree"
         /\ UNCHANGED <<gui, attempt, kind, posted, result>>
         /\ SameContext

(* transferTypeReady: a special file or a name that cannot be used fails. *)
TypeReady ==
  /\ Idle /\ call = "type"
  /\ \/ FailedCall /\ NotTree
     \/ StartTree
     \/ call' = "transfer" /\ UNCHANGED <<gui, attempt, kind>> /\ SameContext /\ NotTree

(* copyReady, moveReady *)
TransferReady ==
  /\ Idle /\ call = "transfer"
  /\ FailedCall \/ Finish("Completed")
  /\ NotTree

(* handleTransferExists: the next free name is tried up to the limit; the
   first time the user is asked. *)
TransferExists ==
  /\ Idle /\ call = "transfer"
  /\ \/ /\ attempt = 0
        /\ state' = [state EXCEPT ![active] = "WaitingForConflict"]
        /\ sheet' = active /\ call' = "none"
        /\ UNCHANGED <<list, active, turn, manager, attempt, kind>>
        /\ SameContext
     \/ attempt = MaxAttempts /\ Finish("Failed")
     \/ /\ attempt \in 1 .. MaxAttempts - 1
        /\ attempt' = attempt + 1
        /\ UNCHANGED <<gui, call, kind>>
        /\ SameContext
  /\ NotTree

(* The callback of a call whose manager has gone frees its context. *)
OrphanReady ==
  /\ manager = "gone" /\ call # "none"
  /\ call' = "none"
  /\ UNCHANGED <<gui, attempt, kind, thread, disk, cancelled, conflict, posted>>

GioReady == SingleReady \/ TypeReady \/ TransferReady \/ TransferExists \/ OrphanReady

----------------------------------------------------------------------------
Tell(decision) == [conflict EXCEPT !.decision = decision, !.resolved = TRUE]

\* Mutant of Cancel: a tree ends at once, as every other job does.
CancelTreeAtOnce(j) ==
  /\ Idle /\ j \in listed /\ active = j
  /\ Finish("Cancelled")
  /\ UNCHANGED <<thread, disk, posted>>

(* cancel: a tree is told to stop, a job waiting for an answer ends, a call
   is cancelled, a queued job ends without having run. *)
Cancel(j) ==
  /\ Idle /\ j \in listed /\ ~Terminal(j)
  /\ \/ /\ active = j /\ treeMode
        /\ cancelled' = TRUE /\ conflict' = Tell("Cancel")
        /\ UNCHANGED <<gui, gio, kind>>
     \/ /\ active = j /\ ~treeMode /\ state[j] = "WaitingForConflict"
        /\ Finish("Cancelled")
     \/ /\ active = j /\ ~treeMode /\ call # "none"
        /\ cancelled' = TRUE
        /\ UNCHANGED <<gui, gio, kind, conflict>>
     \/ /\ state[j] = "Queued"
        /\ state' = [state EXCEPT ![j] = "Cancelled"]
        /\ UNCHANGED <<list, active, turn, sheet, manager, gio, kind, cancelled, conflict>>
  /\ UNCHANGED <<thread, disk, posted>>

(* resolveConflict: Replace is refused, which ends the job. *)
Resolve(j, decision, all) ==
  /\ active = j /\ j \in listed /\ state[j] = "WaitingForConflict"
  /\ IF treeMode
       THEN /\ conflict' = [Tell(IF decision = "Replace" THEN "Cancel" ELSE decision) EXCEPT
                              !.persistent = IF all /\ decision \in {"Skip", "KeepBoth"}
                                               THEN decision ELSE @]
            /\ sheet' = NoJob
            /\ UNCHANGED <<list, state, active, turn, manager, gio, kind, cancelled>>
       ELSE \/ decision = "Replace" /\ Finish("Failed")
            \/ decision = "Cancel"  /\ Finish("Cancelled")
            \/ decision = "Skip"    /\ Finish("Completed")
            \/ /\ decision = "KeepBoth"
               /\ state' = [state EXCEPT ![j] = "Running"]
               /\ attempt' = 1 /\ call' = "transfer" /\ sheet' = NoJob
               /\ UNCHANGED <<list, active, turn, manager, kind>>
               /\ SameContext
  /\ UNCHANGED <<thread, disk, posted>>

(* The sheet's onChoose: it hides whatever becomes of the answer. *)
Choose(decision, all) ==
  /\ Idle /\ sheet # NoJob
  /\ \/ Resolve(sheet, decision, all)
     \/ /\ active # sheet \/ state[sheet] # "WaitingForConflict"
        /\ sheet' = NoJob
        /\ UNCHANGED <<list, state, active, turn, manager, gio, thread, disk, kind,
                       cancelled, conflict, posted>>

(* dismiss of one finished row, clearFinished of all *)
Dismiss ==
  /\ Idle
  /\ LET ended == {j \in listed : Terminal(j)} IN
       \E gone \in {{j} : j \in ended} \cup {ended} : gone # {} /\ listed' = listed \ gone
  /\ UNCHANGED <<born, state, active, turn, sheet, manager, gio, thread, disk, kind,
                 cancelled, conflict, posted>>

\* Mutant of BeginDestroy: a thread waiting for an answer is not woken.
BeginDestroySilently ==
  /\ Idle
  /\ manager' = "closing" /\ sheet' = NoJob
  /\ cancelled' = (active # NoJob)
  /\ UNCHANGED <<list, state, active, turn, gio, thread, disk, kind, posted, conflict>>

(* The destructor cancels the active job, and for a tree waits until its
   thread has returned; nothing it has posted will run. *)
BeginDestroy ==
  /\ Idle
  /\ manager' = "closing" /\ sheet' = NoJob
  /\ IF active = NoJob
       THEN UNCHANGED <<cancelled, conflict>>
       ELSE cancelled' = TRUE /\ conflict' = IF treeMode THEN Tell("Cancel") ELSE conflict
  /\ UNCHANGED <<list, state, active, turn, gio, thread, disk, kind, posted>>

EndDestroy ==
  /\ manager = "closing" /\ (treeMode => worker = "none")
  /\ manager' = "gone" /\ active' = NoJob /\ posted' = <<>>
  /\ call' = IF treeMode THEN "none" ELSE call
  /\ UNCHANGED <<list, state, turn, sheet, attempt, thread, disk, kind, cancelled, conflict>>

----------------------------------------------------------------------------
\* The tree's thread: what every step of it leaves alone.
Private == UNCHANGED <<gui, gio, kind>>
Goto(place) == worker' = place
Post(op) == posted' = Append(posted, [op |-> op, job |-> active, arg |-> result])

Stopping == manager # "alive"

(* The loop of createDirectoryWithConflicts and of copyLeafWithConflicts:
   the copy is made, is in the way of something, or fails. *)
TryCopy ==
  /\ worker = "try"
  /\ \/ /\ ~cancelled /\ ~Stopping
        /\ copy' = copy \cup ({item} \ {Top})
        /\ Goto("next")
     \/ ~cancelled /\ ~Stopping /\ Goto("meet") /\ UNCHANGED copy
     \/ Goto("cleanup") /\ UNCHANGED copy
  /\ UNCHANGED <<item, left, skipped, result, source, cancelled, conflict, posted>>
  /\ Private

(* The thread's verdict once the tree has been copied: a move goes on to
   remove the source, or fails when something was skipped. *)
AfterCopy(anySkipped) ==
  LET move == kind[active] = "move" IN
    /\ Goto(IF move /\ ~anySkipped THEN "delete" ELSE "post")
    /\ result' = IF move /\ anySkipped THEN "Failed" ELSE "Completed"

(* What a decision means for the item: an item that is skipped counts as
   done; Keep Both tries other names until one is free or the limit reached;
   a cancellation stops the whole tree. *)
Follow(decision) ==
  /\ \/ /\ decision = "Skip"
        /\ skipped' = TRUE
        /\ IF item = Top THEN AfterCopy(TRUE) ELSE Goto("next") /\ UNCHANGED result
        /\ UNCHANGED <<copy, cancelled>>
     \/ /\ decision = "KeepBoth"
        /\ Goto("next")
        /\ copy' = copy \cup ({item} \ {Top})
        /\ UNCHANGED <<skipped, cancelled, result>>
     \/ /\ Goto("cleanup")
        /\ \/ decision = "KeepBoth" /\ UNCHANGED cancelled
           \/ decision = "Cancel" /\ cancelled' = TRUE
        /\ UNCHANGED <<copy, skipped, result>>
  /\ UNCHANGED <<item, left, source>>
  /\ Private

(* waitForTreeConflict: an answer for all is used again; otherwise the last
   answer is cleared before the conflict is announced. *)
MeetConflict ==
  /\ worker = "meet"
  /\ \/ /\ conflict.persistent # NoChoice
        /\ Follow(conflict.persistent)
        /\ UNCHANGED <<conflict, posted>>
     \/ /\ conflict.persistent = NoChoice
        /\ conflict' = [conflict EXCEPT !.resolved = FALSE, !.decision = "Skip"]
        /\ Goto("check") /\ Post("raise")
        /\ UNCHANGED <<item, left, skipped, result, disk, cancelled>>
        /\ Private

(* The wait itself: nothing to wait for when the answer is there or the job
   has been cancelled; otherwise the thread sleeps until it is woken, which
   whoever wakes it does by setting conflictResolved. *)
FallAsleep ==
  /\ worker = "check" /\ ~conflict.resolved /\ ~Stopping /\ ~cancelled
  /\ Goto("wait")
  /\ UNCHANGED <<item, left, skipped, result, disk, cancelled, conflict, posted>>
  /\ Private

Wake ==
  /\ \/ worker = "check" /\ (conflict.resolved \/ Stopping \/ cancelled)
     \/ worker = "wait" /\ conflict.resolved
  /\ conflict' = [conflict EXCEPT !.resolved = FALSE]
  /\ LET decision == IF Stopping \/ cancelled THEN "Cancel" ELSE conflict.decision IN
       /\ Follow(decision)
       /\ IF decision = "Cancel" THEN UNCHANGED posted ELSE Post("resume")

\* Mutant of NextChild: the source is removed although a child was skipped.
NextChildForgetful ==
  /\ worker = "next"
  /\ \/ /\ \E child \in left : item' = child /\ left' = left \ {child} /\ Goto("try")
        /\ UNCHANGED <<skipped, result>>
     \/ /\ left = {}
        /\ Goto(IF kind[active] = "move" THEN "delete" ELSE "post")
        /\ UNCHANGED <<item, left, skipped, result>>
  /\ UNCHANGED <<disk, cancelled, conflict, posted>>
  /\ Private

(* copyDirectoryTree's loop over the children and the thread's verdict: a
   loop that a cancellation ends between two children ends like one that has
   seen them all. *)
NextChild ==
  /\ worker = "next"
  /\ \/ /\ ~cancelled
        /\ \E child \in left : item' = child /\ left' = left \ {child} /\ Goto("try")
        /\ UNCHANGED <<skipped, result>>
     \/ Goto("cleanup") /\ UNCHANGED <<item, left, skipped, result>>
     \/ /\ cancelled \/ left = {}
        /\ AfterCopy(skipped)
        /\ UNCHANGED <<item, left, skipped>>
  /\ UNCHANGED <<disk, cancelled, conflict, posted>>
  /\ Private

(* A tree that could not be copied: deleteTree removes the copy as far as it
   gets, unless the job is cancelled, which leaves what has been copied. *)
CleanUp ==
  /\ worker = "cleanup"
  /\ Goto("post")
  /\ IF cancelled THEN copy' = copy ELSE copy' \in SUBSET copy
  /\ result' = IF cancelled THEN "Cancelled" ELSE "Failed"
  /\ UNCHANGED <<item, left, skipped, source, cancelled, conflict, posted>>
  /\ Private

(* deleteTree on the source of a move *)
DeleteSource ==
  /\ worker = "delete"
  /\ \/ /\ ~cancelled
        /\ \E piece \in source : source' = source \ {piece}
        /\ UNCHANGED <<worker, result>>
     \/ ~cancelled /\ source = {} /\ Goto("post") /\ result' = "Completed" /\ UNCHANGED source
     \/ Goto("post") /\ UNCHANGED source
        /\ result' = IF cancelled THEN "Cancelled" ELSE "Failed"
  /\ UNCHANGED <<item, left, skipped, copy, cancelled, conflict, posted>>
  /\ Private

PostResult ==
  /\ worker = "post"
  /\ Goto("exit")
  /\ IF Stopping THEN UNCHANGED posted ELSE Post("finish")
  /\ UNCHANGED <<item, left, skipped, result, disk, cancelled, conflict>>
  /\ Private

ThreadReturns ==
  /\ worker = "exit"
  /\ Goto("none")
  /\ item' = Top /\ left' = {} /\ result' = "Completed"
  /\ UNCHANGED <<skipped, disk, cancelled, conflict, posted>>
  /\ Private

Worker == TryCopy \/ MeetConflict \/ FallAsleep \/ Wake \/ NextChild \/ CleanUp \/ DeleteSource
            \/ PostResult \/ ThreadReturns

(* The closures of the thread, run by the GUI thread in their order. *)
RunClosure(op) ==
  /\ Idle /\ posted # <<>> /\ Head(posted).op = op
  /\ posted' = Tail(posted)

RunRaise ==
  /\ RunClosure("raise")
  /\ state' = [state EXCEPT ![Head(posted).job] = "WaitingForConflict"]
  /\ sheet' = Head(posted).job
  /\ UNCHANGED <<list, active, turn, manager, gio, kind, thread, disk>>
  /\ SameContext

RunResume ==
  /\ RunClosure("resume")
  /\ state' = [state EXCEPT ![Head(posted).job] = "Running"]
  /\ UNCHANGED <<list, active, turn, sheet, manager, gio, kind, thread, disk>>
  /\ SameContext

(* The files of a tree that has ended are of no further interest. *)
RunFinish ==
  /\ RunClosure("finish")
  /\ IF active = Head(posted).job THEN Finish(Head(posted).arg)
       ELSE UNCHANGED <<gui, gio, kind>> /\ SameContext
  /\ source' = Pieces /\ copy' = {} /\ skipped' = FALSE
  /\ UNCHANGED <<worker, item, left, result>>

Loop == StartNext \/ RunRaise \/ RunResume \/ RunFinish

\* Nothing is left to do once the manager has gone.
Stopped == manager = "gone" /\ call = "none" /\ UNCHANGED vars

Next ==
  \/ \E j \in Jobs : Enqueue(j) \/ Cancel(j)
  \/ \E d \in Answers, all \in BOOLEAN : Choose(d, all)
  \/ Dismiss \/ BeginDestroy \/ EndDestroy
  \/ Loop \/ GioReady \/ Worker \/ Stopped

(* The GUI thread, the tree's thread and the destructor go on, GIO answers
   every call in the end, and the user answers a conflict that is shown. *)
Fairness ==
  /\ WF_vars(Loop) /\ WF_vars(GioReady) /\ WF_vars(Worker) /\ WF_vars(EndDestroy)
  /\ WF_vars(\E d \in Answers : Choose(d, FALSE))

FairSpec == Init /\ [][Next]_vars /\ Fairness

----------------------------------------------------------------------------
(* A row says Running or WaitingForConflict exactly as long as its job is the
   active one, although the thread of a tree changes rows through closures
   that run later: no late closure brings an ended job back to life. *)
OnlyTheActiveJobRuns ==
  manager # "gone" =>
    \A j \in Jobs : j = active <=> state[j] \in {"Running", "WaitingForConflict"}

(* A directory that is moved to or from a network location is never lost in
   part: each of its files is in the source or in the copy, whatever fails,
   is skipped or cancelled between the copying and the removal. *)
TreeMoveKeepsData == source \cup copy = Pieces

(* Both: one job works at a time, and what it works on is not lost. *)
RemoteWorkIsSafe == RemoteTypeOK /\ OnlyTheActiveJobRuns /\ TreeMoveKeepsData

(* What the list promises to the views: see JobBoard. *)
Board == INSTANCE JobBoard WITH rows <- listed, status <- state, Withdrawable <- TRUE
RemoteRefinesJobBoard == Board!Spec

(* Every job ends or goes with its manager: no answer is lost between a
   conflict and the thread that waits for it, the queue goes on after each
   end, and the destructor returns although it blocks the only thread that
   could answer a conflict of the tree it waits for. *)
EveryRemoteJobFinishes ==
  \A j \in Jobs : state[j] # "Unknown" ~> (Terminal(j) \/ manager = "gone")

(* A directory whose copy is reported as completed has been copied, but for
   what the user chose to skip. *)
CompletedTreeIsWhole ==
  [][RunFinish /\ Head(posted).arg = "Completed" /\ ~skipped => copy = Pieces]_vars
=============================================================================

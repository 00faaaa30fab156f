------------------------- MODULE OperationManager -------------------------
(***************************************************************************)
(* src/src/operations/OperationManager: the queue of local file jobs.      *)
(*                                                                         *)
(* Two kinds of threads touch a job.  The GUI thread owns the list of rows *)
(* (m_jobs) and everything a view reads from a row; a thread of Qt's       *)
(* global pool runs the job's body.  The worker never writes a row: it     *)
(* posts closures (QMetaObject::invokeMethod, Qt::QueuedConnection) that   *)
(* the GUI thread runs later, in the order they were posted.  In the other *)
(* direction the GUI thread reaches a worker through cancelRequested and,  *)
(* while the worker is blocked on a conflict, through a mutex-protected    *)
(* answer.                                                                 *)
(*                                                                         *)
(* What the file system answers is a nondeterministic choice here; module  *)
(* FileTransfer has the file system steps of one source.                   *)
(***************************************************************************)
EXTENDS Naturals, Sequences, FiniteSets

CONSTANTS
  Jobs,      \* the jobs that can be requested (each job id is a fresh UUID)
  MaxItems,  \* bound on the sources of one request
  Kinds,     \* the kinds of request made, a subset of AllKinds
  Answers,   \* the answers given to conflicts, a subset of Decisions
  Keep,      \* pruneFinishedJobs' keep (32 in the code)
  PoolSize   \* QThreadPool::globalInstance()->maxThreadCount()

AllKinds  == {"transfer", "createFolder", "delete", "archive"}
Decisions == {"Skip", "KeepBoth", "Replace", "Cancel"}

ASSUME JobsAssumption == IsFiniteSet(Jobs)
ASSUME KindsAssumption == Kinds \subseteq AllKinds /\ Answers \subseteq Decisions
ASSUME BoundsAssumption ==
  /\ MaxItems \in Nat \ {0}
  /\ Keep \in Nat
  /\ PoolSize \in Nat \ {0}

VARIABLES
  \* the GUI thread's side
  listed,     \* the jobs with a row in m_jobs
  born,       \* the order of the rows: born[j] is the serial number of j's row
  state,      \* Job::state
  shown,      \* Job::conflictSource/Destination: the item in conflict, 0 if clear
  completed,  \* Job::completedItems
  posted,     \* closures posted to the GUI thread and not yet run
  manager,    \* "alive", then "closing" inside the destructor, then "gone"
  \* shared with the worker
  cancelRequested, resolved, answer, persistent,
  \* the worker's side
  kind, total,  \* what was requested: constant once the job is started
  pc,           \* where the worker is
  item,         \* the index of the source it works on
  choice        \* what waitForConflict returned for it

gui    == <<listed, born, state, shown, completed>>
shared == <<cancelRequested, resolved, answer, persistent>>
request == <<kind, total>>
worker == <<pc, item, choice>>
vars   == <<gui, posted, manager, shared, request, worker>>

----------------------------------------------------------------------------
NoChoice  == "none"
Finished  == {"Completed", "Failed", "Cancelled"}
States    == {"Queued", "Running", "WaitingForConflict"} \cup Finished

\* A worker at one of these places has not entered, or has left, its body.
Inactive == {"none", "pooled", "exited"}
Busy     == {"begin", "item", "create", "engine", "conflict", "arm", "wait",
             "decided", "transfer"}

Serial == 0 .. Cardinality(Jobs)

(* OperationManager::terminal *)
Terminal(j) == state[j] \in Finished

(* A closure of updateJob, finishJob or waitForConflict for job j. *)
Closure(j, op, arg) == [job |-> j, op |-> op, arg |-> arg]
Closures ==
  [job : Jobs, op : {"running"}, arg : {0}]
  \cup [job : Jobs, op : {"step"}, arg : {0}]
  \cup [job : Jobs, op : {"waiting", "raise"}, arg : 1 .. MaxItems]
  \cup [job : Jobs, op : {"finish"}, arg : Finished]

Post(j, op, arg) == posted' = Append(posted, Closure(j, op, arg))

TypeOK ==
  /\ listed \subseteq Jobs
  /\ born \in [Jobs -> Serial]
  /\ state \in [Jobs -> States]
  /\ shown \in [Jobs -> 0 .. MaxItems]
  /\ completed \in [Jobs -> Nat]
  /\ posted \in Seq(Closures)
  /\ manager \in {"alive", "closing", "gone"}
  /\ cancelRequested \in [Jobs -> BOOLEAN]
  /\ resolved \in [Jobs -> BOOLEAN]
  /\ answer \in [Jobs -> Decisions]
  /\ persistent \in [Jobs -> (Decisions \ {"Cancel"}) \cup {NoChoice}]
  /\ kind \in [Jobs -> AllKinds]
  /\ total \in [Jobs -> 0 .. MaxItems]
  /\ pc \in [Jobs -> Inactive \cup Busy]
  /\ item \in [Jobs -> 1 .. MaxItems + 1]
  /\ choice \in [Jobs -> Decisions \cup {NoChoice}]

Init ==
  /\ listed = {}
  /\ born = [j \in Jobs |-> 0]
  /\ state = [j \in Jobs |-> "Queued"]
  /\ shown = [j \in Jobs |-> 0]
  /\ completed = [j \in Jobs |-> 0]
  /\ posted = <<>>
  /\ manager = "alive"
  /\ cancelRequested = [j \in Jobs |-> FALSE]
  /\ resolved = [j \in Jobs |-> FALSE]
  /\ answer = [j \in Jobs |-> "Skip"]
  /\ persistent = [j \in Jobs |-> NoChoice]
  /\ kind = [j \in Jobs |-> "transfer"]
  /\ total = [j \in Jobs |-> 0]
  /\ pc = [j \in Jobs |-> "none"]
  /\ item = [j \in Jobs |-> 1]
  /\ choice = [j \in Jobs |-> NoChoice]

----------------------------------------------------------------------------
(* The GUI thread: calls from the views.                                   *)

\* Mutant of Pruned: rows of unfinished jobs are pruned as well.
PrunedByAge ==
  {j \in listed : Cardinality({k \in listed : born[k] > born[j]}) >= Keep}

(* pruneFinishedJobs removes the oldest finished rows until Keep of them
   are left: a finished row goes iff Keep finished rows are younger. *)
Pruned ==
  {j \in listed : /\ Terminal(j)
                  /\ Cardinality({k \in listed : Terminal(k) /\ born[k] > born[j]})
                       >= Keep}

(* startJob, startCreateFolderJob, removePermanently, startExtractionJob and
   startArchiveCreationJob, for a request that passed their validation. *)
Start(j, k, n) ==
  /\ manager = "alive"
  /\ pc[j] = "none"
  /\ n \in CASE k = "createFolder" -> {1}
             [] k = "archive"      -> {0}
             [] OTHER              -> 1 .. MaxItems
  /\ listed' = (listed \ Pruned) \cup {j}
  /\ born' = [born EXCEPT ![j] = Cardinality({i \in Jobs : pc[i] # "none"}) + 1]
  /\ kind' = [kind EXCEPT ![j] = k]
  /\ total' = [total EXCEPT ![j] = n]
  /\ pc' = [pc EXCEPT ![j] = "pooled"]
  /\ UNCHANGED <<state, shown, completed, posted, manager, shared, item, choice>>

\* Mutant of Cancel: the row says Cancelled before the worker has stopped.
CancelAtOnce(j) ==
  /\ manager = "alive"
  /\ j \in listed
  /\ cancelRequested' = [cancelRequested EXCEPT ![j] = TRUE]
  /\ answer' = [answer EXCEPT ![j] = "Cancel"]
  /\ resolved' = [resolved EXCEPT ![j] = TRUE]
  /\ state' = [state EXCEPT ![j] = "Cancelled"]
  /\ UNCHANGED <<listed, born, shown, completed, posted, manager, persistent, request,
                 worker>>

(* cancel: the store and the locked section are one step, since the worker
   tests cancelRequested before it looks at the answer. *)
Cancel(j) ==
  /\ manager = "alive"
  /\ j \in listed
  /\ cancelRequested' = [cancelRequested EXCEPT ![j] = TRUE]
  /\ answer' = [answer EXCEPT ![j] = "Cancel"]
  /\ resolved' = [resolved EXCEPT ![j] = TRUE]
  /\ UNCHANGED <<gui, posted, manager, persistent, request, worker>>

(* resolveConflict for a decision in its valid range. *)
Resolve(j, decision, applyToAll) ==
  /\ manager = "alive"
  /\ j \in listed
  /\ state[j] = "WaitingForConflict"
  /\ answer' = [answer EXCEPT ![j] = decision]
  /\ persistent' = IF applyToAll /\ decision # "Cancel"
                     THEN [persistent EXCEPT ![j] = decision]
                     ELSE persistent
  /\ resolved' = [resolved EXCEPT ![j] = TRUE]
  /\ UNCHANGED <<gui, posted, manager, cancelRequested, request, worker>>

(* dismiss *)
Dismiss(j) ==
  /\ manager = "alive"
  /\ j \in listed
  /\ Terminal(j)
  /\ listed' = listed \ {j}
  /\ UNCHANGED <<born, state, shown, completed, posted, manager, shared, request,
                 worker>>

(* clearFinished *)
ClearFinished ==
  /\ manager = "alive"
  /\ listed' = {j \in listed : ~Terminal(j)}
  /\ UNCHANGED <<born, state, shown, completed, posted, manager, shared, request,
                 worker>>

\* Mutant of BeginDestroy: workers are woken, but not told to stop.
BeginDestroyByAnswer ==
  /\ manager = "alive"
  /\ manager' = "closing"
  /\ answer' = [j \in Jobs |-> IF j \in listed THEN "Cancel" ELSE answer[j]]
  /\ resolved' = [j \in Jobs |-> resolved[j] \/ j \in listed]
  /\ UNCHANGED <<gui, posted, cancelRequested, persistent, request, worker>>

(* ~OperationManager, first loop: every listed job is cancelled and woken.
   From here to "gone" the GUI thread is inside waitForFinished. *)
BeginDestroy ==
  /\ manager = "alive"
  /\ manager' = "closing"
  /\ cancelRequested' = [j \in Jobs |-> cancelRequested[j] \/ j \in listed]
  /\ answer' = [j \in Jobs |-> IF j \in listed THEN "Cancel" ELSE answer[j]]
  /\ resolved' = [j \in Jobs |-> resolved[j] \/ j \in listed]
  /\ UNCHANGED <<gui, posted, persistent, request, worker>>

\* Mutant of EndDestroy: jobs no thread has picked up are not waited for.
EndDestroyWhileQueued ==
  /\ manager = "closing"
  /\ \A j \in listed : pc[j] \in {"pooled", "exited"}
  /\ manager' = "gone"
  /\ posted' = <<>>
  /\ UNCHANGED <<gui, shared, request, worker>>

(* ~OperationManager, second loop: it returns when every listed job's future
   has finished; QObject's destructor then drops the posted closures. *)
EndDestroy ==
  /\ manager = "closing"
  /\ \A j \in listed : pc[j] = "exited"
  /\ manager' = "gone"
  /\ posted' = <<>>
  /\ UNCHANGED <<gui, shared, request, worker>>

----------------------------------------------------------------------------
(* The GUI thread: its event loop runs the oldest posted closure.  A        *)
(* closure whose job lost its row does nothing.                             *)

RunClosure(op) ==
  /\ manager = "alive"
  /\ posted # <<>>
  /\ Head(posted).op = op
  /\ posted' = Tail(posted)
  /\ UNCHANGED <<listed, born, manager, shared, request, worker>>

(* f with job c.job's value replaced, if the job still has its row *)
InRow(f, c, value) == IF c.job \in listed THEN [f EXCEPT ![c.job] = value] ELSE f

\* Mutant of RunRunning: the conflict stays on display.
RunRunningKeepingConflict ==
  /\ RunClosure("running")
  /\ state' = InRow(state, Head(posted), "Running")
  /\ UNCHANGED <<shown, completed>>

RunRunning ==
  /\ RunClosure("running")
  /\ state' = InRow(state, Head(posted), "Running")
  /\ shown' = InRow(shown, Head(posted), 0)
  /\ UNCHANGED completed

\* Mutant of RunWaiting: the row offers the conflict without saying it waits.
RunWaitingSilently ==
  /\ RunClosure("waiting")
  /\ shown' = InRow(shown, Head(posted), Head(posted).arg)
  /\ UNCHANGED <<state, completed>>

RunWaiting ==
  /\ RunClosure("waiting")
  /\ state' = InRow(state, Head(posted), "WaitingForConflict")
  /\ shown' = InRow(shown, Head(posted), Head(posted).arg)
  /\ UNCHANGED completed

RunStep ==
  /\ RunClosure("step")
  /\ completed' = InRow(completed, Head(posted), completed[Head(posted).job] + 1)
  /\ UNCHANGED <<state, shown>>

(* finishJob's closure, which also emits jobFinished. *)
RunFinish ==
  /\ RunClosure("finish")
  /\ state' = InRow(state, Head(posted), Head(posted).arg)
  /\ shown' = InRow(shown, Head(posted), 0)
  /\ UNCHANGED completed

(* The closure that emits conflictRaised. *)
RunRaise ==
  /\ RunClosure("raise")
  /\ UNCHANGED <<state, shown, completed>>

----------------------------------------------------------------------------
(* The pool thread that runs job j.                                         *)

Goto(j, place) == pc' = [pc EXCEPT ![j] = place]

(* A worker step that leaves the GUI thread's and the shared state alone. *)
WorkerOnly == UNCHANGED <<gui, manager, shared, request>>

(* The body's last statement: finishJob(job, result), then return. *)
Leave(j, result) ==
  /\ Post(j, "finish", result)
  /\ Goto(j, "exited")
  /\ UNCHANGED <<item, choice>>

(* The end of an iteration: ++completedItems is posted. *)
NextSource(j) ==
  /\ Post(j, "step", 0)
  /\ Goto(j, "item")
  /\ item' = [item EXCEPT ![j] = @ + 1]
  /\ choice' = [choice EXCEPT ![j] = NoChoice]

(* The pool starts the oldest waiting job on a free thread, which posts
   state = Running and enters the body of its kind. *)
Begin(j) ==
  /\ pc[j] = "pooled"
  /\ \A k \in Jobs : pc[k] = "pooled" => born[j] <= born[k]
  /\ Cardinality({k \in Jobs : pc[k] \in Busy}) < PoolSize
  /\ Post(j, "running", 0)
  /\ Goto(j, CASE kind[j] = "createFolder" -> "create"
               [] kind[j] = "archive"      -> "engine"
               [] OTHER                    -> "item")
  /\ UNCHANGED <<item, choice>>
  /\ WorkerOnly

(* The head of the loops over the sources: leave it at the end or when the
   job has been cancelled. *)
EndItems(j) ==
  /\ pc[j] = "item"
  /\ \/ item[j] > total[j] /\ Leave(j, "Completed")
     \/ item[j] <= total[j] /\ cancelRequested[j] /\ Leave(j, "Cancelled")
  /\ WorkerOnly

(* removePermanently's loop body: removePath succeeds or fails. *)
DeleteItem(j) ==
  /\ pc[j] = "item" /\ kind[j] = "delete"
  /\ item[j] <= total[j] /\ ~cancelRequested[j]
  /\ NextSource(j) \/ Leave(j, "Failed")
  /\ WorkerOnly

(* runJob's loop body up to the conflict test.  Depending on the paths: the
   source is its own target and is skipped; the target lies inside the
   source, or no unique name is free; the target is free; it is taken. *)
InspectItem(j) ==
  /\ pc[j] = "item" /\ kind[j] = "transfer"
  /\ item[j] <= total[j] /\ ~cancelRequested[j]
  /\ \/ NextSource(j)
     \/ Leave(j, "Failed")
     \/ \E place \in {"transfer", "conflict"} :
          Goto(j, place) /\ UNCHANGED <<posted, item, choice>>
  /\ WorkerOnly

(* waitForConflict with an answer that applies to all conflicts. *)
ReuseAnswer(j) ==
  /\ persistent[j] # NoChoice
  /\ choice' = [choice EXCEPT ![j] = persistent[j]]
  /\ Goto(j, "decided")
  /\ UNCHANGED <<posted, item>>
  /\ WorkerOnly

(* waitForConflict: the mutex is released, the conflict is announced to the
   GUI thread ... *)
Announce(j) ==
  /\ persistent[j] = NoChoice
  /\ posted' = Append(Append(posted, Closure(j, "waiting", item[j])),
                      Closure(j, "raise", item[j]))
  /\ Goto(j, "arm")
  /\ UNCHANGED <<item, choice>>
  /\ WorkerOnly

MeetConflict(j) ==
  /\ pc[j] = "conflict"
  /\ ReuseAnswer(j) \/ Announce(j)

(* ... and only then is the mutex taken again and conflictResolved reset. *)
Arm(j) ==
  /\ pc[j] = "arm"
  /\ resolved' = [resolved EXCEPT ![j] = FALSE]
  /\ Goto(j, "wait")
  /\ UNCHANGED <<gui, posted, manager, cancelRequested, answer, persistent, request,
                 item, choice>>

\* Mutant of WakeCancelled: the waiting loop looks only for an answer.
WakeCancelledByAnswer(j) ==
  /\ pc[j] = "wait"
  /\ cancelRequested[j] /\ resolved[j]
  /\ choice' = [choice EXCEPT ![j] = "Cancel"]
  /\ Goto(j, "decided")
  /\ UNCHANGED <<posted, item>>
  /\ WorkerOnly

(* The wait ends: cancelRequested wins over any answer. *)
WakeCancelled(j) ==
  /\ pc[j] = "wait"
  /\ cancelRequested[j]
  /\ choice' = [choice EXCEPT ![j] = "Cancel"]
  /\ Goto(j, "decided")
  /\ UNCHANGED <<posted, item>>
  /\ WorkerOnly

WakeAnswered(j) ==
  /\ pc[j] = "wait"
  /\ resolved[j] /\ ~cancelRequested[j]
  /\ choice' = [choice EXCEPT ![j] = answer[j]]
  /\ resolved' = [resolved EXCEPT ![j] = FALSE]
  /\ Post(j, "running", 0)
  /\ Goto(j, "decided")
  /\ UNCHANGED <<gui, manager, cancelRequested, answer, persistent, request, item>>

(* runJob after the decision.  KeepBoth fails when no name is free, Replace
   when the target cannot be set aside as a backup. *)
Decide(j) ==
  /\ pc[j] = "decided"
  /\ \/ choice[j] = "Cancel" /\ Leave(j, "Cancelled")
     \/ choice[j] = "Skip" /\ NextSource(j)
     \/ choice[j] \in {"KeepBoth", "Replace"} /\ Leave(j, "Failed")
     \/ /\ choice[j] \in {"KeepBoth", "Replace"}
        /\ Goto(j, "transfer")
        /\ UNCHANGED <<posted, item, choice>>
  /\ WorkerOnly

(* copyPath or movePath, with the rollback and the backup's removal.  A
   failed transfer reports Cancelled when cancel was requested meanwhile; a
   backup that cannot be removed reports Failed. *)
Transfer(j) ==
  /\ pc[j] = "transfer"
  /\ \/ NextSource(j)
     \/ Leave(j, IF cancelRequested[j] THEN "Cancelled" ELSE "Failed")
     \/ choice[j] = "Replace" /\ Leave(j, "Failed")
  /\ WorkerOnly

\* Mutant of CreateFolder: the new folder is not counted.
CreateFolderUncounted(j) ==
  /\ pc[j] = "create"
  /\ \/ cancelRequested[j] /\ Leave(j, "Cancelled")
     \/ ~cancelRequested[j] /\ (Leave(j, "Failed") \/ Leave(j, "Completed"))
  /\ WorkerOnly

(* runJob for CreateFolderOperation: cancelled, refused, or made. *)
CreateFolder(j) ==
  /\ pc[j] = "create"
  /\ \/ cancelRequested[j] /\ Leave(j, "Cancelled")
     \/ ~cancelRequested[j] /\ Leave(j, "Failed")
     \/ /\ ~cancelRequested[j]
        /\ posted' = Append(Append(posted, Closure(j, "step", 0)),
                            Closure(j, "finish", "Completed"))
        /\ Goto(j, "exited")
        /\ UNCHANGED <<item, choice>>
  /\ WorkerOnly

(* ArchiveExtractor::extract or ArchiveCreator::create and the switch on its
   status; only a cancelled job's engine reports Cancelled. *)
RunEngine(j) ==
  /\ pc[j] = "engine"
  /\ \/ \E result \in {"Completed", "Failed"} : Leave(j, result)
     \/ cancelRequested[j] /\ Leave(j, "Cancelled")
  /\ WorkerOnly

----------------------------------------------------------------------------
Worker(j) ==
  \/ Begin(j) \/ EndItems(j) \/ DeleteItem(j) \/ InspectItem(j)
  \/ MeetConflict(j) \/ Arm(j)
  \/ WakeCancelled(j) \/ WakeAnswered(j) \/ Decide(j) \/ Transfer(j)
  \/ CreateFolder(j) \/ RunEngine(j)

Loop == RunRunning \/ RunWaiting \/ RunStep \/ RunFinish \/ RunRaise

Caller(j) ==
  \/ \E k \in Kinds, n \in 0 .. MaxItems : Start(j, k, n)
  \/ Cancel(j)
  \/ \E d \in Answers, all \in BOOLEAN : Resolve(j, d, all)
  \/ Dismiss(j)

Destroy == BeginDestroy \/ EndDestroy

\* Nothing is left to do once the manager is gone and its workers are done.
Stopped ==
  /\ manager = "gone"
  /\ \A j \in Jobs : pc[j] \in {"none", "exited"}
  /\ UNCHANGED vars

Next ==
  \/ \E j \in Jobs : Worker(j) \/ Caller(j)
  \/ Loop
  \/ ClearFinished
  \/ Destroy
  \/ Stopped

Spec == Init /\ [][Next]_vars

----------------------------------------------------------------------------
(* A job whose body has been handed to the pool and has not returned still
   has its row.  The destructor waits for listed jobs only, and a closure of
   an unlisted job is dropped, so a row that went early would leave a thread
   using a destroyed manager and lose the job's outcome. *)
LiveJobIsListed == \A j \in Jobs : pc[j] \notin {"none", "exited"} => j \in listed

(* Once the destructor has returned, no thread runs a body that captured the
   manager's address, nor will the pool start one. *)
NoWorkerOutlivesManager ==
  manager = "gone" => \A j \in Jobs : pc[j] \in {"none", "exited"}

(* The progress a row shows never overtakes the request, and a row that says
   Completed has counted every source, on every path through the loop. *)
ProgressIsTruthful ==
  \A j \in Jobs : /\ total[j] > 0 => completed[j] <= total[j]
                  /\ state[j] = "Completed" => completed[j] = total[j]

(* A row offers a conflict to answer exactly while it says it waits for one,
   and the conflict offered is one the worker has met. *)
ShownConflictIsReal ==
  \A j \in Jobs : /\ shown[j] # 0 <=> state[j] = "WaitingForConflict"
                  /\ shown[j] <= item[j]

(* What the views may rely on, whatever the threads do: see JobBoard. *)
Board == INSTANCE JobBoard WITH
  Withdrawable <- FALSE, rows <- listed,
  status <- [j \in Jobs |-> IF pc[j] = "none" THEN "Unknown" ELSE state[j]]
RefinesJobBoard == Board!Spec

(* The destructor returns even if workers are blocked on conflicts, on both
   sides of the moment they start to wait, or still wait for a pool thread. *)
DestructorReturns == manager = "closing" ~> manager = "gone"
=============================================================================

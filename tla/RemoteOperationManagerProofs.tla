--------------------- MODULE RemoteOperationManagerProofs ---------------------
(***************************************************************************)
(* Proofs about RemoteOperationManager, for any numbers of jobs, files in  *)
(* a directory and attempts: one job works at a time and its row says so,  *)
(* a directory that is moved loses no file, and the list is a JobBoard.    *)
(*                                                                         *)
(* What makes this inductive is the hand-over between the tree's thread    *)
(* and the GUI thread.  While the thread works its job stays the active    *)
(* one; all it has posted is about that job; its result is the last thing  *)
(* it posts, so that nothing of it is left when the job ends.  What the    *)
(* thread has copied is, unless something was skipped or the job has been  *)
(* cancelled, everything but the children still to come: a source is only  *)
(* removed when it has been copied.                                        *)
(***************************************************************************)
EXTENDS RemoteOperationManager, TLAPS, FiniteSetTheorems, SequenceTheorems

Active   == {"Running", "WaitingForConflict"}
Closures == [op : {"raise", "resume", "finish"}, job : Jobs, arg : Finished]

(* The jobs and their rows.                                                 *)
RowsOK ==
  /\ manager # "gone" => \A j \in Jobs : j = active <=> state[j] \in Active
  /\ manager # "gone" /\ active = NoJob => call = "none"
  /\ \A j \in Jobs : state[j] \in {"Queued"} \cup Active => j \in listed

(* The tree's thread and what it has posted.                                *)
ThreadOK ==
  /\ worker \notin {"none", "exit"} => call = "tree"
  /\ call = "tree" => manager # "gone"
  /\ posted # <<>> => call = "tree"
  /\ \A i \in 1 .. Len(posted) :
       /\ posted[i].job = active
       /\ posted[i].op = "finish" => i = Len(posted) /\ worker \in {"exit", "none"}

(* What has been copied and what is left of the source.                     *)
Copying == {"try", "meet", "check", "wait"}
FilesOK ==
  /\ source \cup copy = Pieces
  /\ worker \in Copying \cup {"next", "cleanup"} => source = Pieces
  /\ ~cancelled /\ worker = "delete" => copy = Pieces
  /\ ~cancelled /\ ~skipped =>
       /\ worker \in Copying => Pieces \ (left \cup {item}) \subseteq copy
       /\ worker = "next" => Pieces \ left \subseteq copy

IInv ==
  /\ RemoteTypeOK /\ posted \in Seq(Closures)
  /\ RowsOK /\ ThreadOK /\ FilesOK

-----------------------------------------------------------------------------
LEMMA AppendClosure ==
  ASSUME posted \in Seq(Closures), NEW c \in Closures, posted' = Append(posted, c)
  PROVE  /\ posted' \in Seq(Closures) /\ posted' # <<>> /\ Len(posted') = Len(posted) + 1
         /\ posted'[Len(posted) + 1] = c
         /\ \A i \in 1 .. Len(posted) : posted'[i] = posted[i]
BY AppendProperties

LEMMA TailClosure ==
  ASSUME posted \in Seq(Closures), posted # <<>>, posted' = Tail(posted)
  PROVE  /\ Head(posted) \in Closures /\ Head(posted) = posted[1] /\ Len(posted) > 0
         /\ posted' \in Seq(Closures) /\ Len(posted') = Len(posted) - 1
         /\ \A i \in 1 .. Len(posted') : posted'[i] = posted[i + 1]
BY HeadTailProperties

LEMMA NextSerial ==
  ASSUME RemoteTypeOK
  PROVE  Cardinality({i \in Jobs : state[i] # "Unknown"}) + 1 \in Nat
<1>1. IsFiniteSet({i \in Jobs : state[i] # "Unknown"})
  BY FS_Subset, NamesAssumption
<1>. QED
  BY <1>1, FS_CardinalityType

(* Who calls and works: while there is a manager, an outstanding call has an *)
(* active job, and without a tree the thread is out of its body.             *)
LEMMA CallsHaveJobs ==
  ASSUME IInv, manager # "gone", call # "none"
  PROVE  active \in Jobs /\ state[active] \in Active
BY DEF IInv, RemoteTypeOK, RowsOK

LEMMA NoTreeNoThread ==
  ASSUME IInv, call # "tree"
  PROVE  worker \in {"none", "exit"} /\ posted = <<>>
BY DEF IInv, RemoteTypeOK, ThreadOK

(* What is posted lies in the order of its serial numbers, the result last. *)
LEMMA ClosuresAreOfTheActive ==
  ASSUME IInv, posted # <<>>, posted' = Tail(posted)
  PROVE  /\ Head(posted) \in Closures /\ Head(posted).job = active /\ active \in Jobs
         /\ call = "tree" /\ manager # "gone"
         /\ Head(posted).op = "finish" => posted' = <<>> /\ worker \in {"none", "exit"}
<1>1. posted \in Seq(Closures) /\ ThreadOK
  BY DEF IInv
<1>2. /\ Head(posted) \in Closures /\ Head(posted) = posted[1] /\ 1 \in 1 .. Len(posted)
      /\ posted' \in Seq(Closures) /\ Len(posted') = Len(posted) - 1
  BY <1>1, TailClosure, LenProperties
<1>3. posted[1].job = active /\ call = "tree" /\ manager # "gone"
      /\ (posted[1].op = "finish" => 1 = Len(posted) /\ worker \in {"none", "exit"})
  BY <1>1, <1>2 DEF ThreadOK
<1>4. Len(posted') = 0 => posted' = <<>>
  BY <1>2, EmptySeq
<1>. QED
  BY <1>2, <1>3, <1>4 DEF Closures

-----------------------------------------------------------------------------
(* The end of a job.                                                        *)
LEMMA FinishIInv ==
  ASSUME IInv, manager = "alive", active \in Jobs, NEW o \in Finished, Finish(o),
         posted' = <<>>, worker \in {"none", "exit"}, UNCHANGED <<worker, item, left, result>>,
         skipped' \in BOOLEAN, source' \subseteq Pieces, copy' \subseteq Pieces,
         source' \cup copy' = Pieces
  PROVE  IInv'
<1>1. /\ UNCHANGED <<listed, born, manager, kind>> /\ active' = NoJob /\ turn' = "start"
      /\ state' = [state EXCEPT ![active] = o]
      /\ call' = "none" /\ attempt' = 0 /\ cancelled' = FALSE /\ conflict' = Blank
      /\ sheet' \in {sheet, NoJob}
  BY DEF Finish, list
<1>2. /\ state' \in [Jobs -> States] /\ state'[active] = o
      /\ \A j \in Jobs : j # active => state'[j] = state[j]
  BY <1>1 DEF IInv, RemoteTypeOK, States
<1>3. Blank \in [resolved : BOOLEAN, decision : Answers, persistent : Answers \cup {NoChoice}]
      /\ 0 \in 0 .. MaxAttempts
  BY LimitsAssumption DEF Blank, Answers
<1>4. RemoteTypeOK'
  BY <1>1, <1>2, <1>3 DEF IInv, RemoteTypeOK
<1>5. posted' \in Seq(Closures)
  BY EmptySeq
<1>6. RowsOK'
  BY <1>1, <1>2, NamesAssumption DEF IInv, RowsOK, Active, Finished
<1>7. ThreadOK'
  <2>1. Len(posted') = 0
    BY EmptySeq
  <2>. QED
    BY <1>1, <2>1 DEF ThreadOK
<1>8. FilesOK'
  BY DEF FilesOK, Copying
<1>. QED
  BY <1>4, <1>5, <1>6, <1>7, <1>8 DEF IInv

(* A job without a tree ends.                                               *)
LEMMA CallFinishes ==
  ASSUME IInv, manager = "alive", active \in Jobs, call # "tree", NEW o \in Finished, Finish(o),
         UNCHANGED <<thread, disk, posted>>
  PROVE  IInv'
<1>1. UNCHANGED <<worker, item, left, skipped, result, source, copy, posted>>
  BY DEF thread, disk
<1>2. source \subseteq Pieces /\ copy \subseteq Pieces /\ source \cup copy = Pieces /\ skipped \in BOOLEAN
  BY DEF IInv, RemoteTypeOK, FilesOK
<1>. QED
  BY <1>1, <1>2, NoTreeNoThread, FinishIInv

(* A step of the GUI thread that leaves the tree's thread alone and the job  *)
(* of a tree active.                                                         *)
LEMMA GuiStep ==
  ASSUME IInv, RemoteTypeOK', RowsOK', UNCHANGED <<thread, disk, posted>>,
         \/ call = "tree" /\ call' = "tree" /\ active' = active
         \/ call # "tree" /\ call' # "tree",
         call = "tree" => manager' # "gone",
         worker \in {"none", "exit"} \/ (cancelled => cancelled')
  PROVE  IInv'
<1>1. UNCHANGED <<worker, item, left, skipped, result, source, copy, posted>>
  BY DEF thread, disk
<1>2. ThreadOK'
  <2>1. CASE call = "tree"
    BY <1>1, <2>1 DEF IInv, ThreadOK
  <2>2. CASE call # "tree"
    <3>1. Len(posted') = 0 /\ posted' = <<>> /\ worker' \in {"none", "exit"} /\ call' # "tree"
      BY <1>1, <2>2, NoTreeNoThread, EmptySeq
    <3>. QED
      BY <3>1 DEF ThreadOK
  <2>. QED
    BY <2>1, <2>2
<1>3. FilesOK'
  BY <1>1 DEF IInv, FilesOK, Copying
<1>. QED
  BY <1>1, <1>2, <1>3 DEF IInv

-----------------------------------------------------------------------------
LEMMA EnqueueIInv ==
  ASSUME IInv, NEW j \in Jobs, Enqueue(j)
  PROVE  IInv'
<1>1. /\ manager = "alive" /\ state[j] = "Unknown" /\ turn' = "start"
      /\ listed' = (listed \ Pruned) \cup {j} /\ state' = [state EXCEPT ![j] = "Queued"]
      /\ born' = [born EXCEPT ![j] = Cardinality({i \in Jobs : state[i] # "Unknown"}) + 1]
      /\ UNCHANGED <<active, sheet, manager, call, attempt, cancelled, conflict>>
      /\ UNCHANGED <<thread, disk, posted>>
      /\ kind' \in [Jobs -> Kinds]
  BY DEF Enqueue, Idle, gio, IInv, RemoteTypeOK
<1>2. state' \in [Jobs -> States] /\ state'[j] = "Queued" /\ \A i \in Jobs : i # j => state'[i] = state[i]
  BY <1>1 DEF IInv, RemoteTypeOK, States
<1>3. born' \in [Jobs -> Nat]
  BY <1>1, NextSerial DEF IInv, RemoteTypeOK
<1>4. \A i \in Pruned : i \in listed /\ state[i] \in Finished
  BY DEF Pruned, Terminal
<1>5. RemoteTypeOK'
  BY <1>1, <1>2, <1>3 DEF IInv, RemoteTypeOK, thread, disk
<1>6. RowsOK'
  BY <1>1, <1>2, <1>4 DEF IInv, RowsOK, Active, Finished
<1>. QED
  BY <1>1, <1>5, <1>6, GuiStep DEF IInv, ThreadOK

LEMMA StartNextIInv ==
  ASSUME IInv, StartNext
  PROVE  IInv'
<1>1. /\ manager = "alive" /\ turn' = "idle"
      /\ UNCHANGED <<listed, born, sheet, manager, kind>> /\ UNCHANGED <<thread, disk, posted>>
  BY DEF StartNext, list
<1>2. CASE UNCHANGED <<state, active, gio, cancelled, conflict>>
  <2>1. RemoteTypeOK'
    BY <1>1, <1>2 DEF IInv, RemoteTypeOK, thread, disk, gio
  <2>2. RowsOK'
    BY <1>1, <1>2 DEF IInv, RowsOK, gio
  <2>. QED
    BY <1>1, <1>2, <2>1, <2>2, GuiStep DEF gio, IInv, ThreadOK
<1>3. CASE active = NoJob /\ \E j \in Queued :
             /\ active' = j /\ state' = [state EXCEPT ![j] = "Running"]
             /\ call' = IF kind[j] = "single" THEN "single" ELSE "type"
             /\ attempt' = 0 /\ cancelled' = FALSE /\ conflict' = Blank
  <2>1. PICK j \in Jobs : /\ state[j] = "Queued" /\ j \in listed
                          /\ active' = j /\ state' = [state EXCEPT ![j] = "Running"]
                          /\ call' \in {"single", "type"}
                          /\ attempt' = 0 /\ cancelled' = FALSE /\ conflict' = Blank
    BY <1>3 DEF Queued, IInv, RemoteTypeOK
  <2>2. state' \in [Jobs -> States] /\ state'[j] = "Running" /\ \A i \in Jobs : i # j => state'[i] = state[i]
    BY <2>1 DEF IInv, RemoteTypeOK, States
  <2>3. Blank \in [resolved : BOOLEAN, decision : Answers, persistent : Answers \cup {NoChoice}]
        /\ 0 \in 0 .. MaxAttempts
    BY LimitsAssumption DEF Blank, Answers
  <2>4. RemoteTypeOK'
    BY <1>1, <2>1, <2>2, <2>3 DEF IInv, RemoteTypeOK, thread, disk
  <2>5. RowsOK'
    BY <1>1, <1>3, <2>1, <2>2, NamesAssumption DEF IInv, RowsOK, Active
  <2>6. call = "none"
    BY <1>1, <1>3 DEF IInv, RowsOK
  <2>. QED
    BY <1>1, <2>1, <2>4, <2>5, <2>6, NoTreeNoThread, GuiStep
<1>. QED
  BY <1>2, <1>3 DEF StartNext

-----------------------------------------------------------------------------
(* The callbacks of GIO.                                                    *)
LEMMA FailedCallIInv ==
  ASSUME IInv, manager = "alive", call \notin {"none", "tree"}, FailedCall, NotTree
  PROVE  IInv'
<1>1. active \in Jobs /\ "Failed" \in Finished /\ "Cancelled" \in Finished
  BY CallsHaveJobs DEF Finished
<1>2. UNCHANGED <<thread, disk, posted>>
  BY DEF NotTree
<1>3. CASE Finish("Failed")
  BY <1>1, <1>2, <1>3, CallFinishes
<1>4. CASE Finish("Cancelled")
  BY <1>1, <1>2, <1>4, CallFinishes
<1>. QED
  BY <1>3, <1>4 DEF FailedCall

(* A call is answered and its job goes on, or completes.                    *)
LEMMA CompletedIInv ==
  ASSUME IInv, manager = "alive", call \notin {"none", "tree"}, Finish("Completed"), NotTree
  PROVE  IInv'
BY CallsHaveJobs, CallFinishes DEF NotTree, Finished

LEMMA SingleReadyIInv ==
  ASSUME IInv, SingleReady
  PROVE  IInv'
BY FailedCallIInv, CompletedIInv DEF SingleReady, Idle

LEMMA TransferReadyIInv ==
  ASSUME IInv, TransferReady
  PROVE  IInv'
BY FailedCallIInv, CompletedIInv DEF TransferReady, Idle

LEMMA StartTreeIInv ==
  ASSUME IInv, manager = "alive", call = "type", StartTree
  PROVE  IInv'
<1>1. CASE worker # "none"
  <2>1. Finish("Failed") /\ UNCHANGED <<thread, disk, posted>>
    BY <1>1 DEF StartTree, NotTree
  <2>. QED
    BY <2>1, CallsHaveJobs, CallFinishes DEF Finished
<1>2. CASE worker = "none"
  <2>1. /\ worker' = "try" /\ item' = Top /\ left' = Pieces /\ skipped' = FALSE
        /\ source' = Pieces /\ copy' = {} /\ call' = "tree"
        /\ UNCHANGED <<listed, born, state, active, turn, sheet, manager, attempt, kind,
                       posted, result, cancelled, conflict>>
    BY <1>2 DEF StartTree, SameContext, gui
  <2>2. posted = <<>> /\ active \in Jobs
    BY NoTreeNoThread, CallsHaveJobs
  <2>3. RemoteTypeOK'
    BY <2>1 DEF IInv, RemoteTypeOK
  <2>4. RowsOK'
    BY <2>1, <2>2, NamesAssumption DEF IInv, RowsOK
  <2>5. ThreadOK'
    <3>1. Len(posted') = 0 /\ posted' = <<>>
      BY <2>1, <2>2, EmptySeq
    <3>. QED
      BY <2>1, <3>1 DEF ThreadOK
  <2>6. FilesOK'
    BY <2>1 DEF FilesOK, Copying
  <2>. QED
    BY <2>1, <2>3, <2>4, <2>5, <2>6 DEF IInv
<1>. QED
  BY <1>1, <1>2

LEMMA TypeReadyIInv ==
  ASSUME IInv, TypeReady
  PROVE  IInv'
<1>1. manager = "alive" /\ call = "type"
  BY DEF TypeReady, Idle
<1>2. CASE FailedCall /\ NotTree
  BY <1>1, <1>2, FailedCallIInv
<1>3. CASE StartTree
  BY <1>1, <1>3, StartTreeIInv
<1>4. CASE call' = "transfer" /\ UNCHANGED <<gui, attempt, kind>> /\ SameContext /\ NotTree
  <2>1. /\ UNCHANGED <<listed, born, state, active, turn, sheet, manager, attempt, kind, cancelled, conflict>>
        /\ UNCHANGED <<thread, disk, posted>>
    BY <1>4 DEF gui, SameContext, NotTree
  <2>2. RemoteTypeOK'
    BY <1>4, <2>1 DEF IInv, RemoteTypeOK, thread, disk
  <2>3. RowsOK'
    BY <1>1, <1>4, <2>1 DEF IInv, RowsOK
  <2>. QED
    BY <1>1, <1>4, <2>1, <2>2, <2>3, GuiStep
<1>. QED
  BY <1>2, <1>3, <1>4 DEF TypeReady

LEMMA TransferExistsIInv ==
  ASSUME IInv, TransferExists
  PROVE  IInv'
<1>1. manager = "alive" /\ call = "transfer" /\ UNCHANGED <<thread, disk, posted>>
  BY DEF TransferExists, Idle, NotTree
<1>2. active \in Jobs /\ state[active] \in Active
  BY <1>1, CallsHaveJobs
<1>3. CASE /\ state' = [state EXCEPT ![active] = "WaitingForConflict"]
           /\ sheet' = active /\ call' = "none"
           /\ UNCHANGED <<list, active, turn, manager, attempt, kind>>
           /\ SameContext
  <2>1. UNCHANGED <<listed, born, active, turn, manager, attempt, kind, cancelled, conflict>>
    BY <1>3 DEF list, SameContext
  <2>2. /\ state' \in [Jobs -> States] /\ state'[active] = "WaitingForConflict"
        /\ \A i \in Jobs : i # active => state'[i] = state[i]
    BY <1>2, <1>3 DEF IInv, RemoteTypeOK, States
  <2>3. RemoteTypeOK'
    BY <1>1, <1>2, <1>3, <2>1, <2>2 DEF IInv, RemoteTypeOK, thread, disk
  <2>4. RowsOK'
    BY <1>1, <1>2, <1>3, <2>1, <2>2, NamesAssumption DEF IInv, RowsOK, Active
  <2>. QED
    BY <1>1, <1>3, <2>1, <2>3, <2>4, GuiStep
<1>4. CASE attempt = MaxAttempts /\ Finish("Failed")
  BY <1>1, <1>2, <1>4, CallFinishes DEF Finished
<1>5. CASE /\ attempt \in 1 .. MaxAttempts - 1
           /\ attempt' = attempt + 1
           /\ UNCHANGED <<gui, call, kind>>
           /\ SameContext
  <2>1. UNCHANGED <<listed, born, state, active, turn, sheet, manager, call, kind, cancelled, conflict>>
    BY <1>5 DEF gui, SameContext
  <2>2. attempt' \in 0 .. MaxAttempts
    BY <1>5, LimitsAssumption
  <2>3. RemoteTypeOK'
    BY <1>1, <2>1, <2>2 DEF IInv, RemoteTypeOK, thread, disk
  <2>4. RowsOK'
    BY <1>1, <2>1 DEF IInv, RowsOK
  <2>. QED
    BY <1>1, <2>1, <2>3, <2>4, GuiStep
<1>. QED
  BY <1>3, <1>4, <1>5 DEF TransferExists

LEMMA OrphanReadyIInv ==
  ASSUME IInv, OrphanReady
  PROVE  IInv'
<1>1. /\ manager = "gone" /\ call' = "none"
      /\ UNCHANGED <<listed, born, state, active, turn, sheet, manager, attempt, kind, cancelled, conflict>>
      /\ UNCHANGED <<thread, disk, posted>>
  BY DEF OrphanReady, gui
<1>2. RemoteTypeOK'
  BY <1>1 DEF IInv, RemoteTypeOK, thread, disk
<1>3. RowsOK' /\ call # "tree"
  BY <1>1 DEF IInv, RowsOK, ThreadOK
<1>. QED
  BY <1>1, <1>2, <1>3, GuiStep

-----------------------------------------------------------------------------
(* What the user does, and the destructor.                                  *)
LEMMA TellIsTyped ==
  ASSUME RemoteTypeOK, NEW d \in Answers
  PROVE  Tell(d) \in [resolved : BOOLEAN, decision : Answers, persistent : Answers \cup {NoChoice}]
BY DEF RemoteTypeOK, Tell

(* A job that is told to stop, or asked, stays where it is.                 *)
LEMMA ToldIInv ==
  ASSUME IInv, manager = "alive", RemoteTypeOK',
         UNCHANGED <<listed, state, active, manager, call>>, UNCHANGED <<thread, disk, posted>>,
         cancelled => cancelled'
  PROVE  IInv'
<1>1. RowsOK'
  BY DEF IInv, RowsOK
<1>. QED
  BY <1>1, GuiStep

LEMMA CancelIInv ==
  ASSUME IInv, NEW j \in Jobs, Cancel(j)
  PROVE  IInv'
<1>1. manager = "alive" /\ j \in listed /\ state[j] \notin Finished /\ UNCHANGED <<thread, disk, posted>>
  BY DEF Cancel, Idle, Terminal
<1>2. CASE /\ active = j /\ treeMode
           /\ cancelled' = TRUE /\ conflict' = Tell("Cancel")
           /\ UNCHANGED <<gui, gio, kind>>
  <2>1. RemoteTypeOK'
    BY <1>1, <1>2, TellIsTyped DEF IInv, RemoteTypeOK, gui, gio, thread, disk, Answers
  <2>. QED
    BY <1>1, <1>2, <2>1, ToldIInv DEF gui, gio
<1>3. CASE active = j /\ ~treeMode /\ Finish("Cancelled")
  BY <1>1, <1>3, CallFinishes DEF treeMode, Finished
<1>4. CASE cancelled' = TRUE /\ UNCHANGED <<gui, gio, kind, conflict>>
  <2>1. RemoteTypeOK'
    BY <1>1, <1>4 DEF IInv, RemoteTypeOK, gui, gio, thread, disk
  <2>. QED
    BY <1>1, <1>4, <2>1, ToldIInv DEF gui, gio
<1>5. CASE /\ state[j] = "Queued" /\ state' = [state EXCEPT ![j] = "Cancelled"]
           /\ UNCHANGED <<list, active, turn, sheet, manager, gio, kind, cancelled, conflict>>
  <2>1. /\ state' \in [Jobs -> States] /\ state'[j] = "Cancelled"
        /\ \A i \in Jobs : i # j => state'[i] = state[i]
    BY <1>5 DEF IInv, RemoteTypeOK, States, Finished
  <2>2. RemoteTypeOK'
    BY <1>1, <1>5, <2>1 DEF IInv, RemoteTypeOK, thread, disk, list, gio
  <2>3. RowsOK'
    BY <1>1, <1>5, <2>1 DEF IInv, RowsOK, Active, list, gio
  <2>. QED
    BY <1>1, <1>5, <2>2, <2>3, GuiStep DEF gio, IInv, ThreadOK
<1>. QED
  BY <1>2, <1>3, <1>4, <1>5 DEF Cancel

LEMMA ChooseIInv ==
  ASSUME IInv, NEW d \in Answers, NEW all \in BOOLEAN, Choose(d, all)
  PROVE  IInv'
<1>1. manager = "alive" /\ sheet \in Jobs
  BY DEF Choose, Idle, IInv, RemoteTypeOK
<1>2. CASE Resolve(sheet, d, all)
  <2>1. active = sheet /\ state[sheet] = "WaitingForConflict" /\ UNCHANGED <<thread, disk, posted>>
    BY <1>2 DEF Resolve
  <2>2. CASE treeMode
    <3>1. /\ conflict' = [Tell(IF d = "Replace" THEN "Cancel" ELSE d) EXCEPT
                            !.persistent = IF all /\ d \in {"Skip", "KeepBoth"} THEN d ELSE @]
          /\ sheet' = NoJob
          /\ UNCHANGED <<listed, born, state, active, turn, manager, call, attempt, kind, cancelled>>
      BY <1>2, <2>2 DEF Resolve, list, gio
    <3>2. (IF d = "Replace" THEN "Cancel" ELSE d) \in Answers
      BY DEF Answers
    <3>3. PICK t \in [resolved : BOOLEAN, decision : Answers, persistent : Answers \cup {NoChoice}] :
            t = Tell(IF d = "Replace" THEN "Cancel" ELSE d)
      BY <3>2, TellIsTyped DEF IInv
    <3>4. conflict' \in [resolved : BOOLEAN, decision : Answers, persistent : Answers \cup {NoChoice}]
      BY <3>1, <3>3
    <3>5. RemoteTypeOK'
      BY <2>1, <3>1, <3>4 DEF IInv, RemoteTypeOK, thread, disk
    <3>. QED
      BY <1>1, <2>1, <3>1, <3>5, ToldIInv
  <2>3. CASE ~treeMode
    <3>1. CASE Finish("Failed") \/ Finish("Cancelled") \/ Finish("Completed")
      BY <1>1, <2>1, <2>3, <3>1, CallFinishes DEF treeMode, Finished
    <3>2. CASE /\ state' = [state EXCEPT ![sheet] = "Running"]
               /\ attempt' = 1 /\ call' = "transfer" /\ sheet' = NoJob
               /\ UNCHANGED <<list, active, turn, manager, kind>>
               /\ SameContext
      <4>1. /\ UNCHANGED <<listed, born, active, turn, manager, kind, cancelled, conflict>>
            /\ 1 \in 0 .. MaxAttempts
        BY <3>2, LimitsAssumption DEF list, SameContext
      <4>2. /\ state' \in [Jobs -> States] /\ state'[sheet] = "Running"
            /\ \A i \in Jobs : i # sheet => state'[i] = state[i]
        BY <1>1, <3>2 DEF IInv, RemoteTypeOK, States
      <4>3. RemoteTypeOK'
        BY <2>1, <3>2, <4>1, <4>2 DEF IInv, RemoteTypeOK, thread, disk
      <4>4. RowsOK'
        BY <1>1, <2>1, <3>2, <4>1, <4>2, NamesAssumption DEF IInv, RowsOK, Active
      <4>. QED
        BY <1>1, <2>1, <2>3, <3>2, <4>1, <4>3, <4>4, GuiStep DEF treeMode
    <3>. QED
      BY <1>2, <2>3, <3>1, <3>2 DEF Resolve
  <2>. QED
    BY <2>2, <2>3
<1>3. CASE /\ sheet' = NoJob
           /\ UNCHANGED <<list, state, active, turn, manager, gio, thread, disk, kind,
                          cancelled, conflict, posted>>
  <2>1. /\ UNCHANGED <<listed, born, state, active, turn, manager, call, attempt, kind, cancelled, conflict>>
        /\ UNCHANGED <<thread, disk, posted>>
    BY <1>3 DEF list, gio
  <2>2. RemoteTypeOK'
    BY <1>3, <2>1 DEF IInv, RemoteTypeOK, thread, disk
  <2>. QED
    BY <1>1, <2>1, <2>2, ToldIInv
<1>. QED
  BY <1>2, <1>3 DEF Choose

LEMMA DismissIInv ==
  ASSUME IInv, Dismiss
  PROVE  IInv'
<1>1. /\ manager = "alive"
      /\ UNCHANGED <<born, state, active, turn, sheet, manager, call, attempt, kind, cancelled, conflict>>
      /\ UNCHANGED <<thread, disk, posted>>
  BY DEF Dismiss, Idle, gio
<1>2. PICK dismissed \in {{j} : j \in {j \in listed : Terminal(j)}} \cup {{j \in listed : Terminal(j)}} :
        listed' = listed \ dismissed
  BY DEF Dismiss
<1>3. listed' \subseteq listed /\ \A j \in listed \ listed' : state[j] \in Finished
  BY <1>2 DEF Terminal
<1>4. RemoteTypeOK'
  BY <1>1, <1>3 DEF IInv, RemoteTypeOK, thread, disk
<1>5. RowsOK'
  BY <1>1, <1>3 DEF IInv, RowsOK, Active, Finished
<1>. QED
  BY <1>1, <1>4, <1>5, GuiStep DEF IInv, ThreadOK

LEMMA BeginDestroyIInv ==
  ASSUME IInv, BeginDestroy
  PROVE  IInv'
<1>1. /\ manager = "alive" /\ manager' = "closing" /\ sheet' = NoJob
      /\ UNCHANGED <<listed, born, state, active, turn, call, attempt, kind>>
      /\ UNCHANGED <<thread, disk, posted>>
  BY DEF BeginDestroy, Idle, list, gio
<1>2. "Cancel" \in Answers /\ cancelled \in BOOLEAN
  BY DEF Answers, IInv, RemoteTypeOK
<1>3. /\ cancelled' \in BOOLEAN /\ (cancelled => cancelled')
      /\ conflict' \in [resolved : BOOLEAN, decision : Answers, persistent : Answers \cup {NoChoice}]
  BY <1>2, TellIsTyped DEF BeginDestroy, IInv, RemoteTypeOK
<1>4. RemoteTypeOK'
  BY <1>1, <1>3 DEF IInv, RemoteTypeOK, thread, disk
<1>5. RowsOK'
  BY <1>1 DEF IInv, RowsOK
<1>. QED
  BY <1>1, <1>3, <1>4, <1>5, GuiStep DEF IInv, ThreadOK

LEMMA EndDestroyIInv ==
  ASSUME IInv, EndDestroy
  PROVE  IInv'
<1>1. /\ manager = "closing" /\ manager' = "gone" /\ active' = NoJob /\ posted' = <<>>
      /\ call' \in {"none", call} /\ call' # "tree" /\ (call = "tree" => worker = "none")
      /\ UNCHANGED <<listed, born, state, turn, sheet, attempt, kind, cancelled, conflict>>
      /\ UNCHANGED <<worker, item, left, skipped, result, source, copy>>
  BY DEF EndDestroy, treeMode, list, thread, disk
<1>2. worker \in {"none", "exit"} /\ posted' \in Seq(Closures) /\ Len(posted') = 0
  BY <1>1, NoTreeNoThread, EmptySeq
<1>3. RemoteTypeOK'
  BY <1>1 DEF IInv, RemoteTypeOK
<1>4. RowsOK'
  BY <1>1 DEF IInv, RowsOK
<1>5. ThreadOK'
  BY <1>1, <1>2 DEF ThreadOK
<1>6. FilesOK'
  BY <1>1 DEF IInv, FilesOK, Copying
<1>. QED
  BY <1>2, <1>3, <1>4, <1>5, <1>6 DEF IInv

-----------------------------------------------------------------------------
(* The tree's thread.  Its steps leave the rows and the calls alone.        *)
Inside == {"try", "meet", "check", "wait", "next", "cleanup", "delete", "post"}

LEMMA ThreadPosts ==
  ASSUME IInv, worker \in Inside, Private,
         \/ UNCHANGED posted
         \/ Post("raise") \/ Post("resume")
         \/ Post("finish") /\ worker' = "exit"
  PROVE  posted' \in Seq(Closures) /\ RowsOK' /\ ThreadOK'
<1>1. UNCHANGED <<listed, born, state, active, turn, sheet, manager, call, attempt, kind>>
  BY DEF Private, gui, gio
<1>2. worker \notin {"none", "exit"}
  BY DEF Inside
<1>3. /\ call = "tree" /\ manager # "gone" /\ active \in Jobs /\ result \in Finished
      /\ posted \in Seq(Closures)
      /\ \A i \in 1 .. Len(posted) : posted[i].job = active /\ posted[i].op # "finish"
  BY <1>2, CallsHaveJobs DEF IInv, RemoteTypeOK, ThreadOK
<1>4. RowsOK'
  BY <1>1 DEF IInv, RowsOK
<1>5. CASE UNCHANGED posted
  BY <1>1, <1>3, <1>4, <1>5 DEF ThreadOK
<1>6. ASSUME NEW op \in {"raise", "resume", "finish"}, Post(op), op = "finish" => worker' = "exit"
      PROVE  posted' \in Seq(Closures) /\ ThreadOK'
  <2>1. PICK c \in Closures : c.op = op /\ c.job = active /\ posted' = Append(posted, c)
    <3>. DEFINE c == [op |-> op, job |-> active, arg |-> result]
    <3>1. c \in Closures /\ c.op = op /\ c.job = active
      BY <1>3 DEF Closures
    <3>. QED
      BY <1>6, <3>1 DEF Post
  <2>2. /\ posted' \in Seq(Closures) /\ Len(posted') = Len(posted) + 1
        /\ posted'[Len(posted) + 1] = c
        /\ \A i \in 1 .. Len(posted) : posted'[i] = posted[i]
    BY <1>3, <2>1, AppendClosure
  <2>3. Len(posted) \in Nat
    BY <1>3, LenProperties
  <2>4. ASSUME NEW i \in 1 .. Len(posted')
        PROVE  posted'[i].job = active /\ (posted'[i].op = "finish" => i = Len(posted') /\ worker' = "exit")
    <3>1. CASE i = Len(posted) + 1
      BY <1>6, <2>1, <2>2, <3>1
    <3>2. CASE i # Len(posted) + 1
      <4>1. i \in 1 .. Len(posted)
        BY <2>2, <2>3, <3>2
      <4>. QED
        BY <1>3, <2>2, <4>1
    <3>. QED
      BY <3>1, <3>2
  <2>. QED
    BY <1>1, <1>3, <2>2, <2>4 DEF ThreadOK
<1>. QED
  BY <1>4, <1>5, <1>6

(* What a step of the thread has to keep, besides.                          *)
ThreadTypeOK ==
  /\ worker \in Inside \cup {"none", "exit"}
  /\ item \in Pieces \cup {Top} /\ left \subseteq Pieces /\ skipped \in BOOLEAN
  /\ result \in Finished /\ cancelled \in BOOLEAN
  /\ conflict \in [resolved : BOOLEAN, decision : Answers, persistent : Answers \cup {NoChoice}]
  /\ source \subseteq Pieces /\ copy \subseteq Pieces

LEMMA ThreadStep ==
  ASSUME IInv, worker \in Inside, Private, ThreadTypeOK', FilesOK',
         \/ UNCHANGED posted
         \/ Post("raise") \/ Post("resume")
         \/ Post("finish") /\ worker' = "exit"
  PROVE  IInv'
<1>1. UNCHANGED <<listed, born, state, active, turn, sheet, manager, call, attempt, kind>>
  BY DEF Private, gui, gio
<1>2. RemoteTypeOK'
  BY <1>1 DEF IInv, RemoteTypeOK, ThreadTypeOK, Inside
<1>. QED
  BY <1>2, ThreadPosts DEF IInv

LEMMA ThreadIsTyped ==
  ASSUME IInv
  PROVE  ThreadTypeOK
BY DEF IInv, RemoteTypeOK, ThreadTypeOK, Inside

LEMMA TryCopyIInv ==
  ASSUME IInv, TryCopy
  PROVE  IInv'
<1>1. worker = "try" /\ UNCHANGED <<item, left, skipped, result, source, cancelled, conflict, posted>>
      /\ Private
  BY DEF TryCopy
<1>2. ThreadTypeOK /\ FilesOK /\ source = Pieces
  BY <1>1, ThreadIsTyped DEF IInv, FilesOK, Copying
<1>3. \/ worker' = "next" /\ copy' = copy \cup ({item} \ {Top})
      \/ worker' \in {"meet", "cleanup"} /\ copy' = copy
  BY DEF TryCopy, Goto
<1>4. ThreadTypeOK' /\ FilesOK'
  BY <1>1, <1>2, <1>3, NamesAssumption DEF ThreadTypeOK, FilesOK, Copying, Inside
<1>. QED
  BY <1>1, <1>4, ThreadStep DEF Inside

(* What a decision means for the item.                                      *)
LEMMA AfterCopyIsTyped ==
  ASSUME NEW anySkipped \in BOOLEAN, AfterCopy(anySkipped)
  PROVE  /\ worker' \in {"delete", "post"} /\ result' \in Finished
         /\ worker' = "delete" => ~anySkipped
BY DEF AfterCopy, Goto, Finished

LEMMA FollowKeeps ==
  ASSUME IInv, worker \in Copying, NEW decision \in Answers, Follow(decision),
         conflict' \in [resolved : BOOLEAN, decision : Answers, persistent : Answers \cup {NoChoice}]
  PROVE  ThreadTypeOK' /\ FilesOK' /\ Private
<1>1. UNCHANGED <<item, left, source>> /\ Private
  BY DEF Follow
<1>2. ThreadTypeOK /\ FilesOK /\ source = Pieces
  BY ThreadIsTyped DEF IInv, FilesOK, Copying
<1>3. CASE skipped' = TRUE /\ UNCHANGED <<copy, cancelled>>
           /\ IF item = Top THEN AfterCopy(TRUE) ELSE Goto("next") /\ UNCHANGED result
  <2>1. result' \in Finished /\ worker' \in {"post", "next"}
    BY <1>2, <1>3, AfterCopyIsTyped DEF Goto, ThreadTypeOK
  <2>. QED
    BY <1>1, <1>2, <1>3, <2>1 DEF ThreadTypeOK, FilesOK, Copying, Inside
<1>4. CASE Goto("next") /\ copy' = copy \cup ({item} \ {Top}) /\ UNCHANGED <<skipped, cancelled, result>>
  BY <1>1, <1>2, <1>4, NamesAssumption DEF Goto, ThreadTypeOK, FilesOK, Copying, Inside
<1>5. CASE Goto("cleanup") /\ (UNCHANGED cancelled \/ cancelled' = TRUE)
           /\ UNCHANGED <<copy, skipped, result>>
  BY <1>1, <1>2, <1>5 DEF Goto, ThreadTypeOK, FilesOK, Copying, Inside
<1>. QED
  BY <1>1, <1>3, <1>4, <1>5 DEF Follow

LEMMA MeetConflictIInv ==
  ASSUME IInv, MeetConflict
  PROVE  IInv'
<1>1. worker = "meet"
  BY DEF MeetConflict
<1>2. CASE conflict.persistent # NoChoice /\ Follow(conflict.persistent) /\ UNCHANGED <<conflict, posted>>
  <2>1. conflict.persistent \in Answers
    BY <1>2 DEF IInv, RemoteTypeOK
  <2>2. ThreadTypeOK' /\ FilesOK' /\ Private
    BY <1>1, <1>2, <2>1, FollowKeeps DEF Copying, IInv, RemoteTypeOK
  <2>. QED
    BY <1>1, <1>2, <2>2, ThreadStep DEF Inside
<1>3. CASE /\ conflict' = [conflict EXCEPT !.resolved = FALSE, !.decision = "Skip"]
           /\ Goto("check") /\ Post("raise")
           /\ UNCHANGED <<item, left, skipped, result, disk, cancelled>>
           /\ Private
  <2>1. ThreadTypeOK'
    BY <1>3, ThreadIsTyped DEF ThreadTypeOK, Goto, Inside, disk, Answers
  <2>2. FilesOK'
    BY <1>1, <1>3 DEF IInv, FilesOK, Copying, Goto, disk
  <2>. QED
    BY <1>1, <1>3, <2>1, <2>2, ThreadStep DEF Inside
<1>. QED
  BY <1>2, <1>3 DEF MeetConflict

LEMMA FallAsleepIInv ==
  ASSUME IInv, FallAsleep
  PROVE  IInv'
<1>1. worker = "check" /\ worker' = "wait" /\ Private
      /\ UNCHANGED <<item, left, skipped, result, source, copy, cancelled, conflict, posted>>
  BY DEF FallAsleep, Goto, disk
<1>2. ThreadTypeOK' /\ FilesOK'
  BY <1>1, ThreadIsTyped DEF IInv, ThreadTypeOK, FilesOK, Copying, Inside
<1>. QED
  BY <1>1, <1>2, ThreadStep DEF Inside

LEMMA WakeIInv ==
  ASSUME IInv, Wake
  PROVE  IInv'
<1>1. worker \in {"check", "wait"} /\ conflict' = [conflict EXCEPT !.resolved = FALSE]
  BY DEF Wake
<1>2. PICK decision \in Answers : Follow(decision) /\ (UNCHANGED posted \/ Post("resume"))
  <2>1. (IF Stopping \/ cancelled THEN "Cancel" ELSE conflict.decision) \in Answers
    BY DEF IInv, RemoteTypeOK, Answers
  <2>. QED
    BY <2>1 DEF Wake
<1>3. conflict' \in [resolved : BOOLEAN, decision : Answers, persistent : Answers \cup {NoChoice}]
  BY <1>1 DEF IInv, RemoteTypeOK
<1>4. ThreadTypeOK' /\ FilesOK' /\ Private
  BY <1>1, <1>2, <1>3, FollowKeeps DEF Copying
<1>. QED
  BY <1>1, <1>2, <1>4, ThreadStep DEF Inside

LEMMA NextChildIInv ==
  ASSUME IInv, NextChild
  PROVE  IInv'
<1>1. worker = "next" /\ UNCHANGED <<source, copy, cancelled, conflict, posted>> /\ Private
  BY DEF NextChild, disk
<1>2. ThreadTypeOK /\ FilesOK /\ source = Pieces
  BY <1>1, ThreadIsTyped DEF IInv, FilesOK, Copying
<1>3. CASE /\ \E child \in left : item' = child /\ left' = left \ {child} /\ Goto("try")
           /\ UNCHANGED <<skipped, result>>
  <2>1. ThreadTypeOK' /\ FilesOK'
    BY <1>1, <1>2, <1>3 DEF Goto, ThreadTypeOK, FilesOK, Copying, Inside
  <2>. QED
    BY <1>1, <2>1, ThreadStep DEF Inside
<1>4. CASE Goto("cleanup") /\ UNCHANGED <<item, left, skipped, result>>
  <2>1. ThreadTypeOK' /\ FilesOK'
    BY <1>1, <1>2, <1>4 DEF Goto, ThreadTypeOK, FilesOK, Copying, Inside
  <2>. QED
    BY <1>1, <2>1, ThreadStep DEF Inside
<1>5. CASE (cancelled \/ left = {}) /\ AfterCopy(skipped) /\ UNCHANGED <<item, left, skipped>>
  <2>1. worker' \in {"delete", "post"} /\ result' \in Finished /\ (worker' = "delete" => ~skipped)
    BY <1>2, <1>5, AfterCopyIsTyped DEF ThreadTypeOK
  <2>2. ThreadTypeOK' /\ FilesOK'
    BY <1>1, <1>2, <1>5, <2>1 DEF ThreadTypeOK, FilesOK, Copying, Inside
  <2>. QED
    BY <1>1, <2>2, ThreadStep DEF Inside
<1>. QED
  BY <1>3, <1>4, <1>5 DEF NextChild

LEMMA CleanUpIInv ==
  ASSUME IInv, CleanUp
  PROVE  IInv'
<1>1. worker = "cleanup" /\ worker' = "post" /\ Private
      /\ UNCHANGED <<item, left, skipped, source, cancelled, conflict, posted>>
  BY DEF CleanUp, Goto
<1>2. ThreadTypeOK /\ FilesOK /\ source = Pieces
  BY <1>1, ThreadIsTyped DEF IInv, FilesOK, Copying
<1>3. result' \in Finished /\ copy' \subseteq copy
  BY DEF CleanUp, Finished
<1>4. ThreadTypeOK' /\ FilesOK'
  BY <1>1, <1>2, <1>3 DEF ThreadTypeOK, FilesOK, Copying, Inside
<1>. QED
  BY <1>1, <1>4, ThreadStep DEF Inside

LEMMA DeleteSourceIInv ==
  ASSUME IInv, DeleteSource
  PROVE  IInv'
<1>1. worker = "delete" /\ worker' \in {"delete", "post"} /\ Private
      /\ UNCHANGED <<item, left, skipped, copy, cancelled, conflict, posted>>
  BY DEF DeleteSource, Goto
<1>2. ThreadTypeOK /\ FilesOK
  BY ThreadIsTyped DEF IInv
<1>3. result' \in Finished
  BY <1>2 DEF DeleteSource, Finished, ThreadTypeOK
<1>4. source' = source \/ (~cancelled /\ source' \subseteq source)
  BY DEF DeleteSource
<1>5. ThreadTypeOK' /\ FilesOK'
  BY <1>1, <1>2, <1>3, <1>4 DEF ThreadTypeOK, FilesOK, Copying, Inside
<1>. QED
  BY <1>1, <1>5, ThreadStep DEF Inside

LEMMA PostResultIInv ==
  ASSUME IInv, PostResult
  PROVE  IInv'
<1>1. worker = "post" /\ worker' = "exit" /\ Private
      /\ UNCHANGED <<item, left, skipped, result, source, copy, cancelled, conflict>>
      /\ (UNCHANGED posted \/ Post("finish"))
  BY DEF PostResult, Goto, disk
<1>2. ThreadTypeOK' /\ FilesOK'
  BY <1>1, ThreadIsTyped DEF IInv, ThreadTypeOK, FilesOK, Copying, Inside
<1>. QED
  BY <1>1, <1>2, ThreadStep DEF Inside

LEMMA ThreadReturnsIInv ==
  ASSUME IInv, ThreadReturns
  PROVE  IInv'
<1>1. worker = "exit" /\ worker' = "none" /\ item' = Top /\ left' = {} /\ result' = "Completed"
      /\ UNCHANGED <<skipped, source, copy, cancelled, conflict, posted>>
      /\ UNCHANGED <<listed, born, state, active, turn, sheet, manager, call, attempt, kind>>
  BY DEF ThreadReturns, Goto, disk, Private, gui, gio
<1>2. RemoteTypeOK' /\ posted' \in Seq(Closures)
  BY <1>1 DEF IInv, RemoteTypeOK, Finished
<1>3. RowsOK'
  BY <1>1 DEF IInv, RowsOK
<1>4. ThreadOK'
  BY <1>1 DEF IInv, ThreadOK
<1>5. FilesOK'
  BY <1>1 DEF IInv, FilesOK, Copying
<1>. QED
  BY <1>2, <1>3, <1>4, <1>5 DEF IInv

-----------------------------------------------------------------------------
(* The closures that the GUI thread runs.                                   *)
LEMMA LastOfTail ==
  ASSUME NEW n \in Nat, NEW i \in Nat, i + 1 = n
  PROVE  i = n - 1
OBVIOUS

LEMMA TailThreadOK ==
  ASSUME IInv, posted # <<>>, posted' = Tail(posted), UNCHANGED <<worker, call, manager, active>>
  PROVE  ThreadOK' /\ posted' \in Seq(Closures)
<1>1. posted \in Seq(Closures) /\ ThreadOK /\ call = "tree" /\ manager # "gone"
  BY ClosuresAreOfTheActive DEF IInv
<1>2. /\ posted' \in Seq(Closures) /\ Len(posted') = Len(posted) - 1
      /\ \A i \in 1 .. Len(posted') : posted'[i] = posted[i + 1]
  BY <1>1, TailClosure
<1>3. Len(posted) \in Nat
  BY <1>1, LenProperties
<1>4. \A i \in 1 .. Len(posted') : i + 1 \in 1 .. Len(posted)
  BY <1>2, <1>3
<1>5. ASSUME NEW i \in 1 .. Len(posted')
      PROVE  /\ posted'[i].job = active'
             /\ posted'[i].op = "finish" => i = Len(posted') /\ worker' \in {"exit", "none"}
  <2>1. i + 1 \in 1 .. Len(posted) /\ posted'[i] = posted[i + 1]
    BY <1>2, <1>4
  <2>2. /\ posted[i + 1].job = active
        /\ posted[i + 1].op = "finish" => i + 1 = Len(posted) /\ worker \in {"exit", "none"}
    BY <1>1, <2>1 DEF ThreadOK
  <2>3. i + 1 = Len(posted) => i = Len(posted')
    <3>1. i \in Nat /\ Len(posted) - 1 = Len(posted')
      BY <1>2, <1>3
    <3>. QED
      BY <1>3, <3>1, LastOfTail
  <2>. QED
    BY <2>1, <2>2, <2>3
<1>. QED
  BY <1>1, <1>2, <1>5 DEF ThreadOK

(* A conflict is announced, or settled: the row of the active job changes.  *)
LEMMA RowIInv ==
  ASSUME IInv, posted # <<>>, posted' = Tail(posted), NEW s \in Active,
         state' = [state EXCEPT ![Head(posted).job] = s],
         sheet' \in {sheet, Head(posted).job},
         UNCHANGED <<list, active, turn, manager, gio, kind, thread, disk, cancelled, conflict>>
  PROVE  IInv'
<1>1. active \in Jobs /\ Head(posted).job = active /\ manager # "gone"
  BY ClosuresAreOfTheActive
<1>2. UNCHANGED <<listed, born, active, turn, manager, call, attempt, kind, worker, item, left,
                  skipped, result, source, copy, cancelled, conflict>>
  BY DEF list, gio, thread, disk
<1>3. /\ state' \in [Jobs -> States] /\ state'[active] = s
      /\ \A i \in Jobs : i # active => state'[i] = state[i]
  BY <1>1 DEF IInv, RemoteTypeOK, States, Active
<1>4. RemoteTypeOK'
  BY <1>1, <1>2, <1>3 DEF IInv, RemoteTypeOK
<1>5. RowsOK'
  BY <1>1, <1>2, <1>3, NamesAssumption DEF IInv, RowsOK, Active
<1>6. ThreadOK' /\ posted' \in Seq(Closures)
  BY <1>2, TailThreadOK
<1>7. FilesOK'
  BY <1>2 DEF IInv, FilesOK, Copying
<1>. QED
  BY <1>4, <1>5, <1>6, <1>7 DEF IInv

LEMMA RunRaiseIInv ==
  ASSUME IInv, RunRaise
  PROVE  IInv'
BY RowIInv DEF RunRaise, RunClosure, SameContext, Active

LEMMA RunResumeIInv ==
  ASSUME IInv, RunResume
  PROVE  IInv'
BY RowIInv DEF RunResume, RunClosure, SameContext, Active

LEMMA RunFinishIInv ==
  ASSUME IInv, RunFinish
  PROVE  IInv'
<1>1. /\ posted # <<>> /\ Head(posted).op = "finish" /\ posted' = Tail(posted) /\ manager = "alive"
      /\ source' = Pieces /\ copy' = {} /\ skipped' = FALSE /\ UNCHANGED <<worker, item, left, result>>
  BY DEF RunFinish, RunClosure, Idle
<1>2. /\ Head(posted) \in Closures /\ Head(posted).job = active /\ active \in Jobs
      /\ posted' = <<>> /\ worker \in {"none", "exit"}
  BY <1>1, ClosuresAreOfTheActive
<1>3. Head(posted).arg \in Finished /\ Finish(Head(posted).arg)
  BY <1>2 DEF Closures, RunFinish
<1>4. source' \cup copy' = Pieces /\ source' \subseteq Pieces /\ copy' \subseteq Pieces
  BY <1>1
<1>. QED
  BY <1>1, <1>2, <1>3, <1>4, FinishIInv

-----------------------------------------------------------------------------
LEMMA InitIInv == Init => IInv
<1>. SUFFICES ASSUME Init PROVE IInv
  OBVIOUS
<1>1. Blank \in [resolved : BOOLEAN, decision : Answers, persistent : Answers \cup {NoChoice}]
      /\ 0 \in 0 .. MaxAttempts
  BY LimitsAssumption DEF Blank, Answers
<1>2. RemoteTypeOK
  BY <1>1 DEF Init, RemoteTypeOK, States, Kinds, Finished
<1>3. posted \in Seq(Closures) /\ posted = <<>> /\ Len(posted) = 0
  BY EmptySeq DEF Init
<1>4. RowsOK
  BY NamesAssumption DEF Init, RowsOK, Active
<1>5. ThreadOK
  BY <1>3 DEF Init, ThreadOK
<1>6. FilesOK
  BY DEF Init, FilesOK, Copying
<1>. QED
  BY <1>2, <1>3, <1>4, <1>5, <1>6 DEF IInv

LEMMA StutterIInv ==
  ASSUME IInv, UNCHANGED vars
  PROVE  IInv'
<1>1. /\ UNCHANGED <<listed, born, state, active, turn, sheet, manager, call, attempt, kind>>
      /\ UNCHANGED <<worker, item, left, skipped, result, source, copy, cancelled, conflict, posted>>
  BY DEF vars, gui, gio, thread, disk
<1>. QED
  BY <1>1 DEF IInv, RemoteTypeOK, RowsOK, ThreadOK, FilesOK

LEMMA NextIInv == IInv /\ [Next]_vars => IInv'
<1>. SUFFICES ASSUME IInv, [Next]_vars PROVE IInv'
  OBVIOUS
<1>1. CASE \E j \in Jobs : Enqueue(j) \/ Cancel(j)
  BY <1>1, EnqueueIInv, CancelIInv
<1>2. CASE \E d \in Answers, all \in BOOLEAN : Choose(d, all)
  BY <1>2, ChooseIInv
<1>3. CASE Dismiss \/ BeginDestroy \/ EndDestroy
  BY <1>3, DismissIInv, BeginDestroyIInv, EndDestroyIInv
<1>4. CASE Loop
  BY <1>4, StartNextIInv, RunRaiseIInv, RunResumeIInv, RunFinishIInv DEF Loop
<1>5. CASE GioReady
  BY <1>5, SingleReadyIInv, TypeReadyIInv, TransferReadyIInv, TransferExistsIInv, OrphanReadyIInv
     DEF GioReady
<1>6. CASE Worker
  BY <1>6, TryCopyIInv, MeetConflictIInv, FallAsleepIInv, WakeIInv, NextChildIInv, CleanUpIInv,
     DeleteSourceIInv, PostResultIInv, ThreadReturnsIInv DEF Worker
<1>7. CASE Stopped \/ UNCHANGED vars
  BY <1>7, StutterIInv DEF Stopped
<1>. QED
  BY <1>1, <1>2, <1>3, <1>4, <1>5, <1>6, <1>7 DEF Next

LEMMA Invariance == FairSpec => []IInv
BY InitIInv, NextIInv, PTL DEF FairSpec

(* One job works at a time and its row says so, whatever the thread of a tree
   posts late; and a directory that is moved has each of its files in the
   source or in the copy, whatever fails, is skipped or is cancelled between
   copyDirectoryTree and the removal of the source. *)
THEOREM RemoteWorkStaysSafe == FairSpec => []RemoteWorkIsSafe
<1>1. IInv => RemoteWorkIsSafe
  BY DEF IInv, RowsOK, Active, FilesOK, RemoteWorkIsSafe, OnlyTheActiveJobRuns, TreeMoveKeepsData
<1>. QED
  BY <1>1, Invariance, PTL

-----------------------------------------------------------------------------
(* The list is a JobBoard.  BoardStep says what a step of it may be.        *)
BoardStep == Board!Next \/ UNCHANGED <<listed, state>>

LEMMA ActiveIsListed ==
  ASSUME IInv, manager # "gone", active \in Jobs
  PROVE  active \in listed /\ state[active] \in Active
BY DEF IInv, RowsOK, Active

LEMMA FinishEnds ==
  ASSUME IInv, manager = "alive", active \in Jobs, NEW o \in Finished, Finish(o)
  PROVE  BoardStep
<1>1. Board!End(active)
  BY ActiveIsListed DEF Finish, list, Active, Finished, Board!End, Board!Becomes, Board!Active, Board!Final
<1>. QED
  BY <1>1 DEF BoardStep, Board!Next

LEMMA EnqueueAdds ==
  ASSUME IInv, NEW j \in Jobs, Enqueue(j)
  PROVE  BoardStep
<1>1. state[j] = "Unknown" /\ listed' = (listed \ Pruned) \cup {j} /\ state' = [state EXCEPT ![j] = "Queued"]
  BY DEF Enqueue
<1>2. Pruned \in SUBSET {i \in listed : state[i] \in Board!Final}
  BY DEF Pruned, Terminal, Finished, Board!Final
<1>3. Board!Add(j)
  BY <1>1, <1>2 DEF Board!Add, Board!Becomes
<1>. QED
  BY <1>3 DEF BoardStep, Board!Next

LEMMA StartNextRuns ==
  ASSUME IInv, StartNext
  PROVE  BoardStep
<1>1. UNCHANGED listed
  BY DEF StartNext, list
<1>2. CASE UNCHANGED state
  BY <1>1, <1>2 DEF BoardStep
<1>3. CASE \E j \in Queued : state' = [state EXCEPT ![j] = "Running"]
  <2>1. PICK j \in Jobs : /\ j \in listed /\ state[j] = "Queued"
                          /\ state' = [state EXCEPT ![j] = "Running"]
    BY <1>3 DEF Queued, IInv, RemoteTypeOK
  <2>2. Board!Run(j)
    BY <1>1, <2>1 DEF Board!Run, Board!Becomes, Board!Active
  <2>. QED
    BY <2>2 DEF BoardStep, Board!Next
<1>. QED
  BY <1>2, <1>3 DEF StartNext

(* The active job asks, or goes on.                                         *)
LEMMA ActiveAsks ==
  ASSUME IInv, manager # "gone", active \in Jobs, UNCHANGED listed,
         state' = [state EXCEPT ![active] = "WaitingForConflict"]
  PROVE  BoardStep
<1>1. CASE state[active] = "Running"
  <2>1. Board!Raise(active)
    BY <1>1, ActiveIsListed DEF Board!Raise, Board!Becomes
  <2>. QED
    BY <2>1 DEF BoardStep, Board!Next
<1>2. CASE state[active] = "WaitingForConflict"
  <2>1. UNCHANGED state
    BY <1>2 DEF IInv, RemoteTypeOK
  <2>. QED
    BY <2>1 DEF BoardStep
<1>. QED
  BY <1>1, <1>2, ActiveIsListed DEF Active

LEMMA ActiveGoesOn ==
  ASSUME IInv, manager # "gone", active \in Jobs, UNCHANGED listed,
         state' = [state EXCEPT ![active] = "Running"]
  PROVE  BoardStep
<1>1. Board!Run(active)
  BY ActiveIsListed DEF Active, Board!Run, Board!Becomes, Board!Active
<1>. QED
  BY <1>1 DEF BoardStep, Board!Next

LEMMA GioReadySteps ==
  ASSUME IInv, GioReady
  PROVE  BoardStep
<1>1. CASE OrphanReady
  BY <1>1 DEF OrphanReady, gui, BoardStep
<1>2. CASE ~OrphanReady
  <2>1. manager = "alive" /\ active \in Jobs
    <3>1. manager = "alive" /\ call # "none"
      BY <1>2 DEF GioReady, SingleReady, TypeReady, TransferReady, TransferExists, Idle
    <3>. QED
      BY <3>1, CallsHaveJobs
  <2>2. \/ \E o \in Finished : Finish(o)
        \/ UNCHANGED <<listed, state>>
        \/ UNCHANGED listed /\ state' = [state EXCEPT ![active] = "WaitingForConflict"]
    <3>1. CASE SingleReady \/ TransferReady
      BY <3>1 DEF SingleReady, TransferReady, FailedCall, Finished
    <3>2. CASE TypeReady
      BY <3>2 DEF TypeReady, StartTree, FailedCall, Finished, gui
    <3>3. CASE TransferExists
      BY <3>3 DEF TransferExists, Finished, gui, list
    <3>. QED
      BY <1>2, <3>1, <3>2, <3>3 DEF GioReady
  <2>3. CASE \E o \in Finished : Finish(o)
    BY <2>1, <2>3, FinishEnds
  <2>4. CASE UNCHANGED <<listed, state>>
    BY <2>4 DEF BoardStep
  <2>5. CASE UNCHANGED listed /\ state' = [state EXCEPT ![active] = "WaitingForConflict"]
    BY <2>1, <2>5, ActiveAsks
  <2>. QED
    BY <2>2, <2>3, <2>4, <2>5
<1>. QED
  BY <1>1, <1>2

LEMMA CancelSteps ==
  ASSUME IInv, NEW j \in Jobs, Cancel(j)
  PROVE  BoardStep
<1>1. manager = "alive" /\ j \in listed
  BY DEF Cancel, Idle
<1>2. CASE active = j /\ Finish("Cancelled")
  BY <1>1, <1>2, FinishEnds DEF Finished
<1>3. CASE UNCHANGED gui
  BY <1>3 DEF gui, BoardStep
<1>4. CASE /\ state[j] = "Queued" /\ state' = [state EXCEPT ![j] = "Cancelled"]
           /\ UNCHANGED list
  <2>1. Board!Withdraw(j)
    BY <1>1, <1>4 DEF list, Board!Withdraw, Board!Becomes
  <2>. QED
    BY <2>1 DEF BoardStep, Board!Next
<1>. QED
  BY <1>2, <1>3, <1>4 DEF Cancel

LEMMA ChooseSteps ==
  ASSUME IInv, NEW d \in Answers, NEW all \in BOOLEAN, Choose(d, all)
  PROVE  BoardStep
<1>1. manager = "alive" /\ sheet \in Jobs
  BY DEF Choose, Idle, IInv, RemoteTypeOK
<1>2. CASE Resolve(sheet, d, all)
  <2>1. \/ UNCHANGED <<listed, state>>
        \/ \E o \in Finished : Finish(o)
        \/ UNCHANGED listed /\ state' = [state EXCEPT ![sheet] = "Running"]
    BY <1>2 DEF Resolve, list, Finished
  <2>2. active = sheet
    BY <1>2 DEF Resolve
  <2>. QED
    BY <1>1, <2>1, <2>2, FinishEnds, ActiveGoesOn DEF BoardStep
<1>3. CASE UNCHANGED <<list, state>>
  BY <1>3 DEF list, BoardStep
<1>. QED
  BY <1>2, <1>3 DEF Choose

LEMMA DismissClears ==
  ASSUME IInv, Dismiss
  PROVE  BoardStep
<1>1. PICK dismissed \in {{j} : j \in {j \in listed : Terminal(j)}} \cup {{j \in listed : Terminal(j)}} :
        listed' = listed \ dismissed
  BY DEF Dismiss
<1>2. dismissed \in SUBSET {i \in listed : state[i] \in Board!Final} /\ UNCHANGED state
  BY <1>1 DEF Dismiss, Terminal, Finished, Board!Final
<1>3. Board!Clear
  BY <1>1, <1>2 DEF Board!Clear
<1>. QED
  BY <1>3 DEF BoardStep, Board!Next

LEMMA ClosureSteps ==
  ASSUME IInv, RunRaise \/ RunResume \/ RunFinish
  PROVE  BoardStep
<1>1. posted # <<>> /\ posted' = Tail(posted)
  BY DEF RunRaise, RunResume, RunFinish, RunClosure
<1>2. Head(posted).job = active /\ active \in Jobs /\ manager # "gone" /\ Head(posted) \in Closures
  BY <1>1, ClosuresAreOfTheActive
<1>3. CASE RunRaise
  BY <1>2, <1>3, ActiveAsks DEF RunRaise, list
<1>4. CASE RunResume
  BY <1>2, <1>4, ActiveGoesOn DEF RunResume, list
<1>5. CASE RunFinish
  <2>1. Finish(Head(posted).arg) /\ Head(posted).arg \in Finished /\ manager = "alive"
    BY <1>2, <1>5 DEF RunFinish, RunClosure, Idle, Closures
  <2>. QED
    BY <1>2, <2>1, FinishEnds
<1>. QED
  BY <1>3, <1>4, <1>5

(* The thread says nothing on the list itself.                              *)
LEMMA ThreadIsSilent ==
  ASSUME Worker
  PROVE  BoardStep
<1>1. Private
  BY DEF Worker, TryCopy, MeetConflict, FallAsleep, Wake, Follow, NextChild, CleanUp, DeleteSource,
         PostResult, ThreadReturns
<1>. QED
  BY <1>1 DEF Private, gui, BoardStep

LEMMA InitBoard == Init => Board!Init
BY DEF Init, Board!Init

LEMMA NextBoard == IInv /\ [Next]_vars => [Board!Next]_(Board!vars)
<1>. SUFFICES ASSUME IInv, [Next]_vars PROVE BoardStep
  BY DEF BoardStep, Board!vars
<1>1. CASE \E j \in Jobs : Enqueue(j) \/ Cancel(j)
  BY <1>1, EnqueueAdds, CancelSteps
<1>2. CASE \E d \in Answers, all \in BOOLEAN : Choose(d, all)
  BY <1>2, ChooseSteps
<1>3. CASE Dismiss
  BY <1>3, DismissClears
<1>4. CASE BeginDestroy \/ EndDestroy
  BY <1>4 DEF BeginDestroy, EndDestroy, list, BoardStep
<1>5. CASE Loop
  BY <1>5, StartNextRuns, ClosureSteps DEF Loop
<1>6. CASE GioReady
  BY <1>6, GioReadySteps
<1>7. CASE Worker
  BY <1>7, ThreadIsSilent
<1>8. CASE Stopped \/ UNCHANGED vars
  BY <1>8 DEF Stopped, vars, gui, BoardStep
<1>. QED
  BY <1>1, <1>2, <1>3, <1>4, <1>5, <1>6, <1>7, <1>8 DEF Next

(* RemoteOperationManager's list behaves as JobBoard says: a row that ended
   never runs again, only such a row goes, and a job is listed once. *)
THEOREM RemoteQueueImplementsBoard == FairSpec => RemoteRefinesJobBoard
BY InitBoard, NextBoard, Invariance, PTL DEF FairSpec, RemoteRefinesJobBoard, Board!Spec
=============================================================================

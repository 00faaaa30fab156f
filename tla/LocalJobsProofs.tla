--------------------------- MODULE LocalJobsProofs ---------------------------
(***************************************************************************)
(* Proofs about the local jobs, for any number of jobs, sources and pool   *)
(* threads.  OperationManager: every job that is alive has a row, the      *)
(* destructor leaves no thread behind, and the list is a JobBoard.         *)
(* ConflictSheet: what the window shows of a job is true, and no decision  *)
(* is carried out on a conflict its user has not seen.                     *)
(***************************************************************************)
EXTENDS ConflictSheet, FileTransfer, FiniteSetTheorems, TLAPS

(* A job nobody has asked for, or that no pool thread has picked up yet, is
   still Queued and has posted nothing. *)
UnstartedIsBlank ==
  \A j \in Jobs : pc[j] \in {"none", "pooled"} =>
    /\ state[j] = "Queued"
    /\ \A a \in 1 .. Len(posted) : posted[a].job # j

(* finishJob's closure is the last one a body posts. *)
FinishIsLast ==
  \A a \in 1 .. Len(posted) : posted[a].op = "finish" =>
    /\ pc[posted[a].job] = "exited"
    /\ \A b \in a + 1 .. Len(posted) : posted[b].job # posted[a].job

(* A row in a final state belongs to a body that has returned and whose
   closures have all been run. *)
TerminalIsQuiet ==
  \A j \in Jobs : Terminal(j) =>
    /\ pc[j] = "exited"
    /\ \A a \in 1 .. Len(posted) : posted[a].job # j

(* From the conflict test on, the loop is at one of the sources. *)
ItemInRequest ==
  \A j \in Jobs : pc[j] \in {"conflict", "arm", "wait", "decided", "transfer"} =>
    item[j] <= total[j]

IInv ==
  /\ TypeOK
  /\ ItemInRequest
  /\ UnstartedIsBlank
  /\ FinishIsLast
  /\ TerminalIsQuiet
  /\ LiveJobIsListed
  /\ NoWorkerOutlivesManager

----------------------------------------------------------------------------
(* The rows' serial numbers stay in range: a job that has not been started is
   not counted yet. *)
LEMMA SerialInRange ==
  ASSUME TypeOK, NEW j \in Jobs, pc[j] = "none"
  PROVE  Cardinality({i \in Jobs : pc[i] # "none"}) + 1 \in Serial
<1> DEFINE started == {i \in Jobs : pc[i] # "none"}
<1>1. /\ IsFiniteSet(started) /\ Cardinality(started) <= Cardinality(Jobs)
      /\ Cardinality(started) # Cardinality(Jobs)
  BY FS_Subset, JobsAssumption
<1>2. Cardinality(started) \in Nat /\ Cardinality(Jobs) \in Nat
  BY <1>1, FS_CardinalityType, JobsAssumption
<1>. QED
  BY <1>1, <1>2 DEF Serial

LEMMA InitIInv == Init => IInv
BY BoundsAssumption, FS_CardinalityType, JobsAssumption
   DEF Init, IInv, TypeOK, ItemInRequest, UnstartedIsBlank, FinishIsLast, TerminalIsQuiet,
       LiveJobIsListed, NoWorkerOutlivesManager, Terminal, Finished, States,
       Decisions, NoChoice, AllKinds, Inactive, Busy, Serial

----------------------------------------------------------------------------
(* Sequences of closures. *)
LEMMA AppendClosure ==
  ASSUME NEW s \in Seq(Closures), NEW c \in Closures
  PROVE  /\ Append(s, c) \in Seq(Closures)
         /\ Len(s) \in Nat
         /\ Len(Append(s, c)) = Len(s) + 1
         /\ \A a \in 1 .. Len(s) : Append(s, c)[a] = s[a]
         /\ Append(s, c)[Len(s) + 1] = c
OBVIOUS

LEMMA TailClosure ==
  ASSUME NEW s \in Seq(Closures), s # <<>>
  PROVE  /\ Tail(s) \in Seq(Closures)
         /\ Head(s) \in Closures /\ Head(s) = s[1]
         /\ Len(s) \in Nat \ {0} /\ Len(Tail(s)) = Len(s) - 1
         /\ \A a \in 1 .. Len(Tail(s)) : Tail(s)[a] = s[a + 1]
OBVIOUS

LEMMA ClosureJob == \A c \in Closures : c.job \in Jobs
BY DEF Closures

(* What every step of worker j does to the closures: it may add some of its
   own, and adds finishJob's only as the last one, when its body returns. *)
PostsOwn(j) ==
  /\ posted' \in Seq(Closures)
  /\ Len(posted) <= Len(posted')
  /\ \A a \in 1 .. Len(posted) : posted'[a] = posted[a]
  /\ \A a \in Len(posted) + 1 .. Len(posted') :
       /\ posted'[a].job = j
       /\ posted'[a].op = "finish" => a = Len(posted') /\ pc'[j] = "exited"

(* Such a step keeps everything but the types, whatever else it does. *)
LEMMA WorkerStep ==
  ASSUME IInv, NEW j \in Jobs, NEW p \in Busy \cup {"exited"},
         pc[j] \in Busy \cup {"pooled"}, pc' = [pc EXCEPT ![j] = p],
         PostsOwn(j), UNCHANGED <<listed, state, manager>>
  PROVE  /\ UnstartedIsBlank' /\ FinishIsLast' /\ TerminalIsQuiet'
         /\ LiveJobIsListed' /\ NoWorkerOutlivesManager'
<1>1. /\ posted \in Seq(Closures) /\ Len(posted) \in Nat /\ Len(posted') \in Nat
      /\ pc \in [Jobs -> Inactive \cup Busy]
      /\ \A a \in 1 .. Len(posted) : posted[a].job \in Jobs
  BY ClosureJob DEF IInv, TypeOK, PostsOwn
<1>2. /\ pc'[j] = p /\ p \notin {"none", "pooled"}
      /\ \A i \in Jobs : i # j => pc'[i] = pc[i]
      /\ pc[j] # "exited" /\ pc[j] # "none"
  BY <1>1 DEF Busy, Inactive
<1>3. \A i \in Jobs : i # j =>
        ((\A a \in 1 .. Len(posted) : posted[a].job # i)
           => \A a \in 1 .. Len(posted') : posted'[a].job # i)
  BY <1>1 DEF PostsOwn
<1>4. UnstartedIsBlank'
  BY <1>2, <1>3 DEF IInv, UnstartedIsBlank
<1>5. TerminalIsQuiet'
  BY <1>2, <1>3 DEF IInv, TerminalIsQuiet, Terminal
<1>6. FinishIsLast'
  <2> SUFFICES ASSUME NEW a \in 1 .. Len(posted'), posted'[a].op = "finish"
               PROVE  /\ pc'[posted'[a].job] = "exited"
                      /\ \A b \in a + 1 .. Len(posted') : posted'[b].job # posted'[a].job
    BY DEF FinishIsLast
  <2>1. CASE a <= Len(posted)
    <3>1. /\ posted'[a] = posted[a] /\ pc[posted[a].job] = "exited"
          /\ \A b \in a + 1 .. Len(posted) : posted[b].job # posted[a].job
      BY <1>1, <2>1 DEF IInv, FinishIsLast, PostsOwn
    <3>2. posted[a].job # j /\ pc'[posted[a].job] = "exited"
      BY <1>1, <1>2, <2>1, <3>1
    <3>3. \A b \in a + 1 .. Len(posted') : posted'[b].job # posted[a].job
      BY <1>1, <3>1, <3>2 DEF PostsOwn
    <3>. QED
      BY <3>1, <3>2, <3>3
  <2>2. CASE a > Len(posted)
    BY <1>1, <2>2 DEF PostsOwn
  <2>. QED
    BY <1>1, <2>1, <2>2
<1>7. LiveJobIsListed' /\ NoWorkerOutlivesManager'
  BY <1>1, <1>2 DEF IInv, LiveJobIsListed, NoWorkerOutlivesManager, Busy
<1>. QED
  BY <1>4, <1>5, <1>6, <1>7

(* Posting nothing, one closure, or two. *)
LEMMA PostNone ==
  ASSUME IInv, NEW j \in Jobs, UNCHANGED posted
  PROVE  PostsOwn(j)
BY DEF IInv, TypeOK, PostsOwn

LEMMA PostOne ==
  ASSUME IInv, NEW j \in Jobs, NEW what, NEW arg, Closure(j, what, arg) \in Closures,
         Post(j, what, arg), what = "finish" => pc'[j] = "exited"
  PROVE  PostsOwn(j)
<1>1. posted \in Seq(Closures)
  BY DEF IInv, TypeOK
<1>. QED
  BY <1>1, AppendClosure DEF Post, PostsOwn, Closure

LEMMA PostTwo ==
  ASSUME IInv, NEW j \in Jobs, NEW op1, NEW op2, NEW arg1, NEW arg2,
         Closure(j, op1, arg1) \in Closures, Closure(j, op2, arg2) \in Closures,
         op1 # "finish", op2 = "finish" => pc'[j] = "exited",
         posted' = Append(Append(posted, Closure(j, op1, arg1)), Closure(j, op2, arg2))
  PROVE  PostsOwn(j)
<1> DEFINE one == Append(posted, Closure(j, op1, arg1))
<1>1. posted \in Seq(Closures)
  BY DEF IInv, TypeOK
<1>2. /\ one \in Seq(Closures) /\ Len(posted) \in Nat /\ Len(one) = Len(posted) + 1
      /\ \A a \in 1 .. Len(posted) : one[a] = posted[a]
      /\ one[Len(posted) + 1] = Closure(j, op1, arg1)
  BY <1>1, AppendClosure
<1>3. /\ posted' \in Seq(Closures) /\ Len(posted') = Len(one) + 1
      /\ \A a \in 1 .. Len(one) : posted'[a] = one[a]
      /\ posted'[Len(one) + 1] = Closure(j, op2, arg2)
  BY <1>2, AppendClosure
<1> HIDE DEF one
<1>. QED
  BY <1>1, <1>2, <1>3 DEF PostsOwn, Closure

(* The two ways an iteration ends. *)
LEMMA LeaveIInv ==
  ASSUME IInv, NEW j \in Jobs, pc[j] \in Busy, NEW result \in Finished,
         Leave(j, result), WorkerOnly
  PROVE  IInv'
<1>1. PostsOwn(j)
  <2>1. pc'[j] = "exited"
    BY DEF Leave, Goto, IInv, TypeOK
  <2>. QED
    BY <2>1, PostOne DEF Leave, Closure, Closures
<1>2. TypeOK' /\ ItemInRequest'
  BY <1>1 DEF IInv, TypeOK, ItemInRequest, PostsOwn, Leave, Goto, WorkerOnly, gui, shared,
              request, Inactive
<1>3. UnstartedIsBlank' /\ FinishIsLast' /\ TerminalIsQuiet' /\ LiveJobIsListed'
      /\ NoWorkerOutlivesManager'
  BY <1>1, WorkerStep, "exited" \in Busy \cup {"exited"} DEF Leave, Goto, WorkerOnly, gui
<1>. QED
  BY <1>2, <1>3 DEF IInv

LEMMA NextSourceIInv ==
  ASSUME IInv, NEW j \in Jobs, pc[j] \in Busy, item[j] <= total[j],
         NextSource(j), WorkerOnly
  PROVE  IInv'
<1>1. PostsOwn(j)
  BY PostOne DEF NextSource, Closure, Closures
<1>2. TypeOK' /\ ItemInRequest'
  BY <1>1, BoundsAssumption
     DEF IInv, TypeOK, ItemInRequest, PostsOwn, NextSource, Goto, WorkerOnly, gui, shared,
         request, Busy
<1>3. UnstartedIsBlank' /\ FinishIsLast' /\ TerminalIsQuiet' /\ LiveJobIsListed'
      /\ NoWorkerOutlivesManager'
  BY <1>1, WorkerStep, "item" \in Busy \cup {"exited"}
     DEF NextSource, Goto, WorkerOnly, gui, Busy
<1>. QED
  BY <1>2, <1>3 DEF IInv

(* A step that only moves to another place of the body. *)
LEMMA MoveIInv ==
  ASSUME IInv, NEW j \in Jobs, pc[j] \in Busy, NEW p \in Busy, Goto(j, p),
         item[j] <= total[j], UNCHANGED <<posted, item>>,
         choice' \in [Jobs -> Decisions \cup {NoChoice}],
         resolved' \in [Jobs -> BOOLEAN],
         UNCHANGED <<gui, manager, cancelRequested, answer, persistent, request>>
  PROVE  IInv'
<1>1. PostsOwn(j)
  BY PostNone
<1>2. TypeOK' /\ ItemInRequest'
  BY DEF IInv, TypeOK, ItemInRequest, Goto, gui, request
<1>3. UnstartedIsBlank' /\ FinishIsLast' /\ TerminalIsQuiet' /\ LiveJobIsListed'
      /\ NoWorkerOutlivesManager'
  BY <1>1, WorkerStep DEF Goto, gui
<1>. QED
  BY <1>2, <1>3 DEF IInv

LEMMA BeginIInv == ASSUME IInv, NEW j \in Jobs, Begin(j) PROVE IInv'
<1> DEFINE p == CASE kind[j] = "createFolder" -> "create"
                  [] kind[j] = "archive"      -> "engine"
                  [] OTHER                    -> "item"
<1>1. p \in {"create", "engine", "item"} /\ pc' = [pc EXCEPT ![j] = p]
  BY DEF Begin, Goto
<1> HIDE DEF p
<1>2. PostsOwn(j)
  BY PostOne DEF Begin, Closure, Closures
<1>3. TypeOK' /\ ItemInRequest'
  BY <1>1, <1>2 DEF IInv, TypeOK, ItemInRequest, PostsOwn, Begin, WorkerOnly, gui, shared,
                    request, Busy
<1>4. UnstartedIsBlank' /\ FinishIsLast' /\ TerminalIsQuiet' /\ LiveJobIsListed'
      /\ NoWorkerOutlivesManager'
  <2>1. p \in Busy \cup {"exited"} /\ pc[j] \in Busy \cup {"pooled"}
    BY <1>1 DEF Begin, Busy
  <2>. QED
    BY <1>1, <1>2, <2>1, WorkerStep DEF Begin, WorkerOnly, gui
<1>. QED
  BY <1>3, <1>4 DEF IInv

LEMMA EndItemsIInv == ASSUME IInv, NEW j \in Jobs, EndItems(j) PROVE IInv'
BY LeaveIInv DEF EndItems, Finished, Busy

LEMMA DeleteItemIInv == ASSUME IInv, NEW j \in Jobs, DeleteItem(j) PROVE IInv'
BY LeaveIInv, NextSourceIInv DEF DeleteItem, Finished, Busy

LEMMA InspectItemIInv == ASSUME IInv, NEW j \in Jobs, InspectItem(j) PROVE IInv'
<1>1. CASE NextSource(j)
  BY <1>1, NextSourceIInv DEF InspectItem, Busy
<1>2. CASE Leave(j, "Failed")
  BY <1>2, LeaveIInv DEF InspectItem, Finished, Busy
<1>3. ASSUME NEW p \in {"transfer", "conflict"}, Goto(j, p), UNCHANGED <<posted, item, choice>>
      PROVE  IInv'
  <2>1. pc[j] \in Busy /\ p \in Busy /\ item[j] <= total[j]
    BY DEF InspectItem, Busy
  <2>. QED
    BY <1>3, <2>1, MoveIInv DEF InspectItem, WorkerOnly, shared, IInv, TypeOK
<1>. QED
  BY <1>1, <1>2, <1>3 DEF InspectItem

LEMMA ReuseAnswerIInv == ASSUME IInv, NEW j \in Jobs, pc[j] = "conflict", ReuseAnswer(j)
                    PROVE  IInv'
<1>1. /\ pc[j] \in Busy /\ "decided" \in Busy /\ item[j] <= total[j]
      /\ choice' \in [Jobs -> Decisions \cup {NoChoice}]
  BY DEF ReuseAnswer, Busy, IInv, TypeOK, ItemInRequest
<1>. QED
  BY <1>1, MoveIInv DEF ReuseAnswer, WorkerOnly, shared, IInv, TypeOK

LEMMA AnnounceIInv == ASSUME IInv, NEW j \in Jobs, pc[j] = "conflict", Announce(j)
                    PROVE  IInv'
<1>1. item[j] \in 1 .. MaxItems /\ item[j] <= total[j]
  BY BoundsAssumption DEF Announce, IInv, TypeOK, ItemInRequest
<1>2. PostsOwn(j)
  BY <1>1, PostTwo DEF Announce, Closure, Closures
<1>3. TypeOK' /\ ItemInRequest'
  BY <1>1, <1>2 DEF IInv, TypeOK, ItemInRequest, PostsOwn, Announce, Goto, WorkerOnly, gui,
                    shared, request, Busy
<1>4. UnstartedIsBlank' /\ FinishIsLast' /\ TerminalIsQuiet' /\ LiveJobIsListed'
      /\ NoWorkerOutlivesManager'
  BY <1>2, WorkerStep, "arm" \in Busy, "conflict" \in Busy DEF Announce, Goto, WorkerOnly, gui, Busy
<1>. QED
  BY <1>3, <1>4 DEF IInv

LEMMA ArmIInv == ASSUME IInv, NEW j \in Jobs, Arm(j) PROVE IInv'
<1>1. /\ pc[j] \in Busy /\ "wait" \in Busy /\ item[j] <= total[j]
      /\ resolved' \in [Jobs -> BOOLEAN]
  BY DEF Arm, Busy, IInv, TypeOK, ItemInRequest
<1>. QED
  BY <1>1, MoveIInv DEF Arm, IInv, TypeOK

LEMMA WakeCancelledIInv == ASSUME IInv, NEW j \in Jobs, WakeCancelled(j) PROVE IInv'
<1>1. /\ pc[j] \in Busy /\ "decided" \in Busy /\ item[j] <= total[j]
      /\ choice' \in [Jobs -> Decisions \cup {NoChoice}]
  BY DEF WakeCancelled, Busy, IInv, TypeOK, ItemInRequest, Decisions
<1>. QED
  BY <1>1, MoveIInv DEF WakeCancelled, WorkerOnly, shared, IInv, TypeOK

LEMMA WakeAnsweredIInv == ASSUME IInv, NEW j \in Jobs, WakeAnswered(j) PROVE IInv'
<1>1. PostsOwn(j)
  BY PostOne DEF WakeAnswered, Closure, Closures
<1>2. TypeOK' /\ ItemInRequest'
  BY <1>1 DEF IInv, TypeOK, ItemInRequest, PostsOwn, WakeAnswered, Goto, gui, request, Busy
<1>3. UnstartedIsBlank' /\ FinishIsLast' /\ TerminalIsQuiet' /\ LiveJobIsListed'
      /\ NoWorkerOutlivesManager'
  BY <1>1, WorkerStep, "decided" \in Busy, "wait" \in Busy
     DEF WakeAnswered, Goto, gui, Busy
<1>. QED
  BY <1>2, <1>3 DEF IInv

LEMMA DecideIInv == ASSUME IInv, NEW j \in Jobs, Decide(j) PROVE IInv'
<1>1. pc[j] \in Busy /\ "transfer" \in Busy /\ item[j] <= total[j]
  BY DEF Decide, Busy, IInv, ItemInRequest
<1>2. CASE Leave(j, "Cancelled") \/ Leave(j, "Failed")
  BY <1>1, <1>2, LeaveIInv DEF Decide, Finished
<1>3. CASE NextSource(j)
  BY <1>1, <1>3, NextSourceIInv DEF Decide
<1>4. CASE Goto(j, "transfer") /\ UNCHANGED <<posted, item, choice>>
  BY <1>1, <1>4, MoveIInv DEF Decide, WorkerOnly, shared, IInv, TypeOK
<1>. QED
  BY <1>2, <1>3, <1>4 DEF Decide

LEMMA TransferIInv == ASSUME IInv, NEW j \in Jobs, Transfer(j) PROVE IInv'
<1>1. pc[j] \in Busy /\ item[j] <= total[j]
  BY DEF Transfer, Busy, IInv, ItemInRequest
<1>2. CASE Leave(j, "Cancelled") \/ Leave(j, "Failed")
  BY <1>1, <1>2, LeaveIInv DEF Transfer, Finished
<1>3. CASE NextSource(j)
  BY <1>1, <1>3, NextSourceIInv DEF Transfer
<1>. QED
  BY <1>2, <1>3 DEF Transfer

LEMMA CreateFolderIInv == ASSUME IInv, NEW j \in Jobs, CreateFolder(j) PROVE IInv'
<1>1. CASE Leave(j, "Cancelled") \/ Leave(j, "Failed")
  BY <1>1, LeaveIInv DEF CreateFolder, Finished, Busy
<1>2. CASE /\ posted' = Append(Append(posted, Closure(j, "step", 0)),
                               Closure(j, "finish", "Completed"))
           /\ Goto(j, "exited") /\ UNCHANGED <<item, choice>>
  <2>1. PostsOwn(j)
    <3>1. pc'[j] = "exited"
      BY <1>2 DEF Goto, IInv, TypeOK
    <3>. QED
      BY <1>2, <3>1, PostTwo DEF Closure, Closures, Finished
  <2>2. TypeOK' /\ ItemInRequest'
    BY <1>2, <2>1 DEF IInv, TypeOK, ItemInRequest, PostsOwn, CreateFolder, Goto, WorkerOnly,
                      gui, shared, request, Inactive
  <2>3. UnstartedIsBlank' /\ FinishIsLast' /\ TerminalIsQuiet' /\ LiveJobIsListed'
        /\ NoWorkerOutlivesManager'
    BY <1>2, <2>1, WorkerStep, "exited" \in Busy \cup {"exited"}, "create" \in Busy
       DEF CreateFolder, Goto, WorkerOnly, gui, Busy
  <2>. QED
    BY <2>2, <2>3 DEF IInv
<1>. QED
  BY <1>1, <1>2 DEF CreateFolder

LEMMA RunEngineIInv == ASSUME IInv, NEW j \in Jobs, RunEngine(j) PROVE IInv'
BY LeaveIInv DEF RunEngine, Finished, Busy

----------------------------------------------------------------------------
(* The GUI thread's event loop. *)
LEMMA RunClosureStep ==
  ASSUME IInv, NEW what, RunClosure(what),
         \A j \in Jobs :
           \/ state'[j] = state[j]
           \/ /\ j = Head(posted).job
              /\ (state'[j] \in Finished) => (Head(posted).op = "finish")
  PROVE  UnstartedIsBlank' /\ FinishIsLast' /\ TerminalIsQuiet' /\ LiveJobIsListed'
         /\ NoWorkerOutlivesManager'
<1>1. /\ posted \in Seq(Closures) /\ posted # <<>> /\ posted' = Tail(posted)
      /\ UNCHANGED <<listed, pc, manager>>
  BY DEF IInv, TypeOK, RunClosure, worker
<1>2. /\ Head(posted) = posted[1] /\ Head(posted).job \in Jobs
      /\ Len(posted) \in Nat \ {0} /\ Len(posted') = Len(posted) - 1
      /\ \A a \in 1 .. Len(posted') : posted'[a] = posted[a + 1]
  BY <1>1, TailClosure, ClosureJob
<1>3. \A j \in Jobs : (\A a \in 1 .. Len(posted) : posted[a].job # j)
        => /\ \A a \in 1 .. Len(posted') : posted'[a].job # j
           /\ state'[j] = state[j]
  <2>1. 1 \in 1 .. Len(posted) /\ \A a \in 1 .. Len(posted') : a + 1 \in 1 .. Len(posted)
    BY <1>2
  <2>. QED
    BY <1>2, <2>1
<1>4. UnstartedIsBlank'
  BY <1>1, <1>3 DEF IInv, UnstartedIsBlank
<1>5. FinishIsLast'
  <2> SUFFICES ASSUME NEW a \in 1 .. Len(posted'), posted'[a].op = "finish"
               PROVE  /\ pc'[posted'[a].job] = "exited"
                      /\ \A b \in a + 1 .. Len(posted') : posted'[b].job # posted'[a].job
    BY DEF FinishIsLast
  <2>1. a + 1 \in 1 .. Len(posted) /\ posted[a + 1] = posted'[a]
    BY <1>2
  <2>2. /\ pc[posted[a + 1].job] = "exited"
        /\ \A b \in a + 2 .. Len(posted) : posted[b].job # posted[a + 1].job
    BY <2>1, <1>2 DEF IInv, FinishIsLast
  <2>. QED
    BY <1>1, <1>2, <2>1, <2>2
<1>6. TerminalIsQuiet'
  <2> SUFFICES ASSUME NEW j \in Jobs, state'[j] \in Finished
               PROVE  pc'[j] = "exited" /\ \A a \in 1 .. Len(posted') : posted'[a].job # j
    BY DEF TerminalIsQuiet, Terminal
  <2>1. CASE state'[j] = state[j]
    BY <1>1, <1>3, <2>1 DEF IInv, TerminalIsQuiet, Terminal
  <2>2. CASE j = posted[1].job /\ posted[1].op = "finish"
    <3>1. pc[j] = "exited" /\ \A b \in 2 .. Len(posted) : posted[b].job # j
      BY <1>2, <2>2 DEF IInv, FinishIsLast
    <3>. QED
      BY <1>1, <1>2, <3>1
  <2>. QED
    BY <1>2, <2>1, <2>2
<1>7. LiveJobIsListed' /\ NoWorkerOutlivesManager'
  BY <1>1 DEF IInv, LiveJobIsListed, NoWorkerOutlivesManager
<1>. QED
  BY <1>4, <1>5, <1>6, <1>7

LEMMA InRowType ==
  ASSUME NEW S, NEW f \in [Jobs -> S], NEW c, NEW v \in S
  PROVE  InRow(f, c, v) \in [Jobs -> S]
BY DEF InRow

LEMMA InRowValue ==
  ASSUME NEW S, NEW f \in [Jobs -> S], NEW c, NEW v, NEW j \in Jobs
  PROVE  \/ InRow(f, c, v)[j] = f[j]
         \/ (j = c.job /\ InRow(f, c, v)[j] = v)
BY DEF InRow

LEMMA LoopIInv == ASSUME IInv, Loop PROVE IInv'
<1> DEFINE c == Head(posted)
<1>1. /\ posted # <<>> /\ posted' = Tail(posted)
      /\ UNCHANGED <<listed, born, manager, shared, request, worker>>
  BY DEF Loop, RunRunning, RunWaiting, RunStep, RunFinish, RunRaise, RunClosure
<1>2. c \in Closures /\ c.job \in Jobs /\ posted' \in Seq(Closures)
  BY <1>1, TailClosure, ClosureJob DEF IInv, TypeOK
<1>3. /\ c.op = "waiting" => c.arg \in 0 .. MaxItems
      /\ c.op = "finish" => c.arg \in Finished
  BY <1>2, BoundsAssumption DEF Closures
<1> HIDE DEF c
<1>4. /\ state \in [Jobs -> States] /\ shown \in [Jobs -> 0 .. MaxItems]
      /\ completed \in [Jobs -> Nat]
  BY DEF IInv, TypeOK
<1>5. state' \in [Jobs -> States]
  <2>1. \/ state' = state
        \/ \E v \in States : state' = InRow(state, c, v)
    BY <1>3 DEF Loop, RunRunning, RunWaiting, RunStep, RunFinish, RunRaise, RunClosure, States, c
  <2> DEFINE S == States
  <2>2. state \in [Jobs -> S] /\ (state' = state \/ \E v \in S : state' = InRow(state, c, v))
    BY <1>4, <2>1
  <2> HIDE DEF S
  <2>3. state' \in [Jobs -> S]
    BY ONLY <2>2, InRowType
  <2>. QED
    BY <2>3 DEF S
<1>6. shown' \in [Jobs -> 0 .. MaxItems]
  <2>1. \/ shown' = shown
        \/ \E v \in 0 .. MaxItems : shown' = InRow(shown, c, v)
    BY <1>3, BoundsAssumption
       DEF Loop, RunRunning, RunWaiting, RunStep, RunFinish, RunRaise, RunClosure, c
  <2> DEFINE S == 0 .. MaxItems
  <2>2. shown \in [Jobs -> S] /\ (shown' = shown \/ \E v \in S : shown' = InRow(shown, c, v))
    BY <1>4, <2>1
  <2> HIDE DEF S
  <2>3. shown' \in [Jobs -> S]
    BY <2>2, InRowType
  <2>. QED
    BY <2>3 DEF S
<1>7. completed' \in [Jobs -> Nat]
  <2>1. \/ completed' = completed
        \/ \E v \in Nat : completed' = InRow(completed, c, v)
    BY <1>2, <1>4 DEF Loop, RunRunning, RunWaiting, RunStep, RunFinish, RunRaise, c
  <2> DEFINE S == Nat
  <2>2. /\ completed \in [Jobs -> S]
        /\ completed' = completed \/ \E v \in S : completed' = InRow(completed, c, v)
    BY <1>4, <2>1
  <2> HIDE DEF S
  <2>3. completed' \in [Jobs -> S]
    BY <2>2, InRowType
  <2>. QED
    BY <2>3 DEF S
<1>8. TypeOK' /\ ItemInRequest'
  BY <1>1, <1>2, <1>5, <1>6, <1>7 DEF IInv, TypeOK, ItemInRequest, shared, request, worker
<1>9. \E what : /\ RunClosure(what)
                /\ \A j \in Jobs : \/ state'[j] = state[j]
                                   \/ /\ j = c.job
                                      /\ (state'[j] \in Finished) => (what = "finish")
  <2>1. CASE RunStep \/ RunRaise
    BY <2>1 DEF RunStep, RunRaise
  <2>2. CASE RunRunning
    <3>1. RunClosure("running") /\ state' = InRow(state, c, "Running")
      BY <2>2 DEF RunRunning, c
    <3>2. \A j \in Jobs : \/ state'[j] = state[j]
                          \/ (j = c.job /\ state'[j] = "Running")
      BY SMTT(20), <1>4, <3>1, InRowValue
    <3>. QED
      BY <3>1, <3>2 DEF Finished
  <2>3. CASE RunWaiting
    <3>1. RunClosure("waiting") /\ state' = InRow(state, c, "WaitingForConflict")
      BY <2>3 DEF RunWaiting, c
    <3>2. \A j \in Jobs : \/ state'[j] = state[j]
                          \/ (j = c.job /\ state'[j] = "WaitingForConflict")
      BY SMTT(20), <1>4, <3>1, InRowValue
    <3>. QED
      BY <3>1, <3>2 DEF Finished
  <2>4. CASE RunFinish
    <3>1. RunClosure("finish") /\ state' = InRow(state, c, c.arg)
      BY <2>4 DEF RunFinish, c
    <3>2. \A j \in Jobs : \/ state'[j] = state[j]
                          \/ (j = c.job /\ state'[j] = c.arg)
      <4> DEFINE v == c.arg
      <4>1. state \in [Jobs -> States] /\ state' = InRow(state, c, v)
        BY <1>4, <3>1
      <4> HIDE DEF v
      <4>2. \A j \in Jobs : state'[j] = state[j] \/ (j = c.job /\ state'[j] = v)
        BY <4>1 DEF InRow
      <4>. QED
        BY <4>2 DEF v
    <3>. QED
      BY <3>1, <3>2
  <2>. QED
    BY <2>1, <2>2, <2>3, <2>4 DEF Loop
<1>. QED
  BY <1>8, <1>9, RunClosureStep DEF IInv, RunClosure, c

(* The calls from the views.  Only finished jobs lose their rows. *)
LEMMA StartIInv ==
  ASSUME IInv, NEW j \in Jobs, NEW k \in Kinds, NEW n \in 0 .. MaxItems, Start(j, k, n)
  PROVE  IInv'
<1>1. Pruned \subseteq {i \in listed : Terminal(i)}
  BY DEF Pruned
<1>2. /\ pc[j] = "none" /\ pc' = [pc EXCEPT ![j] = "pooled"]
      /\ listed' = (listed \ Pruned) \cup {j} /\ manager = "alive" /\ manager' = manager
      /\ UNCHANGED <<state, posted, item>>
  BY DEF Start
<1>3. TypeOK' /\ ItemInRequest'
  <2>1. born' \in [Jobs -> Serial]
    BY SerialInRange DEF Start, IInv, TypeOK
  <2>2. kind' \in [Jobs -> AllKinds] /\ total' \in [Jobs -> 0 .. MaxItems]
    BY KindsAssumption DEF Start, IInv, TypeOK
  <2>3. listed' \subseteq Jobs /\ pc' \in [Jobs -> Inactive \cup Busy]
    BY <1>2 DEF IInv, TypeOK, Inactive
  <2>4. TypeOK'
    BY <2>1, <2>2, <2>3 DEF Start, IInv, TypeOK, shared
  <2>5. ItemInRequest'
    BY <1>2 DEF Start, IInv, TypeOK, ItemInRequest
  <2>. QED
    BY <2>4, <2>5
<1>4. UnstartedIsBlank' /\ FinishIsLast' /\ TerminalIsQuiet'
  <2>1. /\ pc'[j] = "pooled" /\ \A i \in Jobs : i # j => pc'[i] = pc[i]
        /\ \A a \in 1 .. Len(posted) : posted[a].job \in Jobs
    BY <1>2, ClosureJob DEF IInv, TypeOK
  <2>. QED
    BY <1>2, <2>1 DEF IInv, UnstartedIsBlank, FinishIsLast, TerminalIsQuiet, Terminal
<1>5. LiveJobIsListed' /\ NoWorkerOutlivesManager'
  BY <1>1, <1>2 DEF IInv, TypeOK, LiveJobIsListed, NoWorkerOutlivesManager, TerminalIsQuiet
<1>. QED
  BY <1>3, <1>4, <1>5 DEF IInv

LEMMA CallIInv ==
  ASSUME IInv,
         \/ \E j \in Jobs : \/ Cancel(j) \/ Dismiss(j)
                            \/ \E d \in Answers, all \in BOOLEAN : Resolve(j, d, all)
         \/ ClearFinished \/ BeginDestroy \/ Stopped \/ UNCHANGED vars
  PROVE  IInv'
<1>1. /\ UNCHANGED <<state, posted, worker>> /\ listed' \subseteq listed
      /\ \A j \in listed \ listed' : Terminal(j)
      /\ manager' \in {manager, "closing"}
  BY DEF Cancel, Dismiss, Resolve, ClearFinished, BeginDestroy, Stopped, vars, gui, worker
<1>2. TypeOK' /\ ItemInRequest'
  <2> DEFINE Answering == /\ cancelRequested \in [Jobs -> BOOLEAN]
                          /\ resolved \in [Jobs -> BOOLEAN]
                          /\ answer \in [Jobs -> Decisions]
                          /\ persistent \in [Jobs -> (Decisions \ {"Cancel"}) \cup {NoChoice}]
  <2>1. Answering'
    <3>0. Answering
      BY DEF IInv, TypeOK
    <3>1. CASE UNCHANGED shared
      BY <3>0, <3>1 DEF shared
    <3>2. ASSUME NEW j \in Jobs, Cancel(j) PROVE Answering'
      BY <3>0, <3>2 DEF Cancel, Decisions
    <3>3. ASSUME NEW j \in Jobs, NEW d \in Answers, NEW all \in BOOLEAN, Resolve(j, d, all)
          PROVE  Answering'
      BY <3>0, <3>3, KindsAssumption DEF Resolve
    <3>4. CASE BeginDestroy
      BY <3>0, <3>4 DEF BeginDestroy, Decisions
    <3>5. \/ (\E j \in Jobs : Cancel(j)) \/ UNCHANGED shared \/ BeginDestroy
          \/ \E j \in Jobs, d \in Answers, all \in BOOLEAN : Resolve(j, d, all)
      BY DEF Dismiss, ClearFinished, Stopped, vars
    <3> HIDE DEF Answering
    <3>. QED
      BY <3>1, <3>2, <3>3, <3>4, <3>5
  <2>2. UNCHANGED <<born, state, shown, completed, request>>
    BY DEF Cancel, Dismiss, Resolve, ClearFinished, BeginDestroy, Stopped, vars, gui
  <2>. QED
    BY <1>1, <2>1, <2>2 DEF IInv, TypeOK, ItemInRequest, worker, request
<1>3. UnstartedIsBlank' /\ FinishIsLast' /\ TerminalIsQuiet'
  BY <1>1 DEF IInv, UnstartedIsBlank, FinishIsLast, TerminalIsQuiet, Terminal, worker
<1>4. LiveJobIsListed' /\ NoWorkerOutlivesManager'
  BY <1>1 DEF IInv, LiveJobIsListed, NoWorkerOutlivesManager, TerminalIsQuiet, worker
<1>. QED
  BY <1>2, <1>3, <1>4 DEF IInv

LEMMA EndDestroyIInv == ASSUME IInv, EndDestroy PROVE IInv'
<1>1. /\ posted' = <<>> /\ manager' = "gone" /\ \A j \in listed : pc[j] = "exited"
      /\ UNCHANGED <<gui, shared, request, worker>>
  BY DEF EndDestroy
<1>2. TypeOK' /\ ItemInRequest'
  BY <1>1 DEF IInv, TypeOK, ItemInRequest, gui, shared, request, worker
<1>3. UnstartedIsBlank' /\ FinishIsLast' /\ TerminalIsQuiet'
  BY <1>1 DEF IInv, UnstartedIsBlank, FinishIsLast, TerminalIsQuiet, Terminal, gui, worker
<1>4. LiveJobIsListed' /\ NoWorkerOutlivesManager'
  BY <1>1 DEF IInv, LiveJobIsListed, NoWorkerOutlivesManager, gui, worker
<1>. QED
  BY <1>2, <1>3, <1>4 DEF IInv

----------------------------------------------------------------------------
LEMMA NextIInv == IInv /\ [Next]_vars => IInv'
<1> SUFFICES ASSUME IInv, [Next]_vars PROVE IInv'
  OBVIOUS
<1>1. ASSUME NEW j \in Jobs, Worker(j) PROVE IInv'
  BY <1>1, BeginIInv, EndItemsIInv, DeleteItemIInv, InspectItemIInv, ReuseAnswerIInv,
     AnnounceIInv, ArmIInv, WakeCancelledIInv, WakeAnsweredIInv, DecideIInv, TransferIInv,
     CreateFolderIInv, RunEngineIInv DEF Worker, MeetConflict
<1>2. ASSUME NEW j \in Jobs, Caller(j) PROVE IInv'
  BY <1>2, StartIInv, CallIInv DEF Caller
<1>3. CASE Loop
  BY <1>3, LoopIInv
<1>4. CASE ClearFinished \/ Stopped \/ UNCHANGED vars
  BY <1>4, CallIInv
<1>5. CASE Destroy
  BY <1>5, CallIInv, EndDestroyIInv DEF Destroy
<1>. QED
  BY <1>1, <1>2, <1>3, <1>4, <1>5 DEF Next

(* The invariant holds throughout; the theorems below are its parts. *)
THEOREM Invariance == Spec => []IInv
BY InitIInv, NextIInv, PTL DEF Spec

(* The model's types hold in every reachable state. *)
THEOREM TypeCorrect == Spec => []TypeOK
BY Invariance, PTL DEF IInv

(* As long as a body may still run or be started, its job has a row: neither
   dismiss, clearFinished nor pruning can take it away under the worker. *)
THEOREM LiveJobsStayListed == Spec => []LiveJobIsListed
BY Invariance, PTL DEF IInv

(* The destructor waits for enough: when it returns no pool thread runs, or
   will run, a body that uses the manager. *)
THEOREM DestructorIsSafe == Spec => []NoWorkerOutlivesManager
BY Invariance, PTL DEF IInv

----------------------------------------------------------------------------
(* The order of a job's closures.  Once the first b closures of q have been
   run, job j's row, which says s now, will say Running ... *)
RunsAfter(s, q, b, j) ==
  \E c \in 0 .. b :
    /\ IF c = 0 THEN s = "Running" ELSE q[c].job = j /\ q[c].op = "running"
    /\ \A d \in c + 1 .. b : q[d].job = j => q[d].op \notin {"waiting", "finish"}

(* ... or will have said so. *)
BegunAfter(s, q, b, j) ==
  s # "Queued" \/ \E c \in 1 .. b : q[c].job = j /\ q[c].op = "running"

(* A conflict is announced to a row that says Running by then, and a job ends
   in a row that has left Queued by then. *)
ClosuresInOrder ==
  \A a \in 1 .. Len(posted) : LET j == posted[a].job IN j \in listed =>
    /\ posted[a].op = "waiting" => RunsAfter(state[j], posted, a - 1, j)
    /\ posted[a].op = "finish" => BegunAfter(state[j], posted, a - 1, j)

(* The places of a body between announcing that it runs and announcing that it
   waits, or leaving because it was cancelled while it waited. *)
Announced(j) ==
  pc[j] \in Busy \ {"arm", "wait"} /\ (pc[j] = "decided" => choice[j] # "Cancel")

BodyIsAnnounced ==
  \A j \in Jobs :
    /\ pc[j] \in Busy => BegunAfter(state[j], posted, Len(posted), j)
    /\ Announced(j) => RunsAfter(state[j], posted, Len(posted), j)

OrderInv == IInv /\ ClosuresInOrder /\ BodyIsAnnounced

(* Closures posted later do not change what the earlier ones promise, and those
   of other jobs promise nothing. *)
LEMMA RunsAfterExtends ==
  ASSUME NEW s, NEW j, NEW q, NEW p, NEW n \in Nat, NEW m \in Nat, n <= m,
         \A a \in 1 .. n : p[a] = q[a],
         \A a \in n + 1 .. m : p[a].job = j => p[a].op \notin {"waiting", "finish"},
         RunsAfter(s, q, n, j)
  PROVE  RunsAfter(s, p, m, j)
<1>1. PICK c \in 0 .. n :
        /\ IF c = 0 THEN s = "Running" ELSE q[c].job = j /\ q[c].op = "running"
        /\ \A d \in c + 1 .. n : q[d].job = j => q[d].op \notin {"waiting", "finish"}
  BY DEF RunsAfter
<1>2. c \in 0 .. m
      /\ (IF c = 0 THEN s = "Running" ELSE p[c].job = j /\ p[c].op = "running")
  BY <1>1
<1>3. \A d \in c + 1 .. m : p[d].job = j => p[d].op \notin {"waiting", "finish"}
  <2> TAKE d \in c + 1 .. m
  <2>1. (d \in 1 .. n /\ d \in c + 1 .. n) \/ d \in n + 1 .. m
    BY <1>1
  <2>. QED
    BY <2>1, <1>1
<1>. QED
  BY <1>2, <1>3 DEF RunsAfter

LEMMA BegunAfterExtends ==
  ASSUME NEW s, NEW j, NEW q, NEW p, NEW n \in Nat, NEW m \in Nat, n <= m,
         \A a \in 1 .. n : p[a] = q[a], BegunAfter(s, q, n, j)
  PROVE  BegunAfter(s, p, m, j)
BY DEF BegunAfter

(* What a worker's step has to show of the closures it posts itself. *)
LEMMA WorkerOrder ==
  ASSUME OrderInv, NEW j \in Jobs, PostsOwn(j), UNCHANGED <<listed, state>>,
         NEW p, pc' = [pc EXCEPT ![j] = p],
         \A i \in Jobs \ {j} : choice'[i] = choice[i],
         \A a \in Len(posted) + 1 .. Len(posted') :
           /\ posted'[a].op = "waiting" => RunsAfter(state[j], posted', a - 1, j)
           /\ posted'[a].op = "finish" => BegunAfter(state[j], posted', a - 1, j),
         p \in Busy => BegunAfter(state[j], posted', Len(posted'), j),
         Announced(j)' => RunsAfter(state[j], posted', Len(posted'), j)
  PROVE  ClosuresInOrder' /\ BodyIsAnnounced'
<1>1. /\ posted \in Seq(Closures) /\ Len(posted) \in Nat /\ Len(posted') \in Nat
      /\ pc \in [Jobs -> Inactive \cup Busy] /\ Len(posted) <= Len(posted')
      /\ \A a \in 1 .. Len(posted) : posted[a].job \in Jobs /\ posted'[a] = posted[a]
  BY ClosureJob DEF OrderInv, IInv, TypeOK, PostsOwn
<1>2. ClosuresInOrder'
  <2> SUFFICES ASSUME NEW a \in 1 .. Len(posted'), NEW i, i = posted'[a].job, i \in listed
               PROVE  /\ posted'[a].op = "waiting" => RunsAfter(state[i], posted', a - 1, i)
                      /\ posted'[a].op = "finish" => BegunAfter(state[i], posted', a - 1, i)
    BY DEF ClosuresInOrder
  <2>1. CASE a <= Len(posted)
    <3>1. a - 1 \in Nat /\ \A b \in 1 .. a - 1 : posted'[b] = posted[b]
      BY <1>1, <2>1
    <3>2. a \in 1 .. Len(posted) /\ posted'[a] = posted[a] /\ posted[a].job = i
      BY <1>1, <2>1
    <3>3. /\ posted[a].op = "waiting" => RunsAfter(state[i], posted, a - 1, i)
          /\ posted[a].op = "finish" => BegunAfter(state[i], posted, a - 1, i)
      BY <3>2 DEF OrderInv, ClosuresInOrder
    <3>4. \A b \in (a - 1) + 1 .. a - 1 : posted'[b].job = i
                                            => posted'[b].op \notin {"waiting", "finish"}
      BY <3>1
    <3>. QED
      BY <3>1, <3>2, <3>3, <3>4, RunsAfterExtends, BegunAfterExtends
  <2>2. CASE a > Len(posted)
    <3>1. a \in Len(posted) + 1 .. Len(posted')
      BY <1>1, <2>2
    <3>2. posted'[a].job = j
      BY <3>1 DEF PostsOwn
    <3>. QED
      BY <3>1, <3>2
  <2>. QED
    BY <1>1, <2>1, <2>2
<1>3. BodyIsAnnounced'
  <2> SUFFICES ASSUME NEW i \in Jobs
               PROVE  /\ pc'[i] \in Busy => BegunAfter(state[i], posted', Len(posted'), i)
                      /\ Announced(i)' => RunsAfter(state[i], posted', Len(posted'), i)
    BY DEF BodyIsAnnounced
  <2>1. CASE i = j
    BY <1>1, <2>1
  <2>2. CASE i # j
    <3>1. pc'[i] = pc[i] /\ choice'[i] = choice[i]
      BY <1>1, <2>2
    <3>2. \A a \in Len(posted) + 1 .. Len(posted') :
            posted'[a].job = i => posted'[a].op \notin {"waiting", "finish"}
      BY <2>2 DEF PostsOwn
    <3>3. /\ pc[i] \in Busy => BegunAfter(state[i], posted, Len(posted), i)
          /\ Announced(i)' => RunsAfter(state[i], posted, Len(posted), i)
      BY <3>1 DEF OrderInv, BodyIsAnnounced, Announced
    <3>. QED
      BY <1>1, <3>1, <3>2, <3>3, RunsAfterExtends, BegunAfterExtends
  <2>. QED
    BY <2>1, <2>2
<1>. QED
  BY <1>2, <1>3

LEMMA LeaveOrder ==
  ASSUME OrderInv, NEW j \in Jobs, pc[j] \in Busy, NEW result \in Finished,
         Leave(j, result), WorkerOnly
  PROVE  ClosuresInOrder' /\ BodyIsAnnounced'
<1>1. pc' = [pc EXCEPT ![j] = "exited"] /\ pc'[j] = "exited" /\ UNCHANGED <<listed, state, choice>>
  BY DEF Leave, Goto, WorkerOnly, gui, OrderInv, IInv, TypeOK
<1>2. PostsOwn(j)
  BY <1>1, PostOne DEF OrderInv, Leave, Closure, Closures
<1>3. /\ Len(posted) \in Nat /\ Len(posted') = Len(posted) + 1
      /\ \A a \in 1 .. Len(posted) : posted'[a] = posted[a]
      /\ posted'[Len(posted) + 1].op = "finish"
  BY AppendClosure DEF OrderInv, IInv, TypeOK, Leave, Post, Closure, Closures
<1>4. BegunAfter(state[j], posted', Len(posted), j)
  BY <1>3, BegunAfterExtends DEF OrderInv, BodyIsAnnounced
<1>5. "exited" \notin Busy /\ ~Announced(j)'
  BY <1>1 DEF Busy, Announced
<1>6. \A a \in Len(posted) + 1 .. Len(posted') :
        a - 1 = Len(posted) /\ posted'[a].op = "finish"
  BY <1>3
<1>. QED
  BY <1>1, <1>2, <1>4, <1>5, <1>6, WorkerOrder

LEMMA NextSourceOrder ==
  ASSUME OrderInv, NEW j \in Jobs, Announced(j), NextSource(j), WorkerOnly
  PROVE  ClosuresInOrder' /\ BodyIsAnnounced'
<1>1. /\ pc' = [pc EXCEPT ![j] = "item"] /\ UNCHANGED <<listed, state>>
      /\ \A i \in Jobs \ {j} : choice'[i] = choice[i]
  BY DEF NextSource, Goto, WorkerOnly, gui, OrderInv, IInv, TypeOK
<1>2. PostsOwn(j)
  BY PostOne DEF OrderInv, NextSource, Closure, Closures
<1>3. /\ Len(posted) \in Nat /\ Len(posted') = Len(posted) + 1
      /\ \A a \in 1 .. Len(posted) : posted'[a] = posted[a]
      /\ posted'[Len(posted) + 1].op = "step"
  BY AppendClosure DEF OrderInv, IInv, TypeOK, NextSource, Post, Closure, Closures
<1>4. /\ BegunAfter(state[j], posted', Len(posted'), j)
      /\ RunsAfter(state[j], posted', Len(posted'), j)
  <2>1. pc[j] \in Busy
    BY DEF Announced
  <2>. QED
    BY SMTT(20), <2>1, <1>3, BegunAfterExtends, RunsAfterExtends DEF OrderInv, BodyIsAnnounced
<1>5. \A a \in Len(posted) + 1 .. Len(posted') : posted'[a].op = "step"
  BY <1>3
<1>. QED
  BY <1>1, <1>2, <1>4, <1>5, WorkerOrder

LEMMA MoveOrder ==
  ASSUME OrderInv, NEW j \in Jobs, pc[j] \in Busy, NEW p, Goto(j, p),
         UNCHANGED <<listed, state, posted>>,
         \A i \in Jobs \ {j} : choice'[i] = choice[i],
         Announced(j)' => Announced(j)
  PROVE  ClosuresInOrder' /\ BodyIsAnnounced'
<1>1. PostsOwn(j)
  BY PostNone DEF OrderInv
<1>2. /\ BegunAfter(state[j], posted', Len(posted'), j)
      /\ Announced(j)' => RunsAfter(state[j], posted', Len(posted'), j)
  BY DEF OrderInv, BodyIsAnnounced
<1>3. Len(posted') + 1 .. Len(posted') = {}
  BY DEF OrderInv, IInv, TypeOK
<1>. QED
  BY <1>1, <1>2, <1>3, WorkerOrder DEF Goto

(* Posting that the job runs, at the start of a body and after an answer. *)
LEMMA RunningOrder ==
  ASSUME OrderInv, NEW j \in Jobs, NEW p, Goto(j, p), Post(j, "running", 0),
         UNCHANGED <<listed, state>>, \A i \in Jobs \ {j} : choice'[i] = choice[i]
  PROVE  ClosuresInOrder' /\ BodyIsAnnounced'
<1>1. PostsOwn(j)
  BY PostOne DEF OrderInv, Closure, Closures
<1>2. /\ Len(posted) \in Nat /\ Len(posted') = Len(posted) + 1
      /\ posted'[Len(posted) + 1].job = j /\ posted'[Len(posted) + 1].op = "running"
  BY AppendClosure DEF OrderInv, IInv, TypeOK, Post, Closure, Closures
<1>3. /\ BegunAfter(state[j], posted', Len(posted'), j)
      /\ RunsAfter(state[j], posted', Len(posted'), j)
  BY <1>2 DEF BegunAfter, RunsAfter
<1>4. \A a \in Len(posted) + 1 .. Len(posted') : posted'[a].op = "running"
  BY <1>2
<1>. QED
  BY <1>1, <1>3, <1>4, WorkerOrder DEF Goto

LEMMA AnnounceOrder ==
  ASSUME OrderInv, NEW j \in Jobs, pc[j] = "conflict", Announce(j)
  PROVE  ClosuresInOrder' /\ BodyIsAnnounced'
<1>1. /\ pc' = [pc EXCEPT ![j] = "arm"] /\ pc'[j] = "arm"
      /\ UNCHANGED <<listed, state, choice>>
      /\ item[j] \in 1 .. MaxItems
  BY BoundsAssumption
     DEF Announce, Goto, WorkerOnly, gui, OrderInv, IInv, TypeOK, ItemInRequest
<1> DEFINE one == Append(posted, Closure(j, "waiting", item[j]))
<1>2. /\ Closure(j, "waiting", item[j]) \in Closures /\ Closure(j, "raise", item[j]) \in Closures
      /\ posted' = Append(one, Closure(j, "raise", item[j])) /\ posted \in Seq(Closures)
  BY <1>1 DEF Closure, Closures, Announce, OrderInv, IInv, TypeOK
<1>3. /\ one \in Seq(Closures) /\ Len(posted) \in Nat /\ Len(one) = Len(posted) + 1
      /\ \A a \in 1 .. Len(posted) : one[a] = posted[a]
      /\ one[Len(posted) + 1].op = "waiting"
  BY <1>2, AppendClosure DEF Closure
<1>4. /\ Len(posted') = Len(posted) + 2 /\ \A a \in 1 .. Len(one) : posted'[a] = one[a]
      /\ posted'[Len(posted) + 2].op = "raise"
  BY <1>2, <1>3, AppendClosure DEF Closure
<1>5. PostsOwn(j)
  BY <1>2, PostTwo DEF OrderInv
<1> HIDE DEF one
<1>6. \A a \in 1 .. Len(posted) : posted'[a] = posted[a]
  BY <1>3, <1>4
<1>7. RunsAfter(state[j], posted', Len(posted), j)
  <2>1. Announced(j)
    BY DEF Announced, Busy
  <2>2. RunsAfter(state[j], posted, Len(posted), j)
    BY <2>1 DEF OrderInv, BodyIsAnnounced
  <2>3. \A a \in Len(posted) + 1 .. Len(posted) : posted'[a].job = j
                                              => posted'[a].op \notin {"waiting", "finish"}
    BY <1>3
  <2>. QED
    BY <2>2, <2>3, <1>3, <1>6, RunsAfterExtends
<1>8. BegunAfter(state[j], posted', Len(posted'), j)
  <2>1. BegunAfter(state[j], posted, Len(posted), j)
    BY DEF OrderInv, BodyIsAnnounced, Busy
  <2>2. Len(posted) \in Nat /\ Len(posted') \in Nat /\ Len(posted) <= Len(posted')
    BY <1>3, <1>4
  <2>. QED
    BY <1>6, <2>1, <2>2, BegunAfterExtends
<1>9. \A a \in Len(posted) + 1 .. Len(posted') :
        /\ posted'[a].op = "waiting" => RunsAfter(state[j], posted', a - 1, j)
        /\ posted'[a].op = "finish" => BegunAfter(state[j], posted', a - 1, j)
  <2> TAKE a \in Len(posted) + 1 .. Len(posted')
  <2>1. a = Len(posted) + 1 \/ a = Len(posted) + 2
    BY <1>3, <1>4
  <2>2. a = Len(posted) + 1 => a - 1 = Len(posted) /\ posted'[a].op = "waiting"
    BY <1>3, <1>4
  <2>. QED
    BY <2>1, <2>2, <1>4, <1>7
<1>. QED
  BY <1>1, <1>5, <1>8, <1>9, WorkerOrder DEF Announced

LEMMA CreatedOrder ==
  ASSUME OrderInv, NEW j \in Jobs, pc[j] = "create", Goto(j, "exited"), WorkerOnly,
         posted' = Append(Append(posted, Closure(j, "step", 0)),
                          Closure(j, "finish", "Completed")),
         UNCHANGED <<item, choice>>
  PROVE  ClosuresInOrder' /\ BodyIsAnnounced'
<1>1. /\ pc' = [pc EXCEPT ![j] = "exited"] /\ pc'[j] = "exited" /\ UNCHANGED <<listed, state>>
  BY DEF Goto, WorkerOnly, gui, OrderInv, IInv, TypeOK
<1> DEFINE one == Append(posted, Closure(j, "step", 0))
<1>2. /\ Closure(j, "step", 0) \in Closures /\ Closure(j, "finish", "Completed") \in Closures
      /\ posted' = Append(one, Closure(j, "finish", "Completed")) /\ posted \in Seq(Closures)
  BY DEF Closure, Closures, Finished, OrderInv, IInv, TypeOK
<1>3. /\ one \in Seq(Closures) /\ Len(posted) \in Nat /\ Len(one) = Len(posted) + 1
      /\ \A a \in 1 .. Len(posted) : one[a] = posted[a]
      /\ one[Len(posted) + 1].op = "step"
  BY <1>2, AppendClosure DEF Closure
<1>4. /\ Len(posted') = Len(posted) + 2 /\ \A a \in 1 .. Len(one) : posted'[a] = one[a]
      /\ posted'[Len(posted) + 2].op = "finish"
  BY <1>2, <1>3, AppendClosure DEF Closure
<1>5. PostsOwn(j)
  BY <1>1, <1>2, PostTwo DEF OrderInv
<1> HIDE DEF one
<1>6. \A a \in 1 .. Len(posted) : posted'[a] = posted[a]
  BY <1>3, <1>4
<1>7. BegunAfter(state[j], posted', Len(posted) + 1, j)
  <2>1. BegunAfter(state[j], posted, Len(posted), j)
    BY DEF OrderInv, BodyIsAnnounced, Busy
  <2>2. Len(posted) \in Nat /\ Len(posted) + 1 \in Nat /\ Len(posted) <= Len(posted) + 1
    BY <1>3
  <2>. QED
    BY <1>6, <2>1, <2>2, BegunAfterExtends
<1>8. \A a \in Len(posted) + 1 .. Len(posted') :
        /\ posted'[a].op = "waiting" => RunsAfter(state[j], posted', a - 1, j)
        /\ posted'[a].op = "finish" => BegunAfter(state[j], posted', a - 1, j)
  <2> TAKE a \in Len(posted) + 1 .. Len(posted')
  <2>1. a = Len(posted) + 1 \/ a = Len(posted) + 2
    BY <1>3, <1>4
  <2>2. /\ a = Len(posted) + 1 => posted'[a].op = "step"
        /\ a = Len(posted) + 2 => a - 1 = Len(posted) + 1 /\ posted'[a].op = "finish"
    BY <1>3, <1>4
  <2>. QED
    BY <2>1, <2>2, <1>7
<1>. QED
  BY <1>1, <1>5, <1>8, WorkerOrder DEF Announced, Busy

LEMMA WorkerKeepsOrder ==
  ASSUME OrderInv, NEW j \in Jobs, Worker(j)
  PROVE  ClosuresInOrder' /\ BodyIsAnnounced'
<1> USE DEF OrderInv
<1>1. CASE Begin(j)
  <2>1. PICK p : Goto(j, p)
    BY <1>1 DEF Begin
  <2>. QED
    BY <1>1, <2>1, RunningOrder DEF Begin, WorkerOnly, gui
<1>2. CASE EndItems(j)
  BY <1>2, LeaveOrder DEF EndItems, Finished, Busy
<1>3. CASE DeleteItem(j)
  BY <1>3, LeaveOrder, NextSourceOrder DEF DeleteItem, Finished, Busy, Announced
<1>4. CASE InspectItem(j)
  <2>1. pc[j] \in Busy /\ Announced(j)
    BY <1>4 DEF InspectItem, Busy, Announced
  <2>2. CASE \E p \in {"transfer", "conflict"} :
               Goto(j, p) /\ UNCHANGED <<posted, item, choice>>
    BY <1>4, <2>1, <2>2, MoveOrder DEF InspectItem, WorkerOnly, gui
  <2>. QED
    BY <1>4, <2>1, <2>2, LeaveOrder, NextSourceOrder DEF InspectItem, Finished
<1>5. CASE MeetConflict(j)
  <2>1. pc[j] = "conflict" /\ pc[j] \in Busy /\ Announced(j)
    BY <1>5 DEF MeetConflict, Busy, Announced
  <2>2. CASE ReuseAnswer(j)
    BY <2>1, <2>2, MoveOrder DEF ReuseAnswer, WorkerOnly, gui, IInv, TypeOK
  <2>. QED
    BY <1>5, <2>1, <2>2, AnnounceOrder DEF MeetConflict
<1>6. CASE Arm(j)
  <2>1. pc[j] \in Busy /\ ~Announced(j)'
    BY <1>6 DEF Arm, Goto, Busy, Announced, IInv, TypeOK
  <2>. QED
    BY <1>6, <2>1, MoveOrder DEF Arm, gui
<1>7. CASE WakeCancelled(j)
  <2>1. pc[j] \in Busy /\ ~Announced(j)' /\ \A i \in Jobs \ {j} : choice'[i] = choice[i]
    BY <1>7 DEF WakeCancelled, Goto, Busy, Announced, IInv, TypeOK
  <2>. QED
    BY <1>7, <2>1, MoveOrder DEF WakeCancelled, WorkerOnly, gui
<1>8. CASE WakeAnswered(j)
  BY <1>8, RunningOrder DEF WakeAnswered, gui, IInv, TypeOK
<1>9. CASE Decide(j)
  <2>1. pc[j] \in Busy /\ (choice[j] # "Cancel" => Announced(j))
    BY <1>9 DEF Decide, Busy, Announced
  <2>2. CASE Goto(j, "transfer") /\ choice[j] # "Cancel" /\ UNCHANGED <<posted, item, choice>>
    BY <1>9, <2>1, <2>2, MoveOrder DEF Decide, WorkerOnly, gui
  <2>. QED
    BY <1>9, <2>1, <2>2, LeaveOrder, NextSourceOrder DEF Decide, Finished
<1>10. CASE Transfer(j)
  BY <1>10, LeaveOrder, NextSourceOrder DEF Transfer, Finished, Busy, Announced
<1>11. CASE CreateFolder(j)
  BY <1>11, LeaveOrder, CreatedOrder DEF CreateFolder, Finished, Busy
<1>12. CASE RunEngine(j)
  BY <1>12, LeaveOrder DEF RunEngine, Finished, Busy
<1>. QED
  BY <1>1, <1>2, <1>3, <1>4, <1>5, <1>6, <1>7, <1>8, <1>9, <1>10, <1>11, <1>12 DEF Worker

----------------------------------------------------------------------------
(* The GUI thread takes the closures from the front of the queue. *)
LEMMA RunsAfterTail ==
  ASSUME NEW s, NEW t, NEW j, NEW q, NEW p, NEW b \in Nat \ {0},
         \A a \in 1 .. b - 1 : p[a] = q[a + 1],
         q[1].job = j /\ q[1].op = "running" => t = "Running",
         (q[1].job = j /\ q[1].op \in {"running", "waiting", "finish"}) \/ t = s,
         RunsAfter(s, q, b, j)
  PROVE  RunsAfter(t, p, b - 1, j)
<1>1. PICK c \in 0 .. b :
        /\ IF c = 0 THEN s = "Running" ELSE q[c].job = j /\ q[c].op = "running"
        /\ \A d \in c + 1 .. b : q[d].job = j => q[d].op \notin {"waiting", "finish"}
  BY DEF RunsAfter
<1>2. CASE c \in {0, 1}
  <2>1. t = "Running"
    BY <1>1, <1>2
  <2>2. \A d \in 0 + 1 .. b - 1 : p[d].job = j => p[d].op \notin {"waiting", "finish"}
    BY <1>1, <1>2
  <2>. QED
    BY <2>1, <2>2, 0 \in 0 .. b - 1 DEF RunsAfter
<1>3. CASE c \in 2 .. b
  <2>1. /\ c - 1 \in 0 .. b - 1 /\ c - 1 # 0
        /\ p[c - 1].job = j /\ p[c - 1].op = "running"
    BY <1>1, <1>3
  <2>2. \A d \in (c - 1) + 1 .. b - 1 : p[d].job = j => p[d].op \notin {"waiting", "finish"}
    BY <1>1, <1>3
  <2>. QED
    BY <2>1, <2>2 DEF RunsAfter
<1>. QED
  BY <1>1, <1>2, <1>3

LEMMA BegunAfterTail ==
  ASSUME NEW s, NEW t, NEW j, NEW q, NEW p, NEW b \in Nat \ {0},
         \A a \in 1 .. b - 1 : p[a] = q[a + 1],
         q[1].job = j /\ q[1].op = "running" => t = "Running",
         t # s => t # "Queued",
         BegunAfter(s, q, b, j)
  PROVE  BegunAfter(t, p, b - 1, j)
<1>1. CASE s # "Queued"
  BY <1>1 DEF BegunAfter
<1>2. ASSUME NEW c \in 1 .. b, q[c].job = j, q[c].op = "running"
      PROVE  BegunAfter(t, p, b - 1, j)
  <2>1. CASE c = 1
    BY <1>2, <2>1 DEF BegunAfter
  <2>2. CASE c # 1
    <3>1. c - 1 \in 1 .. b - 1 /\ p[c - 1] = q[c]
      BY <1>2, <2>2
    <3>. QED
      BY <1>2, <3>1 DEF BegunAfter
  <2>. QED
    BY <2>1, <2>2
<1>. QED
  BY <1>1, <1>2 DEF BegunAfter

(* What each closure makes a listed job's row say. *)
LEMMA LoopRows ==
  ASSUME IInv, Loop
  PROVE  /\ posted \in Seq(Closures) /\ posted # <<>> /\ posted' = Tail(posted)
         /\ UNCHANGED <<listed, pc, choice, manager>>
         /\ \A j \in Jobs : IF posted[1].job = j /\ j \in listed
              THEN /\ posted[1].op = "running" => state'[j] = "Running"
                   /\ posted[1].op = "waiting" => state'[j] = "WaitingForConflict"
                   /\ posted[1].op = "finish"  => state'[j] \in Finished
                   /\ posted[1].op \in {"step", "raise"} => state'[j] = state[j]
              ELSE state'[j] = state[j]
         /\ state' \in [Jobs -> States]
<1>1. /\ posted \in Seq(Closures) /\ posted # <<>> /\ posted' = Tail(posted)
      /\ UNCHANGED <<listed, pc, choice, manager>> /\ state \in [Jobs -> States]
  BY DEF Loop, RunRunning, RunWaiting, RunStep, RunFinish, RunRaise, RunClosure, worker,
         IInv, TypeOK
<1>2. Head(posted) = posted[1] /\ posted[1] \in Closures /\ posted[1].job \in Jobs
  BY <1>1, TailClosure, ClosureJob
<1>3. posted[1].op = "finish" => posted[1].arg \in Finished
  BY <1>2 DEF Closures
<1>4. state' \in [Jobs -> States]
  BY LoopIInv DEF IInv, TypeOK
<1>5. CASE posted[1].op \in {"step", "raise"}
  <2>1. state' = state
    BY <1>2, <1>5 DEF Loop, RunRunning, RunWaiting, RunStep, RunFinish, RunRaise, RunClosure
  <2>. QED
    BY <1>1, <1>4, <1>5, <2>1
<1>6. ASSUME NEW v, state' = InRow(state, posted[1], v)
      PROVE  \A j \in Jobs : state'[j] = IF posted[1].job = j /\ j \in listed THEN v ELSE state[j]
  BY <1>1, <1>6 DEF InRow
<1>7. CASE posted[1].op = "running"
  <2>1. state' = InRow(state, posted[1], "Running")
    BY <1>2, <1>7 DEF Loop, RunRunning, RunWaiting, RunStep, RunFinish, RunRaise, RunClosure
  <2>. QED
    BY <1>1, <1>4, <1>6, <1>7, <2>1
<1>8. CASE posted[1].op = "waiting"
  <2>1. state' = InRow(state, posted[1], "WaitingForConflict")
    BY <1>2, <1>8 DEF Loop, RunRunning, RunWaiting, RunStep, RunFinish, RunRaise, RunClosure
  <2>. QED
    BY <1>1, <1>4, <1>6, <1>8, <2>1
<1>9. CASE posted[1].op = "finish"
  <2>1. state' = InRow(state, posted[1], posted[1].arg)
    BY <1>2, <1>9 DEF Loop, RunRunning, RunWaiting, RunStep, RunFinish, RunRaise, RunClosure
  <2>. QED
    BY <1>1, <1>3, <1>4, <1>6, <1>9, <2>1
<1>. QED
  BY <1>2, <1>5, <1>7, <1>8, <1>9 DEF Closures

LEMMA LoopKeepsOrder == ASSUME OrderInv, Loop PROVE ClosuresInOrder' /\ BodyIsAnnounced'
<1>1. /\ posted \in Seq(Closures) /\ posted # <<>> /\ posted' = Tail(posted)
      /\ UNCHANGED <<listed, pc, choice>>
      /\ \A j \in Jobs \cap listed :
           /\ posted[1].job = j /\ posted[1].op = "running" => state'[j] = "Running"
           /\ \/ posted[1].job = j /\ posted[1].op \in {"running", "waiting", "finish"}
              \/ state'[j] = state[j]
           /\ state'[j] # state[j] => state'[j] # "Queued"
  <2>1. posted \in Seq(Closures) /\ posted # <<>>
    BY LoopRows DEF OrderInv
  <2>2. posted[1] \in Closures
    BY <2>1, TailClosure
  <2>3. posted[1].op \in {"running", "step", "waiting", "raise", "finish"}
    BY <2>2 DEF Closures
  <2>. QED
    BY <2>3, LoopRows DEF OrderInv, Finished
<1>2. /\ Len(posted) \in Nat \ {0} /\ Len(posted') = Len(posted) - 1
      /\ \A a \in 1 .. Len(posted') : posted'[a] = posted[a + 1]
  BY <1>1, TailClosure
<1>3. ASSUME NEW j \in Jobs, j \in listed, NEW b \in 1 .. Len(posted)
      PROVE  /\ RunsAfter(state[j], posted, b, j) => RunsAfter(state'[j], posted', b - 1, j)
             /\ BegunAfter(state[j], posted, b, j) => BegunAfter(state'[j], posted', b - 1, j)
  <2>1. b \in Nat \ {0} /\ \A a \in 1 .. b - 1 : posted'[a] = posted[a + 1]
    BY <1>2
  <2>. QED
    BY <1>1, <1>3, <2>1, RunsAfterTail, BegunAfterTail
<1>4. ClosuresInOrder'
  <2> SUFFICES ASSUME NEW a \in 1 .. Len(posted'), NEW j, j = posted'[a].job, j \in listed
               PROVE  /\ posted'[a].op = "waiting" => RunsAfter(state'[j], posted', a - 1, j)
                      /\ posted'[a].op = "finish" => BegunAfter(state'[j], posted', a - 1, j)
    BY <1>1 DEF ClosuresInOrder
  <2>1. /\ a + 1 \in 1 .. Len(posted) /\ posted[a + 1] = posted'[a] /\ (a + 1) - 1 = a
        /\ a \in 1 .. Len(posted) /\ j \in Jobs
    BY <1>1, <1>2, ClosureJob
  <2>2. /\ posted'[a].op = "waiting" => RunsAfter(state[j], posted, a, j)
        /\ posted'[a].op = "finish" => BegunAfter(state[j], posted, a, j)
    BY <2>1 DEF OrderInv, ClosuresInOrder
  <2>. QED
    BY <1>3, <2>1, <2>2
<1>5. BodyIsAnnounced'
  <2> SUFFICES ASSUME NEW j \in Jobs
               PROVE  /\ pc[j] \in Busy => BegunAfter(state'[j], posted', Len(posted'), j)
                      /\ Announced(j) => RunsAfter(state'[j], posted', Len(posted'), j)
    BY <1>1 DEF BodyIsAnnounced, Announced
  <2>1. pc[j] \in Busy => j \in listed
    BY DEF OrderInv, IInv, LiveJobIsListed, Busy
  <2>. QED
    BY <1>2, <1>3, <2>1 DEF OrderInv, BodyIsAnnounced, Announced
<1>. QED
  BY <1>4, <1>5

(* The calls: a new job has posted nothing, and losing rows loses promises. *)
LEMMA CallKeepsOrder ==
  ASSUME OrderInv,
         \/ (\E j \in Jobs : Caller(j)) \/ ClearFinished \/ BeginDestroy \/ Stopped
         \/ UNCHANGED vars
  PROVE  ClosuresInOrder' /\ BodyIsAnnounced'
<1>1. CASE /\ listed' \subseteq listed /\ UNCHANGED <<state, posted, pc, choice>>
  BY <1>1 DEF OrderInv, ClosuresInOrder, BodyIsAnnounced, Announced
<1>2. ASSUME NEW j \in Jobs, NEW k, NEW n, Start(j, k, n)
      PROVE  ClosuresInOrder' /\ BodyIsAnnounced'
  <2>1. /\ listed' \subseteq listed \cup {j} /\ UNCHANGED <<state, posted, choice>>
        /\ pc[j] = "none" /\ pc' = [pc EXCEPT ![j] = "pooled"] /\ pc \in [Jobs -> Inactive \cup Busy]
    BY <1>2 DEF Start, OrderInv, IInv, TypeOK
  <2>2. \A a \in 1 .. Len(posted) : posted[a].job # j
    BY <2>1 DEF OrderInv, IInv, UnstartedIsBlank
  <2>3. ClosuresInOrder'
    BY <2>1, <2>2 DEF OrderInv, ClosuresInOrder
  <2>4. \A i \in Jobs : pc'[i] \in Busy => pc[i] = pc'[i]
    BY <2>1 DEF Busy
  <2>5. BodyIsAnnounced'
    BY <2>1, <2>4 DEF OrderInv, BodyIsAnnounced, Announced
  <2>. QED
    BY <2>3, <2>5
<1>3. ASSUME NEW j \in Jobs,
             Cancel(j) \/ Dismiss(j) \/ \E d \in Answers, all \in BOOLEAN : Resolve(j, d, all)
      PROVE  ClosuresInOrder' /\ BodyIsAnnounced'
  BY <1>1, <1>3 DEF Cancel, Dismiss, Resolve, gui, worker
<1>4. CASE ClearFinished \/ BeginDestroy \/ Stopped \/ UNCHANGED vars
  BY <1>1, <1>4 DEF ClearFinished, BeginDestroy, Stopped, vars, gui, worker
<1>. QED
  BY <1>2, <1>3, <1>4 DEF Caller

LEMMA EndDestroyKeepsOrder ==
  ASSUME OrderInv, EndDestroy PROVE ClosuresInOrder' /\ BodyIsAnnounced'
<1>1. posted' = <<>> /\ Len(posted') = 0 /\ \A j \in Jobs : pc'[j] \notin Busy
  BY DEF EndDestroy, OrderInv, IInv, LiveJobIsListed, worker, Busy
<1>. QED
  BY <1>1 DEF ClosuresInOrder, BodyIsAnnounced, Announced

LEMMA InitOrder == Init => OrderInv
BY InitIInv DEF Init, OrderInv, ClosuresInOrder, BodyIsAnnounced, Announced, Busy

LEMMA NextOrder == OrderInv /\ [Next]_vars => OrderInv'
<1> SUFFICES ASSUME OrderInv, [Next]_vars PROVE ClosuresInOrder' /\ BodyIsAnnounced'
  BY NextIInv DEF OrderInv
<1>. QED
  BY WorkerKeepsOrder, LoopKeepsOrder, CallKeepsOrder, EndDestroyKeepsOrder DEF Next, Destroy

(* What updateJob, waitForConflict and finishJob post of a job arrives in the
   order in which a job may go through its states. *)
THEOREM Order == Spec => []OrderInv
BY InitOrder, NextOrder, PTL DEF Spec

----------------------------------------------------------------------------
(* The rows as the views see them. *)
Status == [j \in Jobs |-> IF pc[j] = "none" THEN "Unknown" ELSE state[j]]

LEMMA StatusChange ==
  ASSUME IInv, NEW j \in Jobs, NEW s, pc[j] # "none", UNCHANGED pc,
         \A i \in Jobs : state'[i] = IF i = j THEN s ELSE state[i]
  PROVE  Status' = [Status EXCEPT ![j] = s]
BY DEF Status

(* A worker's step does not change what a view sees ... *)
LEMMA WorkerStutters ==
  ASSUME IInv, NEW j \in Jobs, Worker(j) PROVE UNCHANGED <<listed, Status>>
<1>1. UNCHANGED <<listed, state>>
  BY DEF Worker, Begin, EndItems, DeleteItem, InspectItem, MeetConflict, ReuseAnswer, Announce,
         Arm, WakeCancelled, WakeAnswered, Decide, Transfer, CreateFolder, RunEngine,
         WorkerOnly, gui
<1>2. \A i \in Jobs : pc'[i] = "none" <=> pc[i] = "none"
  <2>1. \E p : pc' = [pc EXCEPT ![j] = p] /\ p # "none"
    BY DEF Worker, Begin, EndItems, DeleteItem, InspectItem, MeetConflict, ReuseAnswer,
           Announce, Arm, WakeCancelled, WakeAnswered, Decide, Transfer, CreateFolder,
           RunEngine, Leave, NextSource, Goto
  <2>2. pc[j] # "none" /\ pc \in [Jobs -> Inactive \cup Busy]
    BY DEF Worker, Begin, EndItems, DeleteItem, InspectItem, MeetConflict, Arm, WakeCancelled,
           WakeAnswered, Decide, Transfer, CreateFolder, RunEngine, IInv, TypeOK
  <2>. QED
    BY <2>1, <2>2
<1>. QED
  BY <1>1, <1>2 DEF Status

(* ... a new job appears with a Queued row, and calls change no row that stays
   and take only finished ones away ... *)
LEMMA StartAdds ==
  ASSUME OrderInv, NEW j \in Jobs, NEW k, NEW n, Start(j, k, n)
  PROVE  Board!Add(j)
<1>1. /\ pc[j] = "none" /\ pc' = [pc EXCEPT ![j] = "pooled"] /\ UNCHANGED state
      /\ listed' = (listed \ Pruned) \cup {j} /\ state[j] = "Queued"
      /\ pc \in [Jobs -> Inactive \cup Busy] /\ listed \subseteq Jobs
  BY DEF Start, OrderInv, IInv, TypeOK, UnstartedIsBlank
<1>2. Status[j] = "Unknown" /\ Status' = [Status EXCEPT ![j] = "Queued"]
  BY <1>1 DEF Status
<1>3. Pruned \in SUBSET {i \in listed : Status[i] \in Finished}
  <2>1. \A i \in listed : Terminal(i) => Status[i] \in Finished
    BY <1>1 DEF Status, OrderInv, IInv, TerminalIsQuiet, Terminal
  <2>. QED
    BY <2>1 DEF Pruned
<1>. QED
  BY <1>1, <1>2, <1>3 DEF Status, Board!Add, Board!Becomes, Board!Final, Finished

LEMMA CallClears ==
  ASSUME OrderInv,
         \/ \E j \in Jobs : \/ Cancel(j) \/ Dismiss(j)
                            \/ \E d \in Answers, all \in BOOLEAN : Resolve(j, d, all)
         \/ ClearFinished \/ Destroy \/ Stopped \/ UNCHANGED vars
  PROVE  Board!Clear
<1>1. /\ UNCHANGED <<state, pc>> /\ listed' \subseteq listed
      /\ \A j \in listed \ listed' : Terminal(j)
  BY DEF Cancel, Dismiss, Resolve, ClearFinished, Destroy, BeginDestroy, EndDestroy, Stopped,
         vars, gui, worker
<1>2. \A i \in listed : Terminal(i) => Status[i] \in Finished
  BY DEF Status, OrderInv, IInv, TypeOK, TerminalIsQuiet, Terminal
<1>3. /\ listed' = listed \ (listed \ listed')
      /\ listed \ listed' \in SUBSET {i \in listed : Status[i] \in Finished}
  BY <1>1, <1>2
<1>4. UNCHANGED Status
  BY <1>1 DEF Status
<1>. QED
  BY <1>3, <1>4 DEF Status, Board!Clear, Board!Final, Finished

(* ... and the event loop runs, raises and ends jobs in the order the board
   allows, because their closures arrive in that order. *)
LEMMA LoopRunsRaisesEnds ==
  ASSUME OrderInv, Loop
  PROVE  \/ UNCHANGED <<listed, Status>>
         \/ \E j \in Jobs : Board!Run(j) \/ Board!Raise(j) \/ Board!End(j)
<1> DEFINE c == posted[1]
           j == c.job
<1>1. /\ posted \in Seq(Closures) /\ posted # <<>> /\ UNCHANGED <<listed, pc>>
      /\ c \in Closures /\ j \in Jobs /\ 1 \in 1 .. Len(posted)
  BY LoopRows, TailClosure, ClosureJob DEF OrderInv
<1>2. CASE j \notin listed \/ c.op \in {"step", "raise"}
  <2>1. \A i \in Jobs : state'[i] = state[i]
    BY <1>1, <1>2, LoopRows DEF OrderInv
  <2>. QED
    BY <1>1, <2>1 DEF Status
<1>3. CASE j \in listed /\ c.op \in {"running", "waiting", "finish"}
  <2>1. pc[j] # "none" /\ ~Terminal(j)
    BY <1>1 DEF OrderInv, IInv, UnstartedIsBlank, TerminalIsQuiet
  <2>2. Status[j] = state[j] /\ state[j] \in {"Queued", "Running", "WaitingForConflict"}
    BY <1>1, <2>1 DEF Status, Terminal, States, OrderInv, IInv, TypeOK
  <2>3. PICK s : \A i \in Jobs : state'[i] = IF i = j THEN s ELSE state[i]
    BY <1>1, <1>3, LoopRows DEF OrderInv
  <2>4. /\ c.op = "running" => s = "Running"
        /\ c.op = "waiting" => s = "WaitingForConflict"
        /\ c.op = "finish" => s \in Finished
    BY <1>1, <1>3, <2>3, LoopRows DEF OrderInv
  <2>5. Status' = [Status EXCEPT ![j] = s]
    BY <1>1, <2>1, <2>3, StatusChange DEF OrderInv
  <2>6. /\ c.op = "waiting" => state[j] = "Running"
        /\ c.op = "finish" => state[j] # "Queued"
    BY <1>1, <1>3 DEF OrderInv, ClosuresInOrder, RunsAfter, BegunAfter
  <2>. QED
    BY <1>1, <1>3, <2>2, <2>4, <2>5, <2>6
       DEF Status, Board!Run, Board!Raise, Board!End, Board!Becomes, Board!Active, Board!Final,
           Finished
<1>. QED
  BY <1>1, <1>2, <1>3 DEF Closures

LEMMA InitBoard == Init => Board!Init
BY DEF Init, Board!Init

LEMMA NextBoard == OrderInv /\ [Next]_vars => [Board!Next]_(Board!vars)
<1> SUFFICES ASSUME OrderInv, [Next]_vars PROVE Board!Next \/ UNCHANGED <<listed, Status>>
  BY DEF Board!vars, Status
<1>. QED
  BY WorkerStutters, StartAdds, CallClears, LoopRunsRaisesEnds
     DEF Next, Caller, Board!Next, OrderInv

(* What the views may rely on, whatever the threads do: a job is listed as
   Queued, runs, waits only while it runs, ends once, and only then can its row
   go away.  Every behaviour of the queue is one of the board's. *)
THEOREM QueueImplementsBoard == Spec => RefinesJobBoard
BY InitBoard, NextBoard, Order, PTL DEF Spec, RefinesJobBoard, Board!Spec

-----------------------------------------------------------------------------
(* What the window shows of the jobs, and its sheet.                        *)

(* The closures of job j that count a source. *)
StepsOf(q, j) == {a \in 1 .. Len(q) : q[a].job = j /\ q[a].op = "step"}

(* What the row of job j will have counted when all closures have been run. *)
Counted(j) == completed[j] + Cardinality(StepsOf(posted, j))

(* A started job has a row until it has ended. *)
UnlistedIsDone == \A j \in Jobs : pc[j] # "none" /\ j \notin listed => Terminal(j)

(* The worker's place, its item and what it has counted go together. *)
PlaceMatchesCount ==
  \A j \in Jobs :
    /\ pc[j] \in {"none", "pooled"} => item[j] = 1 /\ Counted(j) = 0
    /\ pc[j] = "pooled" => /\ kind[j] = "archive" => total[j] = 0
                           /\ kind[j] = "createFolder" => total[j] = 1
    /\ pc[j] \in Busy => item[j] <= total[j] + 1 /\ Counted(j) = item[j] - 1
    /\ pc[j] = "create" => item[j] = 1 /\ total[j] = 1
    /\ pc[j] = "engine" => item[j] = 1 /\ total[j] = 0
    /\ pc[j] = "exited" => Counted(j) <= total[j]

(* A job that is, or is about to be, shown as Completed has counted all. *)
CompletedCountsAll ==
  /\ \A j \in Jobs : state[j] = "Completed" => Counted(j) = total[j]
  /\ \A a \in 1 .. Len(posted) :
       posted[a].op = "finish" /\ posted[a].arg = "Completed"
         => Counted(posted[a].job) = total[posted[a].job]

(* The conflicts announced are of sources the worker has come to. *)
WaitingIsMet ==
  \A a \in 1 .. Len(posted) : posted[a].op = "waiting" => posted[a].arg <= item[posted[a].job]

RowInv ==
  /\ OrderInv
  /\ UnlistedIsDone
  /\ PlaceMatchesCount
  /\ CompletedCountsAll
  /\ WaitingIsMet
  /\ ShownConflictIsReal

----------------------------------------------------------------------------
(* Counting closures. *)
LEMMA StepsFinite ==
  ASSUME NEW s \in Seq(Closures), NEW j
  PROVE  IsFiniteSet(StepsOf(s, j)) /\ Cardinality(StepsOf(s, j)) \in Nat
<1>1. IsFiniteSet(1 .. Len(s)) /\ StepsOf(s, j) \in SUBSET (1 .. Len(s))
  BY FS_Interval DEF StepsOf
<1>. QED
  BY <1>1, FS_Subset, FS_CardinalityType

LEMMA StepsOfNone ==
  ASSUME NEW s, NEW j, \A a \in 1 .. Len(s) : s[a].job # j
  PROVE  Cardinality(StepsOf(s, j)) = 0
<1>1. StepsOf(s, j) = {}
  BY DEF StepsOf
<1>. QED
  BY <1>1, FS_EmptySet

LEMMA StepsAppend ==
  ASSUME NEW s \in Seq(Closures), NEW c \in Closures, NEW j
  PROVE  Cardinality(StepsOf(Append(s, c), j)) =
           Cardinality(StepsOf(s, j)) + IF c.job = j /\ c.op = "step" THEN 1 ELSE 0
<1>1. Len(s) + 1 \notin StepsOf(s, j)
  BY DEF StepsOf
<1>2. StepsOf(Append(s, c), j) =
        IF c.job = j /\ c.op = "step" THEN StepsOf(s, j) \cup {Len(s) + 1} ELSE StepsOf(s, j)
  BY AppendClosure DEF StepsOf
<1>3. IsFiniteSet(StepsOf(s, j)) /\ Cardinality(StepsOf(s, j)) \in Nat
  BY StepsFinite
<1>4. Cardinality(StepsOf(s, j) \cup {Len(s) + 1}) = Cardinality(StepsOf(s, j)) + 1
  BY <1>1, <1>3, FS_AddElement
<1>. QED
  BY <1>2, <1>3, <1>4

LEMMA StepsTail ==
  ASSUME NEW s \in Seq(Closures), s # <<>>, NEW j
  PROVE  Cardinality(StepsOf(s, j)) =
           Cardinality(StepsOf(Tail(s), j))
             + IF s[1].job = j /\ s[1].op = "step" THEN 1 ELSE 0
<1> DEFINE rest == StepsOf(s, j) \ {1}
           f == [a \in rest |-> a - 1]
<1>1. /\ Len(s) \in Nat \ {0} /\ Len(Tail(s)) = Len(s) - 1 /\ Tail(s) \in Seq(Closures)
      /\ \A a \in 1 .. Len(Tail(s)) : Tail(s)[a] = s[a + 1]
  BY TailClosure
<1>2. f \in Bijection(rest, StepsOf(Tail(s), j))
  <2>1. f \in [rest -> StepsOf(Tail(s), j)]
    BY <1>1 DEF StepsOf
  <2>2. \A a, b \in rest : f[a] = f[b] => a = b
    BY <1>1 DEF StepsOf
  <2>3. \A b \in StepsOf(Tail(s), j) : \E a \in rest : f[a] = b
    <3> TAKE b \in StepsOf(Tail(s), j)
    <3>1. b + 1 \in rest /\ f[b + 1] = b
      BY <1>1 DEF StepsOf
    <3>. QED
      BY <3>1
  <2> HIDE DEF f, rest
  <2>. QED
    BY <2>1, <2>2, <2>3 DEF Bijection, Injection, Surjection, IsInjective
<1>3. IsFiniteSet(StepsOf(s, j)) /\ IsFiniteSet(rest)
  BY StepsFinite, FS_RemoveElement
<1>4. Cardinality(StepsOf(Tail(s), j)) = Cardinality(rest)
  BY <1>2, <1>3, FS_Bijection DEF ExistsBijection
<1>5. Cardinality(rest) = IF 1 \in StepsOf(s, j) THEN Cardinality(StepsOf(s, j)) - 1
                                                 ELSE Cardinality(StepsOf(s, j))
  BY <1>3, FS_RemoveElement
<1>6. 1 \in StepsOf(s, j) <=> s[1].job = j /\ s[1].op = "step"
  BY <1>1 DEF StepsOf
<1> HIDE DEF rest
<1>. QED
  BY <1>4, <1>5, <1>6, StepsFinite

(* Another job's worker does not count for job i. *)
LEMMA StepsOfOthers ==
  ASSUME IInv, NEW j \in Jobs, PostsOwn(j), NEW i \in Jobs, i # j
  PROVE  StepsOf(posted', i) = StepsOf(posted, i)
<1>1. Len(posted) \in Nat /\ Len(posted') \in Nat
  BY DEF IInv, TypeOK, PostsOwn
<1>. QED
  BY <1>1 DEF PostsOwn, StepsOf

----------------------------------------------------------------------------
(* The shapes a worker's step can have. *)
Enters(j) ==
  /\ pc[j] = "pooled"
  /\ pc'[j] \in {"create", "engine", "item"}
  /\ pc'[j] = "create" => kind[j] = "createFolder"
  /\ pc'[j] = "engine" => kind[j] = "archive"
  /\ Post(j, "running", 0) /\ UNCHANGED <<item, resolved>>

Ends(j) ==
  /\ pc[j] \in Busy /\ pc'[j] = "exited" /\ UNCHANGED <<item, resolved>>
  /\ \E r \in Finished :
       /\ Post(j, "finish", r)
       /\ r = "Completed" => pc[j] = "engine" \/ (pc[j] = "item" /\ item[j] > total[j])

Counts(j) ==
  /\ pc[j] \in {"item", "decided", "transfer"} /\ pc'[j] = "item"
  /\ pc[j] = "decided" => choice[j] # "Cancel"
  /\ item[j] <= total[j] /\ item'[j] = item[j] + 1 /\ UNCHANGED resolved
  /\ Post(j, "step", 0)

Moves(j) ==
  /\ \/ pc[j] = "item" /\ pc'[j] \in {"transfer", "conflict"} /\ UNCHANGED resolved
     \/ pc[j] = "conflict" /\ pc'[j] = "decided" /\ choice'[j] = persistent[j] /\ UNCHANGED resolved
     \/ pc[j] = "decided" /\ pc'[j] = "transfer" /\ choice[j] # "Cancel" /\ UNCHANGED resolved
     \/ pc[j] = "wait" /\ pc'[j] = "decided" /\ choice'[j] = "Cancel" /\ UNCHANGED resolved
     \/ pc[j] = "arm" /\ pc'[j] = "wait" /\ resolved'[j] = FALSE
  /\ UNCHANGED <<posted, item>>

Announces(j) ==
  /\ pc[j] = "conflict" /\ pc'[j] = "arm" /\ UNCHANGED <<item, resolved>>
  /\ item[j] \in 1 .. MaxItems
  /\ posted' = Append(Append(posted, Closure(j, "waiting", item[j])), Closure(j, "raise", item[j]))

Resumes(j) ==
  /\ pc[j] = "wait" /\ pc'[j] = "decided" /\ resolved[j] /\ ~cancelRequested[j]
  /\ Post(j, "running", 0) /\ UNCHANGED item

Creates(j) ==
  /\ pc[j] = "create" /\ pc'[j] = "exited" /\ UNCHANGED <<item, resolved>>
  /\ posted' = Append(Append(posted, Closure(j, "step", 0)), Closure(j, "finish", "Completed"))

Shapes(j) == Enters(j) \/ Ends(j) \/ Counts(j) \/ Moves(j) \/ Announces(j) \/ Resumes(j) \/ Creates(j)

(* What no worker's step touches. *)
Untouched(j) ==
  /\ UNCHANGED <<listed, state, shown, completed, manager, cancelRequested, persistent, request>>
  /\ \A i \in Jobs \ {j} : pc'[i] = pc[i] /\ item'[i] = item[i] /\ choice'[i] = choice[i]
                           /\ resolved'[i] = resolved[i]

LEMMA WorkerShapes ==
  ASSUME IInv, NEW j \in Jobs, Worker(j)
  PROVE  Untouched(j) /\ Shapes(j)
<1> USE DEF IInv, TypeOK, Shapes, Goto, Finished, Busy, gui
<1>1. Untouched(j)
  BY DEF Worker, Begin, EndItems, DeleteItem, InspectItem, MeetConflict, ReuseAnswer, Announce,
         Arm, WakeCancelled, WakeAnswered, Decide, Transfer, CreateFolder, RunEngine, Leave,
         NextSource, WorkerOnly, shared, Untouched
<1>2. CASE Begin(j)
  <2>1. Enters(j)
    BY <1>2 DEF Begin, Enters, WorkerOnly, shared
  <2>. QED
    BY <1>1, <2>1
<1>3. CASE EndItems(j)
  <2>1. Ends(j)
    BY <1>3 DEF EndItems, Leave, Ends, WorkerOnly, shared
  <2>. QED
    BY <1>1, <2>1
<1>4. CASE DeleteItem(j)
  <2>1. Counts(j) \/ Ends(j)
    BY <1>4 DEF DeleteItem, NextSource, Leave, Counts, Ends, WorkerOnly, shared
  <2>. QED
    BY <1>1, <2>1
<1>5. CASE InspectItem(j)
  <2>1. Counts(j) \/ Ends(j) \/ Moves(j)
    BY <1>5 DEF InspectItem, NextSource, Leave, Counts, Ends, Moves, WorkerOnly, shared
  <2>. QED
    BY <1>1, <2>1
<1>6. CASE MeetConflict(j)
  <2>1. CASE ReuseAnswer(j)
    <3>1. Moves(j)
      BY <1>6, <2>1 DEF MeetConflict, ReuseAnswer, Moves, WorkerOnly, shared
    <3>. QED
      BY <1>1, <3>1
  <2>2. CASE Announce(j)
    <3>1. Announces(j)
      BY <1>6, <2>2, BoundsAssumption
         DEF MeetConflict, Announce, Announces, WorkerOnly, shared, ItemInRequest
    <3>. QED
      BY <1>1, <3>1
  <2>. QED
    BY <1>6, <2>1, <2>2 DEF MeetConflict
<1>7. CASE Arm(j) \/ WakeCancelled(j)
  <2>1. Moves(j)
    BY <1>7 DEF Arm, WakeCancelled, Moves, WorkerOnly, shared
  <2>. QED
    BY <1>1, <2>1
<1>8. CASE WakeAnswered(j)
  <2>1. Resumes(j)
    BY <1>8 DEF WakeAnswered, Resumes
  <2>. QED
    BY <1>1, <2>1
<1>9. CASE Decide(j)
  <2>0. item[j] <= total[j]
    BY <1>9 DEF Decide, ItemInRequest
  <2>1. Counts(j) \/ Ends(j) \/ Moves(j)
    BY <1>9, <2>0 DEF Decide, NextSource, Leave, Counts, Ends, Moves, WorkerOnly, shared
  <2>. QED
    BY <1>1, <2>1
<1>10. CASE Transfer(j)
  <2>0. item[j] <= total[j]
    BY <1>10 DEF Transfer, ItemInRequest
  <2>1. Counts(j) \/ Ends(j)
    BY <1>10, <2>0 DEF Transfer, NextSource, Leave, Counts, Ends, WorkerOnly, shared
  <2>. QED
    BY <1>1, <2>1
<1>11. CASE CreateFolder(j)
  <2>1. Creates(j) \/ Ends(j)
    BY <1>11 DEF CreateFolder, Leave, Creates, Ends, WorkerOnly, shared
  <2>. QED
    BY <1>1, <2>1
<1>12. CASE RunEngine(j)
  <2>1. Ends(j)
    BY <1>12 DEF RunEngine, Leave, Ends, WorkerOnly, shared
  <2>. QED
    BY <1>1, <2>1
<1>. QED
  BY <1>2, <1>3, <1>4, <1>5, <1>6, <1>7, <1>8, <1>9, <1>10, <1>11, <1>12 DEF Worker

LEMMA ShapePosts == ASSUME IInv, NEW j \in Jobs, Worker(j) PROVE PostsOwn(j)
<1>0. pc \in [Jobs -> Inactive \cup Busy] /\ Shapes(j)
  BY WorkerShapes DEF IInv, TypeOK
<1>1. CASE Enters(j) \/ Counts(j) \/ Resumes(j)
  BY <1>1, PostOne DEF Enters, Counts, Resumes, Closure, Closures
<1>2. CASE Ends(j)
  BY <1>2, PostOne DEF Ends, Closure, Closures
<1>3. CASE Moves(j)
  BY <1>3, PostNone DEF Moves
<1>4. CASE Announces(j)
  BY <1>4, PostTwo DEF Announces, Closure, Closures
<1>5. CASE Creates(j)
  BY <1>5, PostTwo DEF Creates, Closure, Closures, Finished
<1>. QED
  BY <1>0, <1>1, <1>2, <1>3, <1>4, <1>5 DEF Shapes

(* What a step adds to the count of its job. *)
LEMMA ShapeCounts ==
  ASSUME IInv, NEW j \in Jobs, Worker(j)
  PROVE  /\ \/ /\ Enters(j) \/ Ends(j) \/ Moves(j) \/ Announces(j) \/ Resumes(j)
               /\ Counted(j)' = Counted(j)
            \/ /\ Counts(j) \/ Creates(j)
               /\ Counted(j)' = Counted(j) + 1
         /\ \A i \in Jobs \ {j} : Counted(i)' = Counted(i)
         /\ \A i \in Jobs : Counted(i) \in Nat
<1>1. /\ posted \in Seq(Closures) /\ UNCHANGED completed /\ completed \in [Jobs -> Nat]
      /\ \A i \in Jobs : Cardinality(StepsOf(posted, i)) \in Nat
  BY WorkerShapes, StepsFinite DEF Untouched, IInv, TypeOK
<1>2. \A i \in Jobs \ {j} : Counted(i)' = Counted(i)
  BY <1>1, StepsOfOthers, ShapePosts DEF Counted
<1>3. ASSUME NEW what \in {"running", "finish", "step", "waiting", "raise"}, NEW arg,
             Closure(j, what, arg) \in Closures, NEW s \in Seq(Closures)
      PROVE  /\ Cardinality(StepsOf(Append(s, Closure(j, what, arg)), j)) =
                  Cardinality(StepsOf(s, j)) + IF what = "step" THEN 1 ELSE 0
             /\ Append(s, Closure(j, what, arg)) \in Seq(Closures)
  BY <1>3, StepsAppend DEF Closure
<1>4. /\ Closure(j, "running", 0) \in Closures /\ Closure(j, "step", 0) \in Closures
      /\ \A r \in Finished : Closure(j, "finish", r) \in Closures
      /\ \A n \in 1 .. MaxItems : /\ Closure(j, "waiting", n) \in Closures
                                  /\ Closure(j, "raise", n) \in Closures
  BY DEF Closure, Closures
<1>5. CASE Enters(j) \/ Resumes(j)
  <2>1. posted' = Append(posted, Closure(j, "running", 0))
    BY <1>5 DEF Enters, Resumes, Post
  <2>2. Cardinality(StepsOf(posted', j)) = Cardinality(StepsOf(posted, j))
    BY <1>1, <1>3, <1>4, <2>1
  <2>. QED
    BY <1>1, <1>2, <1>5, <2>2 DEF Counted
<1>6. CASE Ends(j)
  BY <1>1, <1>2, <1>3, <1>4, <1>6 DEF Ends, Post, Counted
<1>7. CASE Counts(j)
  <2>1. posted' = Append(posted, Closure(j, "step", 0))
    BY <1>7 DEF Counts, Post
  <2>2. Cardinality(StepsOf(posted', j)) = Cardinality(StepsOf(posted, j)) + 1
    BY <1>1, <1>3, <1>4, <2>1
  <2>. QED
    BY <1>1, <1>2, <1>7, <2>2 DEF Counted
<1>8. CASE Moves(j)
  BY <1>1, <1>2, <1>8 DEF Moves, Counted
<1>9. CASE Announces(j)
  <2> DEFINE one == Append(posted, Closure(j, "waiting", item[j]))
  <2>1. /\ one \in Seq(Closures) /\ posted' = Append(one, Closure(j, "raise", item[j]))
        /\ Closure(j, "raise", item[j]) \in Closures
    BY <1>1, <1>3, <1>4, <1>9 DEF Announces
  <2>2. Cardinality(StepsOf(one, j)) = Cardinality(StepsOf(posted, j))
    BY <1>1, <1>3, <1>4, <1>9 DEF Announces
  <2> HIDE DEF one
  <2>3. Cardinality(StepsOf(posted', j)) = Cardinality(StepsOf(one, j))
    BY <1>1, <1>3, <2>1, StepsFinite
  <2>. QED
    BY <1>1, <1>2, <1>9, <2>2, <2>3 DEF Counted
<1>10. CASE Creates(j)
  <2> DEFINE one == Append(posted, Closure(j, "step", 0))
  <2>1. /\ one \in Seq(Closures) /\ posted' = Append(one, Closure(j, "finish", "Completed"))
        /\ Closure(j, "finish", "Completed") \in Closures
    BY <1>1, <1>3, <1>4, <1>10 DEF Creates, Finished
  <2>2. Cardinality(StepsOf(one, j)) = Cardinality(StepsOf(posted, j)) + 1
    BY <1>1, <1>3, <1>4
  <2> HIDE DEF one
  <2>3. Cardinality(StepsOf(posted', j)) = Cardinality(StepsOf(one, j))
    BY <1>1, <1>3, <2>1, StepsFinite
  <2>. QED
    BY <1>1, <1>2, <1>10, <2>2, <2>3 DEF Counted
<1>. QED
  BY <1>5, <1>6, <1>7, <1>8, <1>9, <1>10, WorkerShapes DEF Shapes

(* The closures a step posts, by its shape. *)
LEMMA ShapeClosures ==
  ASSUME IInv, NEW j \in Jobs, Worker(j),
         NEW a \in Len(posted) + 1 .. Len(posted'), NEW c, c = posted'[a]
  PROVE  /\ c.job = j
         /\ \/ c.op \in {"running", "step"}
            \/ c.op = "waiting" /\ c.arg = item[j] /\ Announces(j) /\ a = Len(posted) + 1
            \/ c.op = "raise" /\ Announces(j) /\ a = Len(posted) + 2
            \/ c.op = "finish" /\ Creates(j)
            \/ c.op = "finish" /\ Ends(j)
               /\ (c.arg = "Completed" => pc[j] = "engine" \/ (item[j] > total[j] /\ pc[j] = "item"))
<1>1. posted \in Seq(Closures) /\ Len(posted) \in Nat /\ Shapes(j)
  BY WorkerShapes DEF IInv, TypeOK
<1>2. ASSUME NEW d \in Closures, posted' = Append(posted, d)
      PROVE  Len(posted') = Len(posted) + 1 /\ a = Len(posted) + 1 /\ c = d
  BY <1>1, <1>2, AppendClosure
<1>3. ASSUME NEW d \in Closures, NEW e \in Closures, posted' = Append(Append(posted, d), e)
      PROVE  /\ Len(posted') = Len(posted) + 2
             /\ (a = Len(posted) + 1 /\ c = d) \/ (a = Len(posted) + 2 /\ c = e)
  <2> DEFINE one == Append(posted, d)
  <2>1. /\ one \in Seq(Closures) /\ Len(one) = Len(posted) + 1 /\ one[Len(posted) + 1] = d
    BY <1>1, AppendClosure
  <2>2. /\ Len(posted') = Len(one) + 1 /\ posted'[Len(one) + 1] = e
        /\ \A b \in 1 .. Len(one) : posted'[b] = one[b]
    BY <1>3, <2>1, AppendClosure
  <2> HIDE DEF one
  <2>3. posted'[Len(posted) + 1] = d /\ posted'[Len(posted) + 2] = e
    BY <1>1, <2>1, <2>2
  <2>4. a = Len(posted) + 1 \/ a = Len(posted) + 2
    BY <1>1, <2>1, <2>2
  <2>5. Len(posted') = Len(posted) + 2
    BY <1>1, <2>1, <2>2
  <2>6. a = Len(posted) + 1 => c = d
    BY <2>3
  <2>7. a = Len(posted) + 2 => c = e
    BY <2>3
  <2>. QED
    BY <2>4, <2>5, <2>6, <2>7
<1>4. /\ Closure(j, "running", 0) \in Closures /\ Closure(j, "step", 0) \in Closures
      /\ \A r \in Finished : Closure(j, "finish", r) \in Closures
      /\ \A n \in 1 .. MaxItems : /\ Closure(j, "waiting", n) \in Closures
                                  /\ Closure(j, "raise", n) \in Closures
  BY DEF Closure, Closures
<1>5. CASE Enters(j) \/ Resumes(j)
  BY <1>2, <1>4, <1>5 DEF Enters, Resumes, Post, Closure
<1>6. CASE Ends(j)
  <2>1. PICK r \in Finished :
          /\ posted' = Append(posted, Closure(j, "finish", r))
          /\ r = "Completed" => pc[j] = "engine" \/ (pc[j] = "item" /\ item[j] > total[j])
    BY <1>6 DEF Ends, Post
  <2>2. c = Closure(j, "finish", r)
    BY <1>2, <1>4, <2>1
  <2>3. c.job = j /\ c.op = "finish" /\ c.arg = r
    BY <2>2 DEF Closure
  <2>. QED
    BY <1>6, <2>1, <2>3
<1>7. CASE Counts(j)
  BY <1>2, <1>4, <1>7 DEF Counts, Post, Closure
<1>8. CASE Moves(j)
  BY <1>1, <1>8 DEF Moves
<1>9. CASE Announces(j)
  BY <1>3, <1>4, <1>9 DEF Announces, Closure
<1>10. CASE Creates(j)
  BY <1>3, <1>4, <1>10 DEF Creates, Closure, Finished
<1>. QED
  BY <1>1, <1>5, <1>6, <1>7, <1>8, <1>9, <1>10 DEF Shapes

LEMMA CreatesIsAlone ==
  ASSUME IInv, NEW j \in Jobs, Creates(j)
  PROVE  ~(Enters(j) \/ Ends(j) \/ Moves(j) \/ Announces(j) \/ Resumes(j))
<1>1. /\ posted \in Seq(Closures) /\ Closure(j, "step", 0) \in Closures
      /\ Closure(j, "finish", "Completed") \in Closures
      /\ \A r \in Finished : Closure(j, "finish", r) \in Closures
  BY DEF Closure, Closures, Finished, IInv, TypeOK
<1>2. Len(posted) \in Nat /\ Len(posted') = Len(posted) + 2
  BY <1>1, AppendClosure DEF Creates
<1>3. ~Ends(j)
  BY <1>1, <1>2, AppendClosure DEF Ends, Post
<1>. QED
  BY <1>3 DEF Creates, Enters, Moves, Announces, Resumes

LEMMA WorkerKeepsRows ==
  ASSUME RowInv, NEW j \in Jobs, Worker(j)
  PROVE  /\ UnlistedIsDone' /\ PlaceMatchesCount' /\ CompletedCountsAll'
         /\ WaitingIsMet' /\ ShownConflictIsReal'
<1> DEFINE new == Len(posted) + 1 .. Len(posted')
<1>1. IInv /\ Untouched(j) /\ Shapes(j) /\ PostsOwn(j)
  BY WorkerShapes, ShapePosts DEF RowInv, OrderInv
<1>2. /\ pc \in [Jobs -> Inactive \cup Busy] /\ item \in [Jobs -> 1 .. MaxItems + 1]
      /\ total \in [Jobs -> 0 .. MaxItems] /\ MaxItems \in Nat
      /\ shown \in [Jobs -> 0 .. MaxItems]
      /\ Len(posted) \in Nat /\ Len(posted') \in Nat /\ Len(posted) <= Len(posted')
      /\ \A a \in 1 .. Len(posted) : posted[a].job \in Jobs /\ posted'[a] = posted[a]
      /\ UNCHANGED <<listed, state, shown, completed, kind, total>>
      /\ \A i \in Jobs \ {j} : pc'[i] = pc[i] /\ item'[i] = item[i]
  BY <1>1, ClosureJob, BoundsAssumption DEF IInv, TypeOK, PostsOwn, Untouched, request
<1>3. /\ pc[j] \in Busy \cup {"pooled"} /\ pc'[j] # "none"
      /\ item'[j] \in {item[j], item[j] + 1}
  BY <1>1 DEF Shapes, Enters, Ends, Counts, Moves, Announces, Resumes, Creates, Busy
<1>4. \A i \in Jobs \ {j} : Counted(i)' = Counted(i)
  BY <1>1, ShapeCounts
<1>5. UnlistedIsDone'
  BY <1>2, <1>3 DEF RowInv, UnlistedIsDone, Terminal, Busy
<1>6. ShownConflictIsReal'
  <2> SUFFICES ASSUME NEW i \in Jobs
               PROVE  /\ shown[i] # 0 <=> state[i] = "WaitingForConflict"
                      /\ shown[i] <= item'[i]
    BY <1>2 DEF ShownConflictIsReal
  <2>1. /\ shown[i] # 0 <=> state[i] = "WaitingForConflict"
        /\ shown[i] <= item[i]
    BY DEF RowInv, ShownConflictIsReal
  <2>2. item'[i] = item[i] \/ item'[i] = item[i] + 1
    BY <1>2, <1>3
  <2>. QED
    BY <1>2, <2>1, <2>2
<1>7. WaitingIsMet'
  <2> SUFFICES ASSUME NEW a \in 1 .. Len(posted'), NEW i, i = posted'[a].job,
                      posted'[a].op = "waiting"
               PROVE  posted'[a].arg <= item'[i]
    BY DEF WaitingIsMet
  <2>1. CASE a <= Len(posted)
    <3>1. a \in 1 .. Len(posted) /\ posted'[a] = posted[a] /\ i \in Jobs
          /\ posted[a] \in Closures
      BY <1>1, <1>2, <2>1 DEF IInv, TypeOK
    <3>2. posted[a].arg <= item[i] /\ posted[a].arg \in 1 .. MaxItems
      BY <3>1 DEF RowInv, WaitingIsMet, Closures
    <3>3. item'[i] = item[i] \/ item'[i] = item[i] + 1
      BY <1>2, <1>3, <3>1
    <3>. QED
      BY SMTT(20), <1>2, <3>1, <3>2, <3>3
  <2>2. CASE a > Len(posted)
    <3>1. a \in new
      BY <1>2, <2>2
    <3>2. i = j /\ posted'[a].arg = item[j]
      BY <1>1, <3>1, ShapeClosures
    <3>. QED
      BY <1>2, <1>3, <3>2
  <2>. QED
    BY <1>2, <2>1, <2>2
<1>8. PlaceMatchesCount'
  <2> SUFFICES ASSUME NEW i \in Jobs
               PROVE  /\ pc'[i] \in {"none", "pooled"} => item'[i] = 1 /\ Counted(i)' = 0
                      /\ pc'[i] = "pooled" => /\ kind[i] = "archive" => total[i] = 0
                                              /\ kind[i] = "createFolder" => total[i] = 1
                      /\ pc'[i] \in Busy => item'[i] <= total[i] + 1 /\ Counted(i)' = item'[i] - 1
                      /\ pc'[i] = "create" => item'[i] = 1 /\ total[i] = 1
                      /\ pc'[i] = "engine" => item'[i] = 1 /\ total[i] = 0
                      /\ pc'[i] = "exited" => Counted(i)' <= total[i]
    BY <1>2 DEF PlaceMatchesCount
  <2>1. CASE i # j
    BY <1>2, <1>4, <2>1 DEF RowInv, PlaceMatchesCount
  <2>2. CASE i = j
    <3>1. \/ /\ Enters(j) \/ Ends(j) \/ Moves(j) \/ Announces(j) \/ Resumes(j)
             /\ Counted(j)' = Counted(j)
          \/ /\ Counts(j) \/ Creates(j)
             /\ Counted(j)' = Counted(j) + 1
      BY <1>1, ShapeCounts
    <3>2. /\ pc[j] = "pooled" => /\ item[j] = 1 /\ Counted(j) = 0
                                 /\ kind[j] = "archive" => total[j] = 0
                                 /\ kind[j] = "createFolder" => total[j] = 1
          /\ pc[j] \in Busy => item[j] <= total[j] + 1 /\ Counted(j) = item[j] - 1
          /\ pc[j] = "create" => item[j] = 1 /\ total[j] = 1
          /\ pc[j] = "engine" => item[j] = 1 /\ total[j] = 0
      BY DEF RowInv, PlaceMatchesCount
    <3>3. item[j] \in Nat /\ total[j] \in Nat
      BY <1>2
    <3>. QED
      BY <2>2, <3>1, <3>2, <3>3
         DEF Enters, Ends, Counts, Moves, Announces, Resumes, Creates, Busy
  <2>. QED
    BY <2>1, <2>2
<1>9. CompletedCountsAll'
  <2>1. \A i \in Jobs : state'[i] = "Completed" => Counted(i)' = total'[i]
    <3>1. state[j] # "Completed"
      BY <1>3 DEF RowInv, OrderInv, IInv, TerminalIsQuiet, Terminal, Finished, Busy
    <3>. QED
      BY <1>2, <1>4, <3>1 DEF RowInv, CompletedCountsAll
  <2>2. ASSUME NEW a \in 1 .. Len(posted'), posted'[a].op = "finish",
               posted'[a].arg = "Completed", NEW i, i = posted'[a].job
        PROVE  Counted(i)' = total[i]
    <3>1. CASE a <= Len(posted)
      <4>1. posted'[a] = posted[a] /\ i \in Jobs /\ a \in 1 .. Len(posted)
        BY <1>2, <2>2, <3>1
      <4>2. i # j
        BY <1>3, <2>2, <4>1 DEF RowInv, OrderInv, IInv, FinishIsLast, Busy
      <4>3. Counted(i) = total[i]
        BY <2>2, <4>1 DEF RowInv, CompletedCountsAll
      <4>. QED
        BY <1>4, <4>1, <4>2, <4>3
    <3>2. CASE a > Len(posted)
      <4>1. a \in new
        BY <1>2, <3>2
      <4>2. /\ i = j
            /\ \/ Creates(j)
               \/ Ends(j) /\ (pc[j] = "engine" \/ (item[j] > total[j] /\ pc[j] = "item"))
        <5> DEFINE c == posted'[a]
        <5>1. c.op = "finish" /\ c.arg = "Completed" /\ i = c.job
          BY <2>2
        <5>2. c = posted'[a]
          OBVIOUS
        <5> HIDE DEF c
        <5>. QED
          BY <1>1, <4>1, <5>1, <5>2, ShapeClosures
      <4>3. PlaceMatchesCount /\ item[j] \in Nat /\ total[j] \in Nat
        BY <1>2 DEF RowInv
      <4>4. CASE Creates(j)
        <5>1. Counted(j)' = Counted(j) + 1
          BY <1>1, <4>4, ShapeCounts, CreatesIsAlone
        <5>. QED
          BY <4>2, <4>3, <4>4, <5>1 DEF Creates, PlaceMatchesCount, Busy
      <4>5. CASE ~Creates(j)
        <5>1. Counted(j)' = Counted(j)
          BY <1>1, <4>2, <4>5, ShapeCounts DEF Counts, Ends
        <5>. QED
          BY <4>2, <4>3, <4>5, <5>1 DEF PlaceMatchesCount, Busy
      <4>. QED
        BY <4>4, <4>5
    <3>. QED
      BY <1>2, <3>1, <3>2
  <2>. QED
    BY <1>2, <2>1, <2>2 DEF CompletedCountsAll
<1>. QED
  BY <1>5, <1>6, <1>7, <1>8, <1>9

----------------------------------------------------------------------------
(* The oldest closure belongs to a job that still has its row. *)
LEMMA LoopIsForListed ==
  ASSUME RowInv, posted # <<>>
  PROVE  /\ posted \in Seq(Closures) /\ posted[1] \in Closures
         /\ posted[1].job \in Jobs \cap listed
<1>1. /\ posted \in Seq(Closures) /\ posted[1] \in Closures /\ posted[1].job \in Jobs
      /\ 1 \in 1 .. Len(posted)
  BY TailClosure, ClosureJob DEF RowInv, OrderInv, IInv, TypeOK
<1>. QED
  BY <1>1 DEF RowInv, OrderInv, IInv, UnstartedIsBlank, TerminalIsQuiet, UnlistedIsDone

(* What running the oldest closure does to the rows. *)
LEMMA LoopEffect ==
  ASSUME RowInv, Loop, NEW c, c = posted[1], NEW i \in Jobs
  PROVE  /\ posted # <<>> /\ posted' = Tail(posted)
         /\ UNCHANGED <<listed, manager, cancelRequested, resolved, persistent, request,
                        pc, item, choice>>
         /\ c.job # i => UNCHANGED <<state[i], shown[i], completed[i]>>
         /\ c.job = i => \/ /\ c.op = "running"
                            /\ state'[i] = "Running" /\ shown'[i] = 0
                            /\ UNCHANGED completed[i]
                         \/ /\ c.op = "waiting" /\ c.arg \in 1 .. MaxItems
                            /\ state'[i] = "WaitingForConflict" /\ shown'[i] = c.arg
                            /\ UNCHANGED completed[i]
                         \/ /\ c.op = "step" /\ UNCHANGED <<state[i], shown[i]>>
                            /\ completed'[i] = completed[i] + 1
                         \/ /\ c.op = "finish" /\ c.arg \in Finished
                            /\ state'[i] = c.arg /\ shown'[i] = 0
                            /\ UNCHANGED completed[i]
                         \/ /\ c.op = "raise" /\ UNCHANGED <<state[i], shown[i], completed[i]>>
<1>1. /\ posted # <<>> /\ posted' = Tail(posted)
      /\ UNCHANGED <<listed, manager, cancelRequested, resolved, persistent, request, pc, item,
                     choice>>
  BY DEF Loop, RunRunning, RunWaiting, RunStep, RunFinish, RunRaise, RunClosure, worker, shared
<1>2. /\ Head(posted) = c /\ c \in Closures /\ c.job \in listed
      /\ state \in [Jobs -> States] /\ shown \in [Jobs -> 0 .. MaxItems]
      /\ completed \in [Jobs -> Nat]
  BY <1>1, LoopIsForListed, TailClosure DEF RowInv, OrderInv, IInv, TypeOK
<1>3. /\ c.op = "waiting" => c.arg \in 1 .. MaxItems
      /\ c.op = "finish" => c.arg \in Finished
  BY <1>2 DEF Closures
<1>4. CASE RunRunning
  BY <1>1, <1>2, <1>4 DEF RunRunning, RunClosure, InRow
<1>5. CASE RunWaiting
  BY <1>1, <1>2, <1>3, <1>5 DEF RunWaiting, RunClosure, InRow
<1>6. CASE RunStep
  BY <1>1, <1>2, <1>6 DEF RunStep, RunClosure, InRow
<1>7. CASE RunFinish
  BY <1>1, <1>2, <1>3, <1>7 DEF RunFinish, RunClosure, InRow
<1>8. CASE RunRaise
  BY <1>1, <1>2, <1>8 DEF RunRaise, RunClosure
<1>. QED
  BY <1>4, <1>5, <1>6, <1>7, <1>8 DEF Loop

LEMMA LoopKeepsRows ==
  ASSUME RowInv, Loop
  PROVE  /\ UnlistedIsDone' /\ PlaceMatchesCount' /\ CompletedCountsAll'
         /\ WaitingIsMet' /\ ShownConflictIsReal'
<1> DEFINE c == posted[1]
<1>0. c = posted[1]
  OBVIOUS
<1> HIDE DEF c
<1>1. /\ posted \in Seq(Closures) /\ posted # <<>> /\ c.job \in Jobs \cap listed
  <2>1. posted # <<>>
    BY DEF Loop, RunRunning, RunWaiting, RunStep, RunFinish, RunRaise, RunClosure
  <2>. QED
    BY <1>0, <2>1, LoopIsForListed
<1>2. /\ Len(posted) \in Nat \ {0} /\ Len(posted') = Len(posted) - 1
      /\ \A a \in 1 .. Len(posted') : posted'[a] = posted[a + 1]
      /\ UNCHANGED <<listed, pc, item, total, kind>>
      /\ completed \in [Jobs -> Nat] /\ state \in [Jobs -> States]
  <2>1. /\ posted' = Tail(posted)
        /\ UNCHANGED <<listed, pc, item, total, kind>>
    BY <1>0, <1>1, LoopEffect DEF request
  <2>. QED
    BY <1>1, <2>1, TailClosure DEF RowInv, OrderInv, IInv, TypeOK
<1>3. \A i \in Jobs : Counted(i)' = Counted(i)
  <2> SUFFICES ASSUME NEW i \in Jobs PROVE Counted(i)' = Counted(i)
    OBVIOUS
  <2>1. posted' = Tail(posted) /\ Tail(posted) \in Seq(Closures)
    BY <1>0, <1>1, LoopEffect, TailClosure
  <2>2. /\ Cardinality(StepsOf(posted, i)) =
             Cardinality(StepsOf(posted', i)) + IF c.job = i /\ c.op = "step" THEN 1 ELSE 0
        /\ Cardinality(StepsOf(posted', i)) \in Nat
    BY <1>0, <1>1, <2>1, StepsTail, StepsFinite
  <2>3. completed'[i] = completed[i] + IF c.job = i /\ c.op = "step" THEN 1 ELSE 0
    BY <1>0, <1>2, LoopEffect
  <2>4. completed[i] \in Nat
    BY <1>2
  <2>. QED
    BY <2>2, <2>3, <2>4 DEF Counted
<1>4. UnlistedIsDone'
  BY <1>0, <1>1, <1>2, LoopEffect DEF RowInv, UnlistedIsDone, Terminal
<1>5. PlaceMatchesCount'
  BY <1>2, <1>3 DEF RowInv, PlaceMatchesCount
<1>6. CompletedCountsAll'
  <2>1. \A i \in Jobs : state'[i] = "Completed" => Counted(i)' = total'[i]
    <3> TAKE i \in Jobs
    <3>1. CASE state'[i] = state[i]
      BY <1>2, <1>3, <3>1 DEF RowInv, CompletedCountsAll
    <3>2. CASE c.job = i /\ c.op = "finish" /\ state'[i] = c.arg
      <4>1. 1 \in 1 .. Len(posted)
        BY <1>2
      <4>2. c.arg = "Completed" => Counted(i) = total[i]
        BY <1>0, <3>2, <4>1 DEF RowInv, CompletedCountsAll
      <4>. QED
        BY <1>2, <1>3, <3>2, <4>2
    <3>. QED
      BY <1>0, <3>1, <3>2, LoopEffect
  <2>2. ASSUME NEW a \in 1 .. Len(posted'), posted'[a].op = "finish",
               posted'[a].arg = "Completed", NEW i, i = posted'[a].job
        PROVE  Counted(i)' = total[i]
    <3>1. a + 1 \in 1 .. Len(posted) /\ posted'[a] = posted[a + 1]
      BY <1>2
    <3>2. i \in Jobs /\ Counted(i) = total[i]
      BY <1>1, <2>2, <3>1, ClosureJob DEF RowInv, CompletedCountsAll
    <3>. QED
      BY <1>3, <3>2
  <2>. QED
    BY <1>2, <2>1, <2>2 DEF CompletedCountsAll
<1>7. WaitingIsMet'
  <2> SUFFICES ASSUME NEW a \in 1 .. Len(posted'), posted'[a].op = "waiting"
               PROVE  posted'[a].arg <= item[posted'[a].job]
    BY <1>2 DEF WaitingIsMet
  <2>1. a + 1 \in 1 .. Len(posted) /\ posted'[a] = posted[a + 1]
    BY <1>2
  <2>. QED
    BY <2>1 DEF RowInv, WaitingIsMet
<1>8. ShownConflictIsReal'
  <2> SUFFICES ASSUME NEW i \in Jobs
               PROVE  /\ shown'[i] # 0 <=> state'[i] = "WaitingForConflict"
                      /\ shown'[i] <= item[i]
    BY <1>2 DEF ShownConflictIsReal
  <2>1. /\ shown[i] # 0 <=> state[i] = "WaitingForConflict"
        /\ shown[i] <= item[i] /\ item[i] \in 1 .. MaxItems + 1
    BY DEF RowInv, ShownConflictIsReal, OrderInv, IInv, TypeOK
  <2>2. c.job = i /\ c.op = "waiting" => c.arg <= item[i]
    <3>1. 1 \in 1 .. Len(posted)
      BY <1>2
    <3>. QED
      BY <1>0, <3>1 DEF RowInv, WaitingIsMet
  <2>. QED
    BY <1>0, <2>1, <2>2, LoopEffect, BoundsAssumption DEF Finished
<1>. QED
  BY <1>4, <1>5, <1>6, <1>7, <1>8

----------------------------------------------------------------------------
LEMMA StartKeepsRows ==
  ASSUME RowInv, NEW j \in Jobs, NEW k \in Kinds, NEW n \in 0 .. MaxItems, Start(j, k, n)
  PROVE  /\ UnlistedIsDone' /\ PlaceMatchesCount' /\ CompletedCountsAll'
         /\ WaitingIsMet' /\ ShownConflictIsReal'
<1>1. /\ pc[j] = "none" /\ pc' = [pc EXCEPT ![j] = "pooled"]
      /\ kind' = [kind EXCEPT ![j] = k] /\ total' = [total EXCEPT ![j] = n]
      /\ listed' = (listed \ Pruned) \cup {j} /\ \A i \in Pruned : Terminal(i)
      /\ UNCHANGED <<state, shown, completed, posted, item>>
      /\ k = "archive" => n = 0
      /\ k = "createFolder" => n = 1
  BY DEF Start, Pruned
<1>2. /\ pc \in [Jobs -> Inactive \cup Busy] /\ kind \in [Jobs -> AllKinds]
      /\ total \in [Jobs -> 0 .. MaxItems]
      /\ \A a \in 1 .. Len(posted) : posted[a].job # j /\ posted[a].job \in Jobs
      /\ state[j] = "Queued"
  BY <1>1, ClosureJob DEF RowInv, OrderInv, IInv, TypeOK, UnstartedIsBlank
<1>3. \A i : Counted(i)' = Counted(i)
  BY <1>1 DEF Counted
<1>4. UnlistedIsDone'
  BY <1>1, <1>2 DEF RowInv, UnlistedIsDone, Terminal
<1>5. PlaceMatchesCount'
  BY <1>1, <1>2, <1>3 DEF RowInv, PlaceMatchesCount, Busy
<1>6. CompletedCountsAll'
  BY <1>1, <1>2, <1>3 DEF RowInv, CompletedCountsAll
<1>7. WaitingIsMet' /\ ShownConflictIsReal'
  BY <1>1 DEF RowInv, WaitingIsMet, ShownConflictIsReal
<1>. QED
  BY <1>4, <1>5, <1>6, <1>7

LEMMA CallKeepsRows ==
  ASSUME RowInv,
         \/ \E j \in Jobs : \/ Cancel(j) \/ Dismiss(j)
                            \/ \E d \in Answers, all \in BOOLEAN : Resolve(j, d, all)
         \/ ClearFinished \/ BeginDestroy \/ Stopped \/ UNCHANGED vars
  PROVE  /\ UnlistedIsDone' /\ PlaceMatchesCount' /\ CompletedCountsAll'
         /\ WaitingIsMet' /\ ShownConflictIsReal'
<1>1. /\ UNCHANGED <<state, shown, completed, posted, pc, item, kind, total>>
      /\ listed' \subseteq listed /\ \A j \in listed \ listed' : Terminal(j)
  BY DEF Cancel, Dismiss, Resolve, ClearFinished, BeginDestroy, Stopped, vars, gui, worker, request
<1>2. \A i : Counted(i)' = Counted(i)
  BY <1>1 DEF Counted
<1>3. UnlistedIsDone'
  BY <1>1 DEF RowInv, UnlistedIsDone, Terminal
<1>4. PlaceMatchesCount' /\ CompletedCountsAll' /\ WaitingIsMet' /\ ShownConflictIsReal'
  BY <1>1, <1>2
     DEF RowInv, PlaceMatchesCount, CompletedCountsAll, WaitingIsMet, ShownConflictIsReal
<1>. QED
  BY <1>3, <1>4

LEMMA EndDestroyKeepsRows ==
  ASSUME RowInv, EndDestroy
  PROVE  /\ UnlistedIsDone' /\ PlaceMatchesCount' /\ CompletedCountsAll'
         /\ WaitingIsMet' /\ ShownConflictIsReal'
<1>1. /\ posted' = <<>> /\ Len(posted') = 0 /\ \A j \in listed : pc[j] = "exited"
      /\ UNCHANGED <<listed, state, shown, completed, pc, item, kind, total>>
      /\ posted \in Seq(Closures) /\ pc \in [Jobs -> Inactive \cup Busy]
      /\ completed \in [Jobs -> Nat] /\ total \in [Jobs -> 0 .. MaxItems]
  BY DEF EndDestroy, gui, worker, request, RowInv, OrderInv, IInv, TypeOK
<1>2. \A i \in Jobs : Counted(i)' = completed[i] /\ Counted(i)' <= Counted(i)
  <2> TAKE i \in Jobs
  <2>1. Cardinality(StepsOf(posted', i)) = 0 /\ Cardinality(StepsOf(posted, i)) \in Nat
    BY <1>1, StepsFinite, StepsOfNone
  <2>. QED
    BY <1>1, <2>1 DEF Counted
<1>3. \A i \in Jobs : (\A a \in 1 .. Len(posted) : posted[a].job # i)
                        => Counted(i)' = Counted(i)
  <2> TAKE i \in Jobs
  <2>1. (\A a \in 1 .. Len(posted) : posted[a].job # i) => Cardinality(StepsOf(posted, i)) = 0
    BY StepsOfNone
  <2>. QED
    BY <1>1, <1>2, <2>1 DEF Counted
<1>4. \A i \in Jobs : pc[i] \in {"none", "exited"} /\ Counted(i) \in Nat
  BY <1>1, StepsFinite DEF RowInv, OrderInv, IInv, LiveJobIsListed, Counted
<1>5. PlaceMatchesCount'
  <2>1. \A i \in Jobs : /\ pc[i] = "none" => item[i] = 1 /\ Counted(i)' = 0
                        /\ pc[i] = "exited" => Counted(i)' <= total[i]
    BY <1>1, <1>2, <1>3, <1>4
       DEF RowInv, PlaceMatchesCount, OrderInv, IInv, UnstartedIsBlank
  <2>. QED
    BY <1>1, <1>4, <2>1 DEF PlaceMatchesCount, Busy
<1>6. CompletedCountsAll'
  BY <1>1, <1>3
     DEF RowInv, CompletedCountsAll, OrderInv, IInv, TerminalIsQuiet, Terminal, Finished
<1>7. UnlistedIsDone' /\ WaitingIsMet' /\ ShownConflictIsReal'
  BY <1>1 DEF RowInv, UnlistedIsDone, WaitingIsMet, ShownConflictIsReal, Terminal
<1>. QED
  BY <1>5, <1>6, <1>7

LEMMA InitRows == Init => RowInv
<1> SUFFICES ASSUME Init PROVE RowInv
  OBVIOUS
<1>1. posted = <<>> /\ Len(posted) = 0 /\ \A j \in Jobs : completed[j] = 0
  BY DEF Init
<1>2. \A j \in Jobs : Counted(j) = 0
  <2> TAKE j \in Jobs
  <2>1. Cardinality(StepsOf(posted, j)) = 0
    BY <1>1, StepsOfNone
  <2>. QED
    BY <1>1, <2>1 DEF Counted
<1>. QED
  BY <1>1, <1>2, InitOrder
     DEF RowInv, Init, UnlistedIsDone, PlaceMatchesCount, CompletedCountsAll, WaitingIsMet,
         ShownConflictIsReal, Busy

LEMMA NextRows == RowInv /\ [Next]_vars => RowInv'
<1> SUFFICES ASSUME RowInv, [Next]_vars
             PROVE  /\ UnlistedIsDone' /\ PlaceMatchesCount' /\ CompletedCountsAll'
                    /\ WaitingIsMet' /\ ShownConflictIsReal'
  BY NextOrder DEF RowInv
<1>. QED
  BY WorkerKeepsRows, LoopKeepsRows, StartKeepsRows, CallKeepsRows, EndDestroyKeepsRows
     DEF Next, Caller, Destroy

(* The progress a row shows never overtakes the request, and a row that says
   Completed has counted every source. *)
LEMMA RowsAreTruthful == RowInv => ProgressIsTruthful /\ ShownConflictIsReal
<1> SUFFICES ASSUME RowInv, NEW j \in Jobs
             PROVE  /\ total[j] > 0 => completed[j] <= total[j]
                    /\ state[j] = "Completed" => completed[j] = total[j]
  BY DEF RowInv, ProgressIsTruthful
<1>1. /\ posted \in Seq(Closures) /\ completed[j] \in Nat /\ total[j] \in Nat
      /\ item[j] \in Nat /\ pc[j] \in Inactive \cup Busy
      /\ Cardinality(StepsOf(posted, j)) \in Nat
  BY StepsFinite, BoundsAssumption DEF RowInv, OrderInv, IInv, TypeOK
<1>2. completed[j] <= Counted(j) /\ Counted(j) \in Nat
  BY <1>1 DEF Counted
<1>3. Counted(j) <= total[j]
  BY <1>1, <1>2 DEF RowInv, PlaceMatchesCount, Inactive
<1>4. state[j] = "Completed" => completed[j] = Counted(j) /\ Counted(j) = total[j]
  <2> SUFFICES ASSUME state[j] = "Completed"
               PROVE  completed[j] = Counted(j) /\ Counted(j) = total[j]
    OBVIOUS
  <2>1. \A a \in 1 .. Len(posted) : posted[a].job # j
    BY DEF RowInv, OrderInv, IInv, TerminalIsQuiet, Terminal, Finished
  <2>2. Cardinality(StepsOf(posted, j)) = 0
    BY <2>1, StepsOfNone
  <2>. QED
    BY <1>1, <2>2 DEF Counted, RowInv, CompletedCountsAll
<1>. QED
  BY <1>1, <1>2, <1>3, <1>4

----------------------------------------------------------------------------
(* The sheet's steps are steps of the queue. *)
LEMMA SheetStepIsQueueStep ==
  ASSUME SheetTypeOK, [SheetNext]_viewVars PROVE [Next]_vars
<1>1. CASE ShowConflict \/ HideFinished
  BY <1>1 DEF ShowConflict, HideFinished, Next, Loop
<1>2. CASE ShowRestoreConflict \/ ChooseRestore \/ UNCHANGED viewVars
  BY <1>2 DEF ShowRestoreConflict, ChooseRestore, viewVars
<1>3. ASSUME NEW d \in Answers, NEW all \in BOOLEAN, Choose(d, all) PROVE [Next]_vars
  <2>1. conflictJobId \in Jobs
    BY <1>3 DEF Choose, SheetTypeOK
  <2>2. CASE UNCHANGED vars
    BY <2>2
  <2>3. CASE Resolve(conflictJobId, d, all)
    BY <2>1, <2>3 DEF Next, Caller
  <2>. QED
    BY <1>3, <2>2, <2>3 DEF Choose
<1>4. CASE Elsewhere
  BY <1>4 DEF Elsewhere, Next, Caller, Loop
<1>. QED
  BY <1>1, <1>2, <1>3, <1>4 DEF SheetNext

(* A row that has not ended stays, and ends only when its job's last closure
   is run. *)
LEMMA LiveRowStays ==
  ASSUME RowInv, [Next]_vars, NEW j \in Jobs \cap listed, ~Terminal(j)
  PROVE  j \in listed' /\ (state'[j] \in Finished => RunFinish /\ posted[1].job = j)
<1>1. ASSUME NEW i \in Jobs, Worker(i)
      PROVE  j \in listed' /\ (state'[j] \in Finished => RunFinish /\ posted[1].job = j)
  BY <1>1, WorkerShapes DEF Untouched, Terminal, RowInv, OrderInv
<1>2. CASE Loop
  <2>1. posted[1].job # j => UNCHANGED state[j]
    BY <1>2, LoopEffect
  <2>2. UNCHANGED listed
    BY <1>2, LoopEffect
  <2>3. posted[1].op # "finish" => state'[j] \notin Finished
    BY <1>2, LoopEffect DEF Terminal, Finished
  <2>4. posted # <<>> /\ Head(posted) = posted[1]
    BY <1>2, LoopEffect, TailClosure DEF RowInv, OrderInv, IInv, TypeOK
  <2>5. posted[1].op = "finish" => RunFinish
    BY <1>2, <2>4 DEF Loop, RunRunning, RunWaiting, RunStep, RunRaise, RunClosure
  <2>. QED
    BY <2>1, <2>2, <2>3, <2>5 DEF Terminal
<1>3. ASSUME NEW i \in Jobs, Caller(i)
      PROVE  j \in listed' /\ (state'[j] \in Finished => RunFinish /\ posted[1].job = j)
  BY <1>3 DEF Caller, Start, Pruned, Cancel, Resolve, Dismiss, Terminal, gui
<1>4. CASE ClearFinished \/ Destroy \/ Stopped \/ UNCHANGED vars
  BY <1>4 DEF ClearFinished, Destroy, BeginDestroy, EndDestroy, Stopped, vars, gui, Terminal
<1>. QED
  BY <1>1, <1>2, <1>3, <1>4 DEF Next

LEMMA SheetTypes == SheetTypeOK /\ TypeOK' /\ [SheetNext]_viewVars => SheetTypeOK'
<1> SUFFICES ASSUME SheetTypeOK, TypeOK', [SheetNext]_viewVars PROVE SheetTypeOK'
  OBVIOUS
<1>1. CASE ShowConflict
  <2>1. Head(posted).job \in Jobs
    BY <1>1, TailClosure, ClosureJob DEF ShowConflict, RunRaise, RunClosure, SheetTypeOK, TypeOK
  <2>. QED
    BY <1>1, <2>1 DEF ShowConflict, SheetTypeOK
<1>2. ASSUME NEW d \in Answers, NEW all \in BOOLEAN, Choose(d, all) PROVE SheetTypeOK'
  BY <1>2 DEF Choose, SheetTypeOK, TypeOK
<1>3. CASE ShowRestoreConflict \/ HideFinished \/ ChooseRestore \/ Elsewhere \/ UNCHANGED viewVars
  BY <1>3 DEF ShowRestoreConflict, HideFinished, ChooseRestore, Elsewhere, viewVars, SheetTypeOK,
              sheet
<1>. QED
  BY <1>1, <1>2, <1>3 DEF SheetNext

LEMMA SheetStaysLive ==
  ASSUME RowInv, SheetTypeOK, SheetIsForALiveJob, [SheetNext]_viewVars
  PROVE  SheetIsForALiveJob'
<1> SUFFICES ASSUME visible', NEW k, k = conflictJobId', k # NoJob
             PROVE  k \in listed' /\ state'[k] \notin Finished
  BY DEF SheetIsForALiveJob, Terminal
<1>1. [Next]_vars /\ posted \in Seq(Closures)
  BY SheetStepIsQueueStep DEF SheetTypeOK, TypeOK
<1>2. posted # <<>> => Head(posted) = posted[1] /\ 1 \in 1 .. Len(posted)
  BY <1>1, TailClosure
<1>3. CASE ShowConflict
  <2>1. k \in Jobs \cap listed /\ k = posted[1].job /\ UNCHANGED <<listed, state>>
    BY <1>2, <1>3, LoopIsForListed DEF ShowConflict, RunRaise, RunClosure
  <2>. QED
    BY <1>2, <1>3, <2>1
       DEF RowInv, OrderInv, IInv, TerminalIsQuiet, Terminal, ShowConflict, RunRaise, RunClosure
<1>4. CASE UNCHANGED sheet
  <2>1. k = conflictJobId /\ k \in Jobs \cap listed /\ ~Terminal(k)
    BY <1>4 DEF sheet, SheetIsForALiveJob, SheetTypeOK
  <2>2. ~(RunFinish /\ posted[1].job = k)
    <3> SUFFICES ASSUME RunFinish, posted[1].job = k PROVE FALSE
      OBVIOUS
    <3>1. /\ posted # <<>> /\ posted[1].op = "finish" /\ posted' = Tail(posted)
          /\ manager = "alive" /\ UNCHANGED manager
      BY <1>2 DEF RunFinish, RunClosure
    <3>2. Len(posted) \in Nat /\ Len(posted') = Len(posted) - 1 /\ posted' # posted
      BY <1>1, <3>1, TailClosure
    <3>3. CASE HideFinished
      BY <1>2, <1>4, <2>1, <3>1, <3>3 DEF HideFinished, sheet
    <3>4. ASSUME NEW i \in Jobs, Worker(i) PROVE FALSE
      BY <3>2, <3>4, ShapePosts DEF PostsOwn, RowInv, OrderInv
    <3>5. CASE Elsewhere
      BY <1>2, <3>1, <3>2, <3>4, <3>5
         DEF Elsewhere, Cancel, Dismiss, Start, RunRunning, RunWaiting, RunStep, RunClosure,
             ClearFinished, Destroy, BeginDestroy, EndDestroy, Stopped, vars
    <3>6. CASE ShowConflict
      BY <1>2, <3>1, <3>6 DEF ShowConflict, RunRaise, RunClosure
    <3>7. ASSUME NEW d, NEW all, Choose(d, all) PROVE FALSE
      BY <3>2, <3>7 DEF Choose, Resolve, vars
    <3>. QED
      BY <3>2, <3>3, <3>5, <3>6, <3>7
         DEF SheetNext, viewVars, vars, ShowRestoreConflict, ChooseRestore
  <2>. QED
    BY <1>1, <2>1, <2>2, LiveRowStays
<1>5. UNCHANGED sheet \/ ShowConflict
  BY DEF SheetNext, ShowConflict, ShowRestoreConflict, HideFinished, Choose, ChooseRestore,
         Elsewhere, viewVars, sheet
<1>. QED
  BY <1>3, <1>4, <1>5

----------------------------------------------------------------------------
(* Whether the sheet asks about job j, and whether it is about to. *)
Asked(j) == visible /\ conflictJobId = j /\ j # NoJob

Raises(a, j) == posted[a].op = "raise" /\ posted[a].job = j

Unasked(j) == ~Asked(j) /\ \A a \in 1 .. Len(posted) : ~Raises(a, j)

(* A job's conflict is raised once: while it is on its way to the sheet, the
   sheet does not ask about the job, nor is another on its way. *)
RaisedOnce ==
  \A j \in Jobs : \A a \in 1 .. Len(posted) : Raises(a, j) =>
    ~Asked(j) /\ \A b \in 1 .. Len(posted) : Raises(b, j) => b = a

(* Only a worker that waits, or that will not act on an answer any more, is
   asked about; one that has its answer got it for the item it is at. *)
AskedOnlyInConflict ==
  \A j \in Jobs :
    /\ pc[j] \notin {"arm", "wait", "decided", "exited"} => Unasked(j)
    /\ pc[j] = "decided" /\ choice[j] # "Cancel" => Unasked(j)
    /\ pc[j] = "wait" /\ resolved[j] /\ ~cancelRequested[j]
         => Unasked(j) /\ answered[j] = item[j]

(* While a worker waits, the conflict raised is its last closure, follows the
   one that shows it, and what the sheet asks about is what the row shows. *)
RaisedIsShown ==
  \A j \in Jobs : pc[j] \in {"arm", "wait"} =>
    /\ \A b \in 1 .. Len(posted) : posted[b].job = j => \E a \in b .. Len(posted) : Raises(a, j)
    /\ \A a \in 1 .. Len(posted) : Raises(a, j) =>
         IF a = 1 THEN shown[j] = item[j]
                  ELSE posted[a - 1] = Closure(j, "waiting", item[j])
    /\ Asked(j) => shown[j] = item[j]

SeenInv ==
  /\ RowInv /\ SheetTypeOK /\ SheetIsForALiveJob
  /\ RaisedOnce /\ AskedOnlyInConflict /\ RaisedIsShown /\ NoUnseenDecision

Seen == RaisedOnce /\ AskedOnlyInConflict /\ RaisedIsShown /\ NoUnseenDecision

LEMMA WorkerKeepsSeen ==
  ASSUME SeenInv, NEW j \in Jobs, Worker(j), UNCHANGED <<sheet, answered>>
  PROVE  Seen'
<1> DEFINE new == Len(posted) + 1 .. Len(posted')
<1>1. IInv /\ Untouched(j) /\ Shapes(j) /\ PostsOwn(j)
  BY WorkerShapes, ShapePosts DEF SeenInv, RowInv, OrderInv
<1>2. /\ posted \in Seq(Closures)
      /\ Len(posted) \in Nat /\ Len(posted') \in Nat /\ Len(posted) <= Len(posted')
      /\ \A a \in 1 .. Len(posted) : posted'[a] = posted[a]
      /\ UNCHANGED <<shown, cancelRequested, persistent, answered>>
      /\ \A i \in Jobs \ {j} : pc'[i] = pc[i] /\ item'[i] = item[i] /\ choice'[i] = choice[i]
                               /\ resolved'[i] = resolved[i]
      /\ \A i : Asked(i)' = Asked(i)
      /\ RaisedOnce /\ AskedOnlyInConflict /\ RaisedIsShown /\ NoUnseenDecision
  BY <1>1 DEF IInv, TypeOK, PostsOwn, Untouched, sheet, Asked, SeenInv
<1>3. \A a \in new : /\ posted'[a].job = j
                     /\ posted'[a].op = "raise" => Announces(j) /\ a = Len(posted) + 2
  BY <1>1, ShapeClosures
<1>4. ASSUME NEW i \in Jobs, i = j => ~Announces(j), Unasked(i)
      PROVE  Unasked(i)'
  <2>1. ASSUME NEW a \in 1 .. Len(posted') PROVE ~Raises(a, i)'
    <3>1. CASE a <= Len(posted)
      BY <1>2, <1>4, <3>1 DEF Unasked, Raises
    <3>2. CASE a > Len(posted)
      <4>1. a \in new
        BY <1>2, <3>2
      <4>. QED
        BY <1>3, <1>4, <4>1 DEF Raises
    <3>. QED
      BY <1>2, <3>1, <3>2
  <2>. QED
    BY <1>2, <1>4, <2>1 DEF Unasked
<1>5. CASE Announces(j)
  <2>1. /\ pc[j] = "conflict" /\ pc'[j] = "arm" /\ item' = item /\ resolved' = resolved
        /\ Unasked(j)
    BY <1>2, <1>5 DEF Announces, AskedOnlyInConflict
  <2>2. /\ Len(posted') = Len(posted) + 2
        /\ posted'[Len(posted) + 1] = Closure(j, "waiting", item[j])
        /\ posted'[Len(posted) + 2] = Closure(j, "raise", item[j])
    <3> DEFINE one == Append(posted, Closure(j, "waiting", item[j]))
    <3>1. /\ Closure(j, "waiting", item[j]) \in Closures
          /\ Closure(j, "raise", item[j]) \in Closures
      BY <1>5 DEF Announces, Closure, Closures
    <3>2. /\ one \in Seq(Closures) /\ Len(one) = Len(posted) + 1
          /\ one[Len(posted) + 1] = Closure(j, "waiting", item[j])
          /\ posted' = Append(one, Closure(j, "raise", item[j]))
      BY <1>2, <1>5, <3>1, AppendClosure DEF Announces
    <3> HIDE DEF one
    <3>3. /\ Len(posted') = Len(one) + 1 /\ posted'[Len(one) + 1] = Closure(j, "raise", item[j])
          /\ \A a \in 1 .. Len(one) : posted'[a] = one[a]
      BY <3>1, <3>2, AppendClosure
    <3>4. Len(posted') = Len(posted) + 2 /\ Len(one) + 1 = Len(posted) + 2
      BY <1>2, <3>2, <3>3
    <3>5. posted'[Len(posted) + 1] = Closure(j, "waiting", item[j])
      BY <1>2, <3>2, <3>3
    <3>. QED
      BY <3>3, <3>4, <3>5
  <2>3. \A a \in 1 .. Len(posted') : Raises(a, j)' => a = Len(posted) + 2
    <3> TAKE a \in 1 .. Len(posted')
    <3>1. a \in 1 .. Len(posted) \/ a \in new
      BY <1>2
    <3>. QED
      BY <1>2, <1>3, <2>1, <3>1 DEF Raises, Unasked
  <2>4. \A i \in Jobs \ {j} : \A a \in 1 .. Len(posted') :
          posted'[a].job = i => a \in 1 .. Len(posted) /\ posted'[a] = posted[a]
    <3> TAKE i \in Jobs \ {j}
    <3> TAKE a \in 1 .. Len(posted')
    <3>1. a \in 1 .. Len(posted) \/ a \in new
      BY <1>2
    <3>. QED
      BY <1>2, <1>3, <3>1
  <2>5. RaisedOnce'
    BY <1>2, <2>1, <2>3, <2>4 DEF RaisedOnce, Raises, Unasked
  <2>6. AskedOnlyInConflict'
    BY <1>2, <1>4, <2>1 DEF AskedOnlyInConflict
  <2>7. RaisedIsShown'
    <3> SUFFICES ASSUME NEW i \in Jobs, pc'[i] \in {"arm", "wait"}
                 PROVE  /\ \A b \in 1 .. Len(posted') :
                             posted'[b].job = i => \E a \in b .. Len(posted') : Raises(a, i)'
                        /\ \A a \in 1 .. Len(posted') : Raises(a, i)' =>
                             IF a = 1 THEN shown'[i] = item'[i]
                                      ELSE posted'[a - 1] = Closure(i, "waiting", item'[i])
                        /\ Asked(i)' => shown'[i] = item'[i]
      BY DEF RaisedIsShown
    <3>1. CASE i = j
      <4>1. \A b \in 1 .. Len(posted') : Len(posted) + 2 \in b .. Len(posted')
        BY <1>2, <2>2
      <4>2. Len(posted) + 2 # 1 /\ (Len(posted) + 2) - 1 = Len(posted) + 1
        BY <1>2
      <4>. QED
        <5>1. \A b \in 1 .. Len(posted') : \E a \in b .. Len(posted') : Raises(a, i)'
          BY <2>2, <3>1, <4>1 DEF Raises, Closure
        <5>2. \A a \in 1 .. Len(posted') : Raises(a, i)' =>
                a # 1 /\ posted'[a - 1] = Closure(i, "waiting", item'[i])
          BY <2>1, <2>2, <2>3, <3>1, <4>2
        <5>. QED
          BY <1>2, <2>1, <3>1, <5>1, <5>2 DEF Unasked
    <3>2. CASE i # j
      <4>1. /\ pc[i] \in {"arm", "wait"}
            /\ \A b \in 1 .. Len(posted) : posted[b].job = i => \E a \in b .. Len(posted) : Raises(a, i)
            /\ \A a \in 1 .. Len(posted) : Raises(a, i) =>
                 IF a = 1 THEN shown[i] = item[i]
                          ELSE posted[a - 1] = Closure(i, "waiting", item[i])
            /\ Asked(i) => shown[i] = item[i]
        BY <1>2, <3>2 DEF RaisedIsShown
      <4>2. \A a \in 1 .. Len(posted) : Raises(a, i) <=> Raises(a, i)'
        BY <1>2 DEF Raises
      <4>3. \A b \in 1 .. Len(posted') :
              posted'[b].job = i => \E a \in b .. Len(posted') : Raises(a, i)'
        <5> TAKE b \in 1 .. Len(posted')
        <5> HAVE posted'[b].job = i
        <5>1. b \in 1 .. Len(posted) /\ posted[b].job = i
          BY <2>4, <3>2
        <5>2. PICK a \in b .. Len(posted) : Raises(a, i)
          BY <4>1, <5>1
        <5>3. a \in 1 .. Len(posted) /\ a \in b .. Len(posted')
          BY <1>2, <5>1
        <5>. QED
          BY <4>2, <5>2, <5>3
      <4>4. \A a \in 1 .. Len(posted') : Raises(a, i)' =>
              IF a = 1 THEN shown'[i] = item'[i]
                       ELSE posted'[a - 1] = Closure(i, "waiting", item'[i])
        <5> TAKE a \in 1 .. Len(posted')
        <5> HAVE Raises(a, i)'
        <5>1. a \in 1 .. Len(posted) /\ Raises(a, i)
          BY <2>4, <3>2, <4>2 DEF Raises
        <5>2. a # 1 => a - 1 \in 1 .. Len(posted)
          BY <1>2, <5>1
        <5>. QED
          BY <1>2, <2>1, <4>1, <5>1, <5>2
      <4>. QED
        BY <1>2, <2>1, <4>1, <4>3, <4>4
    <3>. QED
      BY <3>1, <3>2
  <2>8. NoUnseenDecision'
    BY <1>2, <2>1 DEF NoUnseenDecision
  <2>. QED
    BY <2>5, <2>6, <2>7, <2>8 DEF Seen
<1>6. CASE ~Announces(j)
  <2>1. \A i \in Jobs : Unasked(i) => Unasked(i)'
    BY <1>4, <1>6
  <2>2. \A i \in Jobs : \A a \in 1 .. Len(posted') :
          Raises(a, i)' => a \in 1 .. Len(posted) /\ Raises(a, i)
    <3> TAKE i \in Jobs
    <3> TAKE a \in 1 .. Len(posted')
    <3>1. a \in 1 .. Len(posted) \/ a \in new
      BY <1>2
    <3>. QED
      BY <1>2, <1>3, <1>6, <3>1 DEF Raises
  <2>3. RaisedOnce'
    BY <1>2, <2>2 DEF RaisedOnce
  <2>4. AskedOnlyInConflict' /\ NoUnseenDecision'
    <3> SUFFICES ASSUME NEW i \in Jobs
                 PROVE  /\ pc'[i] \notin {"arm", "wait", "decided", "exited"} => Unasked(i)'
                        /\ pc'[i] = "decided" /\ choice'[i] # "Cancel" => Unasked(i)'
                        /\ pc'[i] = "wait" /\ resolved'[i] /\ ~cancelRequested'[i]
                             => Unasked(i)' /\ answered'[i] = item'[i]
                        /\ pc'[i] = "decided" /\ choice'[i] # "Cancel"
                             => answered'[i] = item'[i] \/ choice'[i] = persistent'[i]
      BY DEF AskedOnlyInConflict, NoUnseenDecision
    <3>1. CASE i # j
      BY <1>2, <2>1, <3>1 DEF AskedOnlyInConflict, NoUnseenDecision
    <3>2. CASE i = j
      BY <1>1, <1>2, <1>6, <2>1, <3>2
         DEF AskedOnlyInConflict, NoUnseenDecision, Shapes, Enters, Ends, Counts, Moves, Resumes,
             Creates, Busy
    <3>. QED
      BY <3>1, <3>2
  <2>5. RaisedIsShown'
    <3> SUFFICES ASSUME NEW i \in Jobs, pc'[i] \in {"arm", "wait"}
                 PROVE  /\ \A b \in 1 .. Len(posted') :
                             posted'[b].job = i => \E a \in b .. Len(posted') : Raises(a, i)'
                        /\ \A a \in 1 .. Len(posted') : Raises(a, i)' =>
                             IF a = 1 THEN shown'[i] = item'[i]
                                      ELSE posted'[a - 1] = Closure(i, "waiting", item'[i])
                        /\ Asked(i)' => shown'[i] = item'[i]
      BY DEF RaisedIsShown
    <3>1. /\ pc[i] \in {"arm", "wait"} /\ item'[i] = item[i]
          /\ \A b \in 1 .. Len(posted') : posted'[b].job = i => b \in 1 .. Len(posted)
      <4>1. CASE i # j
        <5>1. \A b \in 1 .. Len(posted') : b \in 1 .. Len(posted) \/ b \in new
          BY <1>2
        <5>. QED
          BY <1>2, <1>3, <4>1, <5>1
      <4>2. CASE i = j
        BY <1>1, <1>6, <4>2 DEF Shapes, Enters, Ends, Counts, Moves, Resumes, Creates
      <4>. QED
        BY <4>1, <4>2
    <3>2. /\ \A b \in 1 .. Len(posted) : posted[b].job = i => \E a \in b .. Len(posted) : Raises(a, i)
          /\ \A a \in 1 .. Len(posted) : Raises(a, i) =>
               IF a = 1 THEN shown[i] = item[i]
                        ELSE posted[a - 1] = Closure(i, "waiting", item[i])
          /\ Asked(i) => shown[i] = item[i]
      BY <1>2, <3>1 DEF RaisedIsShown
    <3>3. \A b \in 1 .. Len(posted') :
            posted'[b].job = i => \E a \in b .. Len(posted') : Raises(a, i)'
      <4> TAKE b \in 1 .. Len(posted')
      <4> HAVE posted'[b].job = i
      <4>1. b \in 1 .. Len(posted) /\ posted[b].job = i
        BY <1>2, <3>1
      <4>2. PICK a \in b .. Len(posted) : Raises(a, i)
        BY <3>2, <4>1
      <4>3. a \in 1 .. Len(posted) /\ a \in b .. Len(posted')
        BY <1>2, <4>1
      <4>. QED
        BY <1>2, <4>2, <4>3 DEF Raises
    <3>4. \A a \in 1 .. Len(posted') : Raises(a, i)' =>
            IF a = 1 THEN shown'[i] = item'[i]
                     ELSE posted'[a - 1] = Closure(i, "waiting", item'[i])
      <4> TAKE a \in 1 .. Len(posted')
      <4> HAVE Raises(a, i)'
      <4>1. a \in 1 .. Len(posted) /\ Raises(a, i)
        BY <2>2
      <4>2. a # 1 => a - 1 \in 1 .. Len(posted)
        BY <1>2, <4>1
      <4>. QED
        BY <1>2, <3>1, <3>2, <4>1, <4>2
    <3>. QED
      BY <1>2, <3>1, <3>2, <3>3, <3>4
  <2>. QED
    BY <2>3, <2>4, <2>5 DEF Seen
<1>. QED
  BY <1>5, <1>6

(* The event loop: only the closure that raises a job's conflict makes the
   sheet ask about it. *)
LEMMA LoopKeepsSeen ==
  ASSUME SeenInv, Loop, NEW c, c = posted[1], UNCHANGED answered,
         \A i \in Jobs : Asked(i)' => IF c.op = "raise" THEN c.job = i ELSE Asked(i)
  PROVE  Seen'
<1>1. /\ posted \in Seq(Closures) /\ posted # <<>> /\ c.job \in Jobs /\ RowInv
      /\ RaisedOnce /\ AskedOnlyInConflict /\ RaisedIsShown /\ NoUnseenDecision
  <2>1. posted # <<>>
    BY DEF Loop, RunRunning, RunWaiting, RunStep, RunFinish, RunRaise, RunClosure
  <2>. QED
    BY <2>1, LoopIsForListed DEF SeenInv
<1>2. /\ Len(posted) \in Nat \ {0} /\ Len(posted') = Len(posted) - 1
      /\ \A a \in 1 .. Len(posted') : a + 1 \in 1 .. Len(posted) /\ posted'[a] = posted[a + 1]
      /\ UNCHANGED <<cancelRequested, resolved, persistent, pc, item, choice>>
  <2>1. /\ posted' = Tail(posted)
        /\ UNCHANGED <<cancelRequested, resolved, persistent, pc, item, choice>>
    BY <1>1, LoopEffect
  <2>. QED
    BY <1>1, <2>1, TailClosure
<1>3. \A i \in Jobs : \A a \in 1 .. Len(posted') : Raises(a, i)' <=> Raises(a + 1, i)
  BY <1>2 DEF Raises
<1>4. 1 \in 1 .. Len(posted) /\ \A i \in Jobs : Raises(1, i) <=> c.op = "raise" /\ c.job = i
  BY <1>2 DEF Raises
<1>5. RaisedOnce'
  <2> SUFFICES ASSUME NEW i \in Jobs, NEW a \in 1 .. Len(posted'), Raises(a, i)'
               PROVE  ~Asked(i)' /\ \A b \in 1 .. Len(posted') : Raises(b, i)' => b = a
    BY DEF RaisedOnce
  <2>1. /\ a + 1 \in 1 .. Len(posted) /\ Raises(a + 1, i) /\ a + 1 # 1
        /\ ~Asked(i) /\ \A b \in 1 .. Len(posted) : Raises(b, i) => b = a + 1
    BY <1>1, <1>2, <1>3 DEF RaisedOnce
  <2>2. ~Asked(i)'
    BY <1>4, <2>1
  <2>3. \A b \in 1 .. Len(posted') : Raises(b, i)' => b + 1 = a + 1
    BY <1>2, <1>3, <2>1
  <2>. QED
    BY <2>2, <2>3
<1>6. \A i \in Jobs : Unasked(i) => Unasked(i)'
  BY <1>2, <1>3, <1>4 DEF Unasked
<1>7. AskedOnlyInConflict' /\ NoUnseenDecision'
  BY <1>1, <1>2, <1>6 DEF AskedOnlyInConflict, NoUnseenDecision
<1>8. RaisedIsShown'
  <2> SUFFICES ASSUME NEW i \in Jobs, pc[i] \in {"arm", "wait"}
               PROVE  /\ \A b \in 1 .. Len(posted') :
                           posted'[b].job = i => \E a \in b .. Len(posted') : Raises(a, i)'
                      /\ \A a \in 1 .. Len(posted') : Raises(a, i)' =>
                           IF a = 1 THEN shown'[i] = item[i]
                                    ELSE posted'[a - 1] = Closure(i, "waiting", item[i])
                      /\ Asked(i)' => shown'[i] = item[i]
    BY <1>2 DEF RaisedIsShown
  <2>1. /\ \A b \in 1 .. Len(posted) : posted[b].job = i => \E a \in b .. Len(posted) : Raises(a, i)
        /\ \A a \in 1 .. Len(posted) : Raises(a, i) =>
             IF a = 1 THEN shown[i] = item[i]
                      ELSE posted[a - 1] = Closure(i, "waiting", item[i])
        /\ Asked(i) => shown[i] = item[i]
    BY <1>1 DEF RaisedIsShown
  <2>2. ASSUME NEW b \in 1 .. Len(posted'), posted'[b].job = i
        PROVE  \E a \in b .. Len(posted') : Raises(a, i)'
    <3>1. PICK a \in b + 1 .. Len(posted) : Raises(a, i)
      BY <1>2, <2>1, <2>2
    <3>2. a - 1 \in b .. Len(posted') /\ a - 1 \in 1 .. Len(posted') /\ (a - 1) + 1 = a
      BY <1>2, <3>1
    <3>. QED
      BY <1>3, <3>1, <3>2
  <2>3. ASSUME NEW a \in 1 .. Len(posted'), Raises(a, i)'
        PROVE  IF a = 1 THEN shown'[i] = item[i]
                        ELSE posted'[a - 1] = Closure(i, "waiting", item[i])
    <3>1. /\ a + 1 \in 1 .. Len(posted) /\ a + 1 # 1 /\ (a + 1) - 1 = a
          /\ Raises(a + 1, i)
      BY <1>2, <1>3, <2>3
    <3>2. posted[a] = Closure(i, "waiting", item[i])
      BY <2>1, <3>1
    <3>3. CASE a = 1
      <4>1. c.op = "waiting" /\ c.job = i /\ c.arg = item[i]
        BY <3>2, <3>3 DEF Closure
      <4>. QED
        BY <1>1, <3>3, <4>1, LoopEffect
    <3>4. CASE a # 1
      <4>1. a - 1 \in 1 .. Len(posted') /\ (a - 1) + 1 = a
        BY <1>2, <3>4
      <4>. QED
        BY <1>2, <3>2, <3>4, <4>1
    <3>. QED
      BY <3>3, <3>4
  <2>4. ASSUME Asked(i)' PROVE shown'[i] = item[i]
    <3>1. CASE c.op = "raise"
      <4>1. c.job = i /\ shown[i] = item[i]
        BY <1>4, <2>1, <2>4, <3>1
      <4>. QED
        BY <1>1, <3>1, <4>1, LoopEffect
    <3>2. CASE c.op # "raise"
      <4>1. Asked(i) /\ shown[i] = item[i]
        BY <2>1, <2>4, <3>2
      <4>2. c.job # i
        <5> SUFFICES ASSUME c.job = i PROVE FALSE
          OBVIOUS
        <5>1. PICK a \in 1 .. Len(posted) : Raises(a, i)
          BY <1>4, <2>1
        <5>. QED
          BY <1>1, <4>1, <5>1 DEF RaisedOnce
      <4>. QED
        BY <1>1, <4>1, <4>2, LoopEffect
    <3>. QED
      BY <3>1, <3>2
  <2>. QED
    BY <2>2, <2>3, <2>4
<1>. QED
  BY <1>5, <1>7, <1>8 DEF Seen

(* Steps that run no closure and no worker: a worker may be told to stop, and
   the sheet may be hidden or change to another job's place. *)
LEMMA OtherKeepsSeen ==
  ASSUME SeenInv, UNCHANGED <<shown, posted, pc, item, choice, persistent, answered>>,
         \A i \in Jobs : Asked(i)' => Asked(i),
         \A i \in Jobs : /\ cancelRequested[i] => cancelRequested'[i]
                         /\ resolved'[i] = resolved[i] \/ cancelRequested'[i] \/ pc[i] # "wait"
  PROVE  Seen'
<1>1. RaisedOnce /\ AskedOnlyInConflict /\ RaisedIsShown /\ NoUnseenDecision
  BY DEF SeenInv
<1>2. \A i, a : Raises(a, i)' <=> Raises(a, i)
  BY DEF Raises
<1>3. RaisedOnce' /\ RaisedIsShown' /\ NoUnseenDecision'
  BY <1>1, <1>2 DEF RaisedOnce, RaisedIsShown, NoUnseenDecision
<1>4. \A i \in Jobs : Unasked(i) => Unasked(i)'
  BY <1>2 DEF Unasked
<1>5. AskedOnlyInConflict'
  BY <1>1, <1>4 DEF AskedOnlyInConflict
<1>. QED
  BY <1>3, <1>5 DEF Seen

LEMMA StartKeepsSeen ==
  ASSUME SeenInv, NEW j \in Jobs, NEW k \in Kinds, NEW n \in 0 .. MaxItems, Start(j, k, n),
         UNCHANGED <<sheet, answered>>
  PROVE  Seen'
<1>1. /\ RaisedOnce /\ AskedOnlyInConflict /\ RaisedIsShown /\ NoUnseenDecision
      /\ UNCHANGED <<shown, posted, item, choice, persistent, answered, cancelRequested, resolved>>
      /\ pc[j] = "none" /\ pc' = [pc EXCEPT ![j] = "pooled"] /\ pc \in [Jobs -> Inactive \cup Busy]
  BY DEF SeenInv, Start, shared, SheetTypeOK, TypeOK
<1>2. /\ \A i : Asked(i)' <=> Asked(i)
      /\ \A i, a : Raises(a, i)' <=> Raises(a, i)
      /\ \A i : Unasked(i)' <=> Unasked(i)
  BY <1>1 DEF Asked, Raises, Unasked, sheet
<1>3. pc'[j] = "pooled" /\ \A i \in Jobs \ {j} : pc'[i] = pc[i]
  BY <1>1
<1>4. RaisedOnce'
  BY <1>1, <1>2 DEF RaisedOnce
<1>5. AskedOnlyInConflict' /\ NoUnseenDecision'
  BY <1>1, <1>2, <1>3 DEF AskedOnlyInConflict, NoUnseenDecision
<1>6. RaisedIsShown'
  BY <1>1, <1>2, <1>3 DEF RaisedIsShown
<1>. QED
  BY <1>4, <1>5, <1>6 DEF Seen

(* An answer goes to the worker whose conflict was on display. *)
LEMMA AnswerKeepsSeen ==
  ASSUME SeenInv, NEW j \in Jobs, NEW d \in Answers, NEW all \in BOOLEAN, Asked(j),
         Resolve(j, d, all), ~visible', answered' = [answered EXCEPT ![j] = shown[j]]
  PROVE  Seen'
<1>1. /\ RaisedOnce /\ AskedOnlyInConflict /\ RaisedIsShown /\ NoUnseenDecision
      /\ UNCHANGED <<shown, posted, pc, item, choice, cancelRequested>>
      /\ persistent \in [Jobs -> (Decisions \ {"Cancel"}) \cup {NoChoice}]
      /\ resolved \in [Jobs -> BOOLEAN] /\ answered \in [Jobs -> 0 .. MaxItems]
      /\ \A i \in Jobs \ {j} : /\ persistent'[i] = persistent[i] /\ resolved'[i] = resolved[i]
                               /\ answered'[i] = answered[i]
      /\ answered'[j] = shown[j]
  BY DEF SeenInv, Resolve, gui, worker, SheetTypeOK, TypeOK
<1>2. /\ \A i : ~Asked(i)'
      /\ \A i, a : Raises(a, i)' <=> Raises(a, i)
  BY <1>1 DEF Asked, Raises
<1>3. \A i \in Jobs : Unasked(i) => Unasked(i)'
  BY <1>1, <1>2 DEF Unasked
<1>4. Unasked(j)' /\ ~Unasked(j)
  BY <1>1, <1>2 DEF RaisedOnce, Unasked
<1>5. RaisedOnce' /\ RaisedIsShown'
  BY <1>1, <1>2 DEF RaisedOnce, RaisedIsShown
<1>6. pc[j] = "wait" => answered'[j] = item[j]
  BY <1>1 DEF RaisedIsShown
<1>7. AskedOnlyInConflict'
  BY <1>1, <1>3, <1>4, <1>6 DEF AskedOnlyInConflict
<1>8. NoUnseenDecision'
  BY <1>1, <1>4 DEF AskedOnlyInConflict, NoUnseenDecision
<1>. QED
  BY <1>5, <1>7, <1>8 DEF Seen

LEMMA SheetKeepsSeen == SeenInv /\ [SheetNext]_viewVars => Seen'
<1> SUFFICES ASSUME SeenInv, [SheetNext]_viewVars PROVE Seen'
  OBVIOUS
<1>1. /\ RowInv /\ IInv /\ RaisedOnce /\ AskedOnlyInConflict /\ RaisedIsShown /\ NoUnseenDecision
      /\ posted \in Seq(Closures)
      /\ posted # <<>> => Head(posted) = posted[1]
  BY TailClosure DEF SeenInv, RowInv, OrderInv, IInv, TypeOK
<1>2. CASE ShowConflict
  <2>1. Loop /\ posted[1].op = "raise" /\ conflictJobId' = posted[1].job /\ UNCHANGED answered
    BY <1>1, <1>2 DEF ShowConflict, Loop, RunRaise, RunClosure
  <2>. QED
    BY <2>1, LoopKeepsSeen DEF Asked
<1>3. CASE HideFinished
  <2>1. /\ Loop /\ posted[1].op # "raise" /\ UNCHANGED answered
        /\ visible' => visible /\ UNCHANGED conflictJobId
    BY <1>1, <1>3 DEF HideFinished, Loop, RunFinish, RunClosure, sheet
  <2>. QED
    BY <2>1, LoopKeepsSeen DEF Asked
<1>4. CASE ShowRestoreConflict \/ ChooseRestore \/ UNCHANGED viewVars
  <2>1. /\ UNCHANGED vars /\ UNCHANGED answered
        /\ \A i \in Jobs : Asked(i)' => Asked(i)
    BY <1>4 DEF ShowRestoreConflict, ChooseRestore, viewVars, sheet, Asked
  <2>. QED
    BY <2>1, OtherKeepsSeen DEF vars, gui, worker, shared
<1>5. ASSUME NEW d \in Answers, NEW all \in BOOLEAN, Choose(d, all) PROVE Seen'
  <2> DEFINE j == conflictJobId
  <2>1. j \in Jobs /\ Asked(j) /\ ~visible' /\ UNCHANGED conflictJobId
    BY <1>5 DEF Choose, SeenInv, SheetTypeOK, Asked
  <2>2. CASE UNCHANGED <<vars, answered>>
    BY <2>1, <2>2, OtherKeepsSeen DEF vars, gui, worker, shared, Asked
  <2>3. CASE /\ Resolve(conflictJobId, d, all)
             /\ answered' = [answered EXCEPT ![conflictJobId] = shown[conflictJobId]]
    <3>1. PICK i \in Jobs : i = conflictJobId
      BY <2>1
    <3>2. /\ Asked(i) /\ Resolve(i, d, all)
          /\ answered' = [answered EXCEPT ![i] = shown[i]]
      BY <2>1, <2>3, <3>1
    <3>. QED
      BY <2>1, <3>2, AnswerKeepsSeen
  <2>. QED
    BY <1>5, <2>2, <2>3 DEF Choose
<1>6. CASE Elsewhere
  <2>1. UNCHANGED <<sheet, answered>> /\ \A i : Asked(i)' <=> Asked(i)
    BY <1>6 DEF Elsewhere, sheet, Asked
  <2>2. ASSUME NEW j \in Jobs, Worker(j) PROVE Seen'
    BY <2>1, <2>2, WorkerKeepsSeen
  <2>3. ASSUME NEW j \in Jobs, Cancel(j) \/ Dismiss(j) PROVE Seen'
    <3>1. /\ UNCHANGED <<shown, posted, pc, item, choice, persistent>>
          /\ \A i \in Jobs : /\ cancelRequested[i] => cancelRequested'[i]
                             /\ resolved'[i] = resolved[i] \/ cancelRequested'[i]
      BY <1>1, <2>3 DEF Cancel, Dismiss, gui, worker, shared, IInv, TypeOK
    <3>. QED
      BY <2>1, <3>1, OtherKeepsSeen
  <2>4. ASSUME NEW j \in Jobs, NEW k \in Kinds, NEW n \in 0 .. MaxItems, Start(j, k, n)
        PROVE  Seen'
    BY <2>1, <2>4, StartKeepsSeen
  <2>5. CASE RunRunning \/ RunWaiting \/ RunStep
    <3>1. Loop /\ posted[1].op # "raise"
      BY <1>1, <2>5 DEF Loop, RunRunning, RunWaiting, RunStep, RunClosure
    <3>. QED
      BY <2>1, <3>1, LoopKeepsSeen
  <2>6. CASE ClearFinished \/ Stopped
    BY <2>1, <2>6, OtherKeepsSeen DEF ClearFinished, Stopped, vars, gui, worker, shared
  <2>7. CASE BeginDestroy
    <3>1. /\ UNCHANGED <<shown, posted, pc, item, choice, persistent>>
          /\ \A i \in Jobs : /\ cancelRequested[i] => cancelRequested'[i]
                             /\ resolved'[i] = resolved[i] \/ cancelRequested'[i]
      BY <1>1, <2>7 DEF BeginDestroy, gui, worker, shared, IInv, TypeOK
    <3>. QED
      BY <2>1, <3>1, OtherKeepsSeen
  <2>8. CASE EndDestroy
    <3>1. /\ posted' = <<>> /\ Len(posted') = 0 /\ UNCHANGED <<pc, item, choice, resolved, cancelRequested>>
          /\ \A i \in Jobs : pc[i] \in {"none", "exited"}
      BY <1>1, <2>8 DEF EndDestroy, worker, shared, IInv, LiveJobIsListed
    <3>2. \A i \in Jobs : Unasked(i) => Unasked(i)'
      BY <2>1, <3>1 DEF Unasked
    <3>. QED
      BY <1>1, <3>1, <3>2
         DEF Seen, RaisedOnce, AskedOnlyInConflict, RaisedIsShown, NoUnseenDecision
  <2>. QED
    BY <1>6, <2>2, <2>3, <2>4, <2>5, <2>6, <2>7, <2>8 DEF Elsewhere, Destroy
<1>. QED
  BY <1>2, <1>3, <1>4, <1>5, <1>6 DEF SheetNext

----------------------------------------------------------------------------
LEMMA InitSeen == SheetInit => SeenInv
<1> SUFFICES ASSUME SheetInit PROVE SeenInv
  OBVIOUS
<1>1. RowInv /\ Init /\ ~visible /\ posted = <<>> /\ Len(posted) = 0
  BY InitRows DEF SheetInit, Init
<1>2. TypeOK
  BY <1>1 DEF RowInv, OrderInv, IInv
<1>3. answered \in [Jobs -> 0 .. MaxItems]
  <2>1. 0 \in 0 .. MaxItems
    BY BoundsAssumption
  <2>. QED
    BY <2>1 DEF SheetInit
<1>4. SheetTypeOK /\ SheetIsForALiveJob
  BY <1>1, <1>2, <1>3 DEF SheetInit, SheetTypeOK, SheetIsForALiveJob
<1>5. Seen
  BY <1>1 DEF Seen, RaisedOnce, AskedOnlyInConflict, RaisedIsShown, NoUnseenDecision, Unasked,
              Asked, Init
<1>. QED
  BY <1>1, <1>4, <1>5 DEF SeenInv, Seen

LEMMA NextSeen == SeenInv /\ [SheetNext]_viewVars => SeenInv'
<1> SUFFICES ASSUME SeenInv, [SheetNext]_viewVars PROVE SeenInv'
  OBVIOUS
<1>1. RowInv'
  BY SheetStepIsQueueStep, NextRows DEF SeenInv
<1>2. SheetTypeOK' /\ SheetIsForALiveJob'
  BY <1>1, SheetTypes, SheetStaysLive DEF SeenInv, RowInv, OrderInv, IInv
<1>3. Seen'
  BY SheetKeepsSeen
<1>. QED
  BY <1>1, <1>2, <1>3 DEF SeenInv, Seen

(* The invariant of the queue, its sheet and what the user has seen of it. *)
THEOREM SeenInvariance == SheetSpec => []SeenInv
BY InitSeen, NextSeen, PTL DEF SheetSpec

(* What the window shows of a job is true in every reachable state, although
   closures bring it there after the fact: a conflict is on offer exactly while
   the row says the job waits for one the worker has met, progress does not
   overtake the request and is complete when the row says Completed, and the
   sheet is never left in front of a job that has ended. *)
THEOREM WindowIsTruthful == SheetSpec => []WindowTellsTheTruth
<1>1. SeenInv => WindowTellsTheTruth
  BY RowsAreTruthful DEF SeenInv, WindowTellsTheTruth
<1>. QED
  BY <1>1, SeenInvariance, PTL

(* waitForConflict never returns a decision for an item other than the one the
   user was shown, unless it was given for all conflicts. *)
THEOREM DecisionsAreSeen == SheetSpec => []NoUnseenDecision
BY SeenInvariance, PTL DEF SeenInv

-----------------------------------------------------------------------------
(***************************************************************************)
(* FileTransfer, for any sources, siblings, names, faults and *)
(* numbers of transfers.  With one transfer at a time: the data are whole  *)
(* somewhere at every step, a failure leaves no trace and a completion is  *)
(* exact.  With any number: what was at the target stays as it was until   *)
(* somebody chooses Replace.                                               *)
(*                                                                         *)
(* The first three follow from one invariant, PhaseOK, which says for each *)
(* step how the file system differs from the one the transfer found.  From *)
(* the transfer's start on, the backup holds what was at the destination   *)
(* (nothing, if nothing was there), and only the source and the            *)
(* destination may differ.                                                 *)
(***************************************************************************)

Early   == {"idle", "name", "inspect", "keepBoth", "setAside"}
Started == {"move", "copy", "children", "copied", "drop", "cleanup", "undo", "restore", "commit"}
Over    == {"done", "dead"}

(* What a request is and what is there before: nothing changes it.          *)
RequestsOK ==
  /\ \A p \in Siblings : before[p] = Absent
  /\ \A w \in Workers : Exists(before[src[w]])
  /\ \A w \in Workers : src[w] = Target => op[w] = "copy"
  /\ \A w \in Workers : /\ at[w] \in {"move", "drop"} => op[w] = "move"
                        /\ at[w] \in {"name", "inspect"} => decision[w] = "none"
                        /\ at[w] = "setAside" => decision[w] = "Replace"

(* What the transfer of w has not touched.                                  *)
RestKept(w)   == \A p \in Paths \ {src[w], dest[w]} : fs[p] = before[p]
SourceKept(w) == src[w] # dest[w] => fs[src[w]] = before[src[w]]

(* The bodies of the three properties.                                      *)
Whole(w) ==
  "dropPartly" \notin faults =>
    /\ before[src[w]] \in {fs[src[w]], fs[dest[w]], aside[w]}
    /\ \/ before[Target] \in {fs[Target], aside[w]}
       \/ ~Exists(before[Target])
       \/ decision[w] = "Replace" /\ fs[dest[w]] = before[src[w]]

NoTrace(w) ==
  /\ outcome[w] \in {"Failed", "Cancelled"}
  /\ faults \cap {"dropPartly", "cleanup", "restore", "purge"} = {}
  => fs = before /\ aside[w] = Absent

Exact(w) ==
  outcome[w] = "Completed" =>
    /\ aside[w] = Absent
    /\ IF decision[w] = "Skip" THEN fs = before
       ELSE fs = [before EXCEPT ![src[w]] = IF op[w] = "move" THEN Absent ELSE @,
                                ![dest[w]] = before[src[w]]]

EarlyOK(w) ==
  at[w] \in Early => /\ fs = before /\ aside[w] = Absent /\ backup[w] = FALSE
                     /\ decision[w] = CASE at[w] = "keepBoth" -> "KeepBoth"
                                        [] at[w] = "setAside" -> "Replace"
                                        [] OTHER -> "none"

StartedOK(w) ==
  at[w] \in Started =>
    /\ RestKept(w) /\ aside[w] = before[dest[w]] /\ decision[w] # "Skip"
    /\ IF backup[w] THEN decision[w] = "Replace" ELSE before[dest[w]] = Absent

CopyingOK(w) ==
  /\ at[w] \in {"move", "copy"} => SourceKept(w) /\ fs[dest[w]] = Absent
  /\ at[w] = "children" =>
       /\ src[w] # dest[w] /\ SourceKept(w) /\ before[src[w]].dir /\ fs[dest[w]].dir
       /\ fs[dest[w]].has \cup todo[w] = before[src[w]].has
  /\ at[w] \in {"copied", "drop"} =>
       src[w] # dest[w] /\ SourceKept(w) /\ fs[dest[w]] = before[src[w]]

EndingOK(w) ==
  /\ at[w] = "commit" =>
       /\ src[w] # dest[w] /\ fs[dest[w]] = before[src[w]]
       /\ fs[src[w]] = IF op[w] = "move" THEN Absent ELSE before[src[w]]
  /\ at[w] \in {"cleanup", "undo", "restore"} /\ "dropPartly" \notin faults => SourceKept(w)
  /\ at[w] \in {"undo", "restore"} /\ "cleanup" \notin faults => fs[dest[w]] = Absent
  /\ at[w] = "restore" => backup[w]

OverOK(w) ==
  IF at[w] \in Over THEN Whole(w) /\ NoTrace(w) /\ Exact(w) ELSE outcome[w] = "none"

PhaseOK(w) == EarlyOK(w) /\ StartedOK(w) /\ CopyingOK(w) /\ EndingOK(w) /\ OverOK(w)

(* While nobody has chosen Replace, whoever is past his decision works at a *)
(* sibling of the target.                                                   *)
TargetLeftAlone ==
  Exists(before[Target]) /\ (\A w \in Workers : decision[w] # "Replace") =>
    /\ fs[Target] = before[Target]
    /\ \A w \in Workers : at[w] \in Started \cup {"setAside"} => dest[w] \in Siblings

TransferInv ==
  /\ TransferTypeOK /\ RequestsOK
  /\ \A w \in Workers : Alone(w) => PhaseOK(w)
  /\ TargetLeftAlone

-----------------------------------------------------------------------------
(* The facts about the paths.                                               *)
LEMMA PathsApart ==
  /\ Target \in Paths /\ Sources \subseteq Paths /\ Siblings \subseteq Paths
  /\ Target \notin Siblings /\ Target \notin Sources /\ Sources \cap Siblings = {}
BY PathsAssumption DEF Paths

LEMMA RequestTypes ==
  ASSUME TransferTypeOK, NEW w \in Workers
  PROVE  /\ src[w] \in Paths /\ dest[w] \in Paths /\ Absent \in Nodes
         /\ fs[src[w]] \in Nodes /\ fs[dest[w]] \in Nodes /\ aside[w] \in Nodes
         /\ before[src[w]] \in Nodes /\ before[dest[w]] \in Nodes
<1>1. Absent \in Nodes
  BY DEF Absent, Nodes
<1>2. src[w] \in Paths /\ dest[w] \in Paths
  BY PathsApart DEF TransferTypeOK
<1>. QED
  BY <1>1, <1>2 DEF TransferTypeOK

(* A worker's step writes the disk at one path, or moves between two.       *)
LEMMA PutPuts ==
  ASSUME TransferTypeOK, NEW p \in Paths, NEW node \in Nodes, Put(p, node)
  PROVE  fs' \in [Paths -> Nodes] /\ fs'[p] = node /\ \A q \in Paths : q # p => fs'[q] = fs[q]
BY DEF TransferTypeOK, Put

LEMMA LeftoverNodes == \A node \in Nodes : Leftovers(node) \subseteq Nodes
BY DEF Leftovers, Nodes

LEMMA RemovedTarget ==
  ASSUME TransferTypeOK, NEW w \in Workers, RemoveTarget(w)
  PROVE  /\ fs' \in [Paths -> Nodes] /\ \A q \in Paths : q # dest[w] => fs'[q] = fs[q]
         /\ "cleanup" \notin faults => fs'[dest[w]] = Absent
<1>1. dest[w] \in Paths /\ Absent \in Nodes /\ fs[dest[w]] \in Nodes
  BY RequestTypes
<1>2. PICK node \in Nodes : Put(dest[w], node) /\ ("cleanup" \notin faults => node = Absent)
  BY <1>1, LeftoverNodes DEF RemoveTarget
<1>. QED
  BY <1>1, <1>2, PutPuts

(* Two nodes are equal when they are of one kind and have the same pieces.  *)
LEMMA SameNode ==
  ASSUME NEW m \in Nodes, NEW n \in Nodes, m.dir = n.dir, m.has = n.has
  PROVE  m = n
BY DEF Nodes

-----------------------------------------------------------------------------
(* Type correctness.                                                        *)
LEMMA GotoType ==
  ASSUME TransferTypeOK, NEW w \in Workers, NEW s \in Steps, Continue(w, s)
  PROVE  /\ at' \in [Workers -> Steps]
         /\ outcome' \in [Workers -> {"none", "Completed", "Failed", "Cancelled"}]
BY DEF TransferTypeOK, Continue

LEMMA FinishType ==
  ASSUME TransferTypeOK, NEW w \in Workers, NEW o \in {"Completed", "Failed", "Cancelled"}, Finish(w, o)
  PROVE  /\ at' \in [Workers -> Steps]
         /\ outcome' \in [Workers -> {"none", "Completed", "Failed", "Cancelled"}]
BY DEF TransferTypeOK, Finish, Steps

PlanTypes ==
  /\ dest \in [Workers -> {Target} \cup Siblings]
  /\ decision \in [Workers -> AllDecisions \cup {"none"}]
  /\ backup \in [Workers -> BOOLEAN]
  /\ todo \in [Workers -> SUBSET Pieces]

DiskTypes == fs \in [Paths -> Nodes] /\ aside \in [Workers -> Nodes]

EndTypes ==
  /\ at \in [Workers -> Steps]
  /\ outcome \in [Workers -> {"none", "Completed", "Failed", "Cancelled"}]

LEMMA TypeSplits ==
  ASSUME TransferTypeOK, KeepRequest, PlanTypes', DiskTypes', EndTypes'
  PROVE  TransferTypeOK'
BY DEF TransferTypeOK, KeepRequest, PlanTypes, DiskTypes, EndTypes, asked

LEMMA TypeJoins == TransferTypeOK => PlanTypes /\ DiskTypes /\ EndTypes
BY DEF TransferTypeOK, PlanTypes, DiskTypes, EndTypes

LEMMA DecideType ==
  ASSUME TransferTypeOK, NEW w \in Workers, NameDuplicate(w) \/ Inspect(w) \/ KeepBoth(w)
  PROVE  TransferTypeOK'
<1>1. KeepRequest /\ DiskTypes'
  BY DEF NameDuplicate, Inspect, KeepBoth, disk, TransferTypeOK, DiskTypes
<1>2. PlanTypes'
  <2>1. CASE NameDuplicate(w) \/ KeepBoth(w)
    BY <2>1 DEF NameDuplicate, KeepBoth, FreeName, TransferTypeOK, PlanTypes
  <2>2. CASE Inspect(w)
    BY ZenonT(20), <2>2, RequestsAssumption DEF Inspect, TransferTypeOK, PlanTypes, AllDecisions
  <2>. QED
    BY <2>1, <2>2
<1>3. EndTypes'
  <2>1. \/ \E s \in Steps : Continue(w, s)
        \/ \E o \in {"Completed", "Failed", "Cancelled"} : Finish(w, o)
    <3>1. CASE NameDuplicate(w)
      BY <3>1 DEF NameDuplicate, FreeName, Steps
    <3>2. CASE KeepBoth(w)
      BY <3>2 DEF KeepBoth, FreeName, BeginTransfer, Steps
    <3>3. CASE Inspect(w)
      <4>1. CASE BeginTransfer(w)
        BY <4>1 DEF BeginTransfer, Steps
      <4>2. CASE \E d \in Choices : CASE d = "Cancel"   -> Finish(w, "Cancelled")
                                      [] d = "Skip"     -> Finish(w, "Completed")
                                      [] d = "KeepBoth" -> Continue(w, "keepBoth")
                                      [] d = "Replace"  -> Continue(w, "setAside")
        <5>1. PICK d \in AllDecisions : CASE d = "Cancel"   -> Finish(w, "Cancelled")
                                          [] d = "Skip"     -> Finish(w, "Completed")
                                          [] d = "KeepBoth" -> Continue(w, "keepBoth")
                                          [] d = "Replace"  -> Continue(w, "setAside")
          BY <4>2, RequestsAssumption
        <5>. QED
          BY <5>1 DEF AllDecisions, Steps
      <4>. QED
        BY <3>3, <4>1, <4>2 DEF Inspect
    <3>. QED
      BY <3>1, <3>2, <3>3
  <2>. QED
    BY <2>1, GotoType, FinishType DEF EndTypes
<1>. QED
  BY <1>1, <1>2, <1>3, TypeSplits

LEMMA TransferType ==
  ASSUME TransferTypeOK, NEW w \in Workers,
         \/ SetAside(w) \/ Move(w) \/ CopyRefused(w) \/ CopyFile(w) \/ OpenDirectory(w)
         \/ CopyChild(w) \/ CopyChildFails(w) \/ EndChildren(w) \/ Copied(w) \/ DropSource(w)
  PROVE  TransferTypeOK'
<1>1. /\ src[w] \in Paths /\ dest[w] \in Paths /\ Absent \in Nodes
      /\ fs[src[w]] \in Nodes /\ fs[dest[w]] \in Nodes /\ PlanTypes /\ DiskTypes /\ EndTypes
  BY RequestTypes, TypeJoins
<1>2. KeepRequest
  BY DEF SetAside, Move, CopyRefused, CopyFile, OpenDirectory, CopyChild, CopyChildFails,
         EndChildren, Copied, DropSource, KeepJob
<1>3. PlanTypes'
  BY ZenonT(20), <1>1 DEF SetAside, Move, CopyRefused, CopyFile, OpenDirectory, CopyChild, CopyChildFails,
              EndChildren, Copied, DropSource, KeepJob, PlanTypes, Nodes
<1>4. DiskTypes'
  <2>1. CASE UNCHANGED disk
    BY <1>1, <2>1 DEF disk, DiskTypes
  <2>2. CASE UNCHANGED aside /\ \E p \in Paths, node \in Nodes : Put(p, node)
    BY <1>1, <2>2, PutPuts DEF DiskTypes
  <2>3. CASE SetAside(w)
    BY <1>1, <2>3 DEF SetAside, Put, disk, DiskTypes
  <2>4. CASE Move(w)
    BY <1>1, <2>4 DEF Move, disk, DiskTypes
  <2>5. CASE CopyFile(w) \/ DropSource(w)
    BY <1>1, <2>2, <2>5, LeftoverNodes DEF CopyFile, DropSource, DiskTypes, Put
  <2>6. CASE OpenDirectory(w)
    <3>1. [dir |-> TRUE, has |-> fs[dest[w]].has] \in Nodes
      BY <1>1 DEF Nodes
    <3>. QED
      BY <1>1, <2>2, <2>6, <3>1 DEF OpenDirectory
  <2>7. CASE CopyChild(w)
    <3>1. PICK p \in todo[w] : Put(dest[w], [fs[dest[w]] EXCEPT !.has = @ \cup {p}])
      BY <2>7 DEF CopyChild
    <3>2. [fs[dest[w]] EXCEPT !.has = @ \cup {p}] \in Nodes
      BY <1>1 DEF Nodes, PlanTypes
    <3>. QED
      BY <1>1, <2>2, <2>7, <3>1, <3>2 DEF CopyChild
  <2>. QED
    BY <2>1, <2>3, <2>4, <2>5, <2>6, <2>7 DEF CopyRefused, CopyChildFails, EndChildren, Copied
<1>5. EndTypes'
  <2>1. CASE \E s \in Steps : Continue(w, s)
    BY <2>1, GotoType DEF EndTypes
  <2>2. CASE \E o \in {"Completed", "Failed", "Cancelled"} : Finish(w, o)
    BY <2>2, FinishType DEF EndTypes
  <2>3. CASE UNCHANGED <<at, outcome>>
    BY <1>1, <2>3 DEF EndTypes
  <2>. QED
    BY <2>1, <2>2, <2>3
       DEF SetAside, Move, CopyRefused, CopyFile, OpenDirectory, CopyChild, CopyChildFails,
           EndChildren, Copied, DropSource, BeginTransfer, Steps
<1>. QED
  BY <1>2, <1>3, <1>4, <1>5, TypeSplits

LEMMA EndingType ==
  ASSUME TransferTypeOK, NEW w \in Workers, CleanUp(w) \/ Undo(w) \/ Restore(w) \/ Commit(w)
  PROVE  TransferTypeOK'
<1>1. /\ src[w] \in Paths /\ dest[w] \in Paths /\ Absent \in Nodes /\ aside[w] \in Nodes
      /\ PlanTypes /\ DiskTypes /\ EndTypes
  BY RequestTypes, TypeJoins
<1>2. KeepRequest /\ PlanTypes'
  BY <1>1 DEF CleanUp, Undo, Restore, Commit, KeepJob, PlanTypes
<1>3. DiskTypes'
  <2>1. CASE UNCHANGED aside /\ RemoveTarget(w)
    BY <1>1, <2>1, RemovedTarget DEF DiskTypes
  <2>2. CASE CleanUp(w) \/ Undo(w)
    BY <1>1, <2>1, <2>2 DEF CleanUp, Undo, DiskTypes
  <2>3. CASE Restore(w)
    BY <1>1, <2>3 DEF Restore, Put, disk, DiskTypes
  <2>4. CASE Commit(w)
    BY <1>1, <2>4, LeftoverNodes DEF Commit, DiskTypes
  <2>. QED
    BY <2>2, <2>3, <2>4
<1>4. EndTypes'
  BY GotoType, FinishType
     DEF CleanUp, Undo, Restore, Commit, Failure, EndTypes, Steps
<1>. QED
  BY <1>2, <1>3, <1>4, TypeSplits

LEMMA NextType == ASSUME TransferTypeOK, [TransferNext]_transferVars PROVE TransferTypeOK'
<1>1. CASE UNCHANGED transferVars
  BY <1>1 DEF transferVars, disk, asked, TransferTypeOK
<1>2. CASE Crash
  BY <1>2 DEF Crash, disk, asked, TransferTypeOK, Steps
<1>3. ASSUME NEW w \in Workers, RequestCancel(w) PROVE TransferTypeOK'
  BY <1>3 DEF RequestCancel, disk, asked, TransferTypeOK
<1>4. ASSUME NEW w \in Workers, Step(w) PROVE TransferTypeOK'
  BY <1>4, DecideType, TransferType, EndingType DEF Step
<1>. QED
  BY <1>1, <1>2, <1>3, <1>4 DEF TransferNext

-----------------------------------------------------------------------------
(* The phases of a transfer that is alone.                                  *)
Frozen == UNCHANGED <<before, op, src, faults>>

LEMMA KeepFreezes == KeepRequest => Frozen
BY DEF KeepRequest, Frozen, asked

LEMMA GotoGoes ==
  ASSUME TransferTypeOK, NEW w \in Workers, NEW s \in Steps, Continue(w, s)
  PROVE  at'[w] = s /\ outcome'[w] = outcome[w]
BY DEF TransferTypeOK, Continue

LEMMA FinishEnds ==
  ASSUME TransferTypeOK, NEW w \in Workers, NEW o, Finish(w, o)
  PROVE  at'[w] = "done" /\ outcome'[w] = o
BY DEF TransferTypeOK, Finish

(* What the steps leave of a phase that is over.                            *)
LEMMA OverHolds ==
  ASSUME NEW w \in Workers, at'[w] = "done", (Whole(w) /\ NoTrace(w) /\ Exact(w))'
  PROVE  PhaseOK(w)'
BY DEF PhaseOK, EarlyOK, StartedOK, CopyingOK, EndingOK, OverOK, Early, Started, Over

LEMMA NothingDone ==
  ASSUME NEW w \in Workers, TransferTypeOK, Frozen, fs' = before, aside'[w] = Absent,
         NEW o, Finish(w, o), o = "Completed" => decision'[w] = "Skip"
  PROVE  PhaseOK(w)'
<1>1. at'[w] = "done" /\ outcome'[w] = o
  BY FinishEnds
<1>2. Whole(w)' /\ NoTrace(w)' /\ Exact(w)'
  BY <1>1 DEF Frozen, Whole, NoTrace, Exact
<1>. QED
  BY <1>1, <1>2, OverHolds

LEMMA TransferStarts ==
  ASSUME NEW w \in Workers, TransferTypeOK, RequestsOK, Frozen, BeginTransfer(w), outcome[w] = "none",
         \A p \in Paths : fs'[p] = IF p = dest'[w] THEN Absent ELSE before[p],
         aside'[w] = before[dest'[w]], decision'[w] # "Skip", dest'[w] \in Paths,
         IF backup'[w] THEN decision'[w] = "Replace" ELSE before[dest'[w]] = Absent
  PROVE  PhaseOK(w)'
<1>1. at'[w] \in {"move", "copy"} /\ outcome'[w] = "none"
  BY GotoGoes DEF BeginTransfer, Steps
<1>2. src[w] \in Paths
  BY RequestTypes
<1>3. StartedOK(w)'
  BY <1>1, <1>2 DEF Frozen, StartedOK, RestKept
<1>4. CopyingOK(w)'
  BY <1>1, <1>2 DEF Frozen, CopyingOK, SourceKept
<1>. QED
  BY <1>1, <1>3, <1>4 DEF PhaseOK, EarlyOK, EndingOK, OverOK, Early, Over

LEMMA DecidePhase ==
  ASSUME NEW w \in Workers, TransferTypeOK, TransferTypeOK', RequestsOK, PhaseOK(w),
         NameDuplicate(w) \/ Inspect(w) \/ KeepBoth(w)
  PROVE  PhaseOK(w)'
<1>1. /\ at[w] \in {"name", "inspect", "keepBoth"} /\ Frozen /\ UNCHANGED <<fs, aside, backup>>
      /\ fs = before /\ aside[w] = Absent /\ backup[w] = FALSE /\ outcome[w] = "none"
      /\ decision[w] = IF at[w] = "keepBoth" THEN "KeepBoth" ELSE "none"
  BY KeepFreezes
     DEF NameDuplicate, Inspect, KeepBoth, disk, PhaseOK, EarlyOK, OverOK, Early, Over
<1>2. dest'[w] \in Paths /\ dest[w] \in Paths
  BY PathsApart DEF TransferTypeOK
<1>3. ASSUME \/ Continue(w, "inspect") /\ decision'[w] = "none"
             \/ Continue(w, "keepBoth") /\ decision'[w] = "KeepBoth"
             \/ Continue(w, "setAside") /\ decision'[w] = "Replace"
      PROVE  PhaseOK(w)'
  <2>1. /\ outcome'[w] = "none"
        /\ \/ at'[w] = "inspect" /\ decision'[w] = "none"
           \/ at'[w] = "keepBoth" /\ decision'[w] = "KeepBoth"
           \/ at'[w] = "setAside" /\ decision'[w] = "Replace"
    BY <1>1, <1>3, GotoGoes DEF Steps
  <2>. QED
    BY <1>1, <2>1
       DEF Frozen, PhaseOK, EarlyOK, StartedOK, CopyingOK, EndingOK, OverOK, Early, Started, Over
<1>4. ASSUME BeginTransfer(w), fs[dest'[w]] = Absent, decision'[w] # "Skip"
      PROVE  PhaseOK(w)'
  BY <1>1, <1>2, <1>4, TransferStarts
<1>5. CASE NameDuplicate(w)
  <2>1. (Continue(w, "inspect") /\ decision'[w] = "none") \/ Finish(w, "Failed")
    BY <1>1, <1>5 DEF NameDuplicate, FreeName, RequestsOK
  <2>. QED
    BY <1>1, <1>3, <2>1, NothingDone
<1>6. CASE KeepBoth(w)
  <2>1. \/ BeginTransfer(w) /\ fs[dest'[w]] = Absent
        \/ Finish(w, "Failed")
    <3>1. CASE Exists(fs[dest[w]])
      BY <1>6, <3>1 DEF KeepBoth, FreeName, Exists, TransferTypeOK
    <3>2. CASE ~Exists(fs[dest[w]])
      BY <1>6, <3>2 DEF KeepBoth, Exists
    <3>. QED
      BY <3>1, <3>2
  <2>2. decision'[w] # "Skip"
    BY <1>1, <1>6 DEF KeepBoth
  <2>. QED
    BY <1>1, <1>4, <2>1, <2>2, NothingDone
<1>7. CASE Inspect(w)
  <2>1. CASE ~Exists(fs[dest[w]]) /\ BeginTransfer(w) /\ UNCHANGED decision
    BY <1>1, <1>4, <1>7, <2>1 DEF Inspect, Exists
  <2>2. CASE \E d \in Choices :
               /\ decision' = [decision EXCEPT ![w] = d]
               /\ CASE d = "Cancel"   -> Finish(w, "Cancelled")
                    [] d = "Skip"     -> Finish(w, "Completed")
                    [] d = "KeepBoth" -> Continue(w, "keepBoth")
                    [] d = "Replace"  -> Continue(w, "setAside")
    <3>1. PICK d \in AllDecisions :
               /\ decision' = [decision EXCEPT ![w] = d]
               /\ CASE d = "Cancel"   -> Finish(w, "Cancelled")
                    [] d = "Skip"     -> Finish(w, "Completed")
                    [] d = "KeepBoth" -> Continue(w, "keepBoth")
                    [] d = "Replace"  -> Continue(w, "setAside")
      BY <2>2, RequestsAssumption
    <3>2. decision'[w] = d
      BY <3>1 DEF TransferTypeOK
    <3>3. \/ Finish(w, "Cancelled")
          \/ Finish(w, "Completed") /\ decision'[w] = "Skip"
          \/ Continue(w, "keepBoth") /\ decision'[w] = "KeepBoth"
          \/ Continue(w, "setAside") /\ decision'[w] = "Replace"
      BY <3>1, <3>2 DEF AllDecisions
    <3>. QED
      BY <1>1, <1>3, <3>3, NothingDone
  <2>. QED
    BY <1>7, <2>1, <2>2 DEF Inspect
<1>. QED
  BY <1>5, <1>6, <1>7

LEMMA SetAsidePhase ==
  ASSUME NEW w \in Workers, TransferTypeOK, TransferTypeOK', RequestsOK, PhaseOK(w), SetAside(w)
  PROVE  PhaseOK(w)'
<1>1. /\ Frozen /\ fs = before /\ aside[w] = Absent /\ outcome[w] = "none"
      /\ decision[w] = "Replace" /\ UNCHANGED <<dest, decision>> /\ backup'[w] = TRUE
  BY KeepFreezes DEF SetAside, PhaseOK, EarlyOK, OverOK, Early, Over, TransferTypeOK
<1>2. dest[w] \in Paths /\ Absent \in Nodes
  BY RequestTypes
<1>3. CASE Finish(w, "Failed") /\ UNCHANGED disk
  BY <1>1, <1>3, NothingDone DEF disk
<1>4. CASE aside' = [aside EXCEPT ![w] = fs[dest[w]]] /\ Put(dest[w], Absent) /\ BeginTransfer(w)
  <2>1. \A p \in Paths : fs'[p] = IF p = dest[w] THEN Absent ELSE before[p]
    BY <1>1, <1>2, <1>4, PutPuts
  <2>2. aside'[w] = before[dest[w]]
    BY <1>1, <1>4 DEF TransferTypeOK
  <2>. QED
    BY <1>1, <1>2, <1>4, <2>1, <2>2, TransferStarts
<1>. QED
  BY <1>3, <1>4 DEF SetAside

(* A step of a transfer under way that goes on: what it has to leave.       *)
LEMMA TransferGoesOn ==
  ASSUME NEW w \in Workers, TransferTypeOK, PhaseOK(w), Frozen, at[w] \in Started,
         NEW s \in Started, Continue(w, s), UNCHANGED <<dest, decision, backup, aside>>,
         \A p \in Paths \ {src[w], dest[w]} : fs'[p] = fs[p],
         CopyingOK(w)', EndingOK(w)'
  PROVE  PhaseOK(w)'
<1>1. at'[w] = s /\ outcome'[w] = "none" /\ s \notin Early \cup Over
  <2>1. s \in Steps /\ s \notin Early \cup Over /\ outcome[w] = "none"
    BY DEF Steps, Started, Early, Over, PhaseOK, OverOK
  <2>. QED
    BY <2>1, GotoGoes
<1>2. StartedOK(w)'
  BY DEF PhaseOK, StartedOK, RestKept, Frozen
<1>. QED
  BY <1>1, <1>2 DEF PhaseOK, EarlyOK, OverOK

LEMMA GivesUp ==
  ASSUME NEW w \in Workers, TransferTypeOK, PhaseOK(w), Frozen, at[w] \in Started,
         Continue(w, "cleanup"), UNCHANGED <<dest, decision, backup, aside>>,
         \A p \in Paths \ {src[w], dest[w]} : fs'[p] = fs[p],
         "dropPartly" \notin faults => SourceKept(w)'
  PROVE  PhaseOK(w)'
<1>1. at'[w] = "cleanup"
  BY GotoGoes DEF Steps
<1>2. CopyingOK(w)' /\ EndingOK(w)'
  BY <1>1 DEF CopyingOK, EndingOK, Frozen
<1>. QED
  BY <1>2, TransferGoesOn DEF Started

LEMMA MovePhase ==
  ASSUME NEW w \in Workers, TransferTypeOK, RequestsOK, PhaseOK(w), Move(w)
  PROVE  PhaseOK(w)'
<1>1. /\ Frozen /\ at[w] = "move" /\ op[w] = "move" /\ src[w] # dest[w]
      /\ fs[dest[w]] = Absent /\ fs[src[w]] = before[src[w]]
      /\ UNCHANGED <<dest, decision, backup>> /\ src[w] \in Paths /\ dest[w] \in Paths
  <2>1. src[w] # Target /\ src[w] \in Sources
    BY DEF RequestsOK, Move, TransferTypeOK
  <2>2. src[w] # dest[w]
    BY <2>1, PathsApart DEF TransferTypeOK
  <2>. QED
    BY <2>2, KeepFreezes, RequestTypes
       DEF Move, KeepJob, PhaseOK, CopyingOK, SourceKept, RequestsOK
<1>2. at[w] \in Started
  BY <1>1 DEF Started
<1>3. CASE Continue(w, "undo") /\ UNCHANGED disk
  <2>1. at'[w] = "undo"
    BY <1>3, GotoGoes DEF Steps
  <2>2. CopyingOK(w)' /\ EndingOK(w)'
    BY <1>1, <1>3, <2>1 DEF CopyingOK, EndingOK, SourceKept, Frozen, disk
  <2>. QED
    BY <1>1, <1>2, <1>3, <2>2, TransferGoesOn DEF Started, disk
<1>4. CASE /\ fs' = [fs EXCEPT ![src[w]] = Absent, ![dest[w]] = fs[src[w]]]
           /\ Continue(w, "commit") /\ UNCHANGED aside
  <2>1. at'[w] = "commit"
    BY <1>4, GotoGoes DEF Steps
  <2>2. /\ fs'[src[w]] = Absent /\ fs'[dest[w]] = before[src[w]]
        /\ \A p \in Paths \ {src[w], dest[w]} : fs'[p] = fs[p]
    BY <1>1, <1>4 DEF TransferTypeOK
  <2>3. CopyingOK(w)' /\ EndingOK(w)'
    BY <1>1, <2>1, <2>2 DEF CopyingOK, EndingOK, Frozen
  <2>. QED
    BY <1>1, <1>2, <1>4, <2>2, <2>3, TransferGoesOn DEF Started
<1>5. CASE Continue(w, "copy") /\ UNCHANGED disk
  <2>1. at'[w] = "copy"
    BY <1>5, GotoGoes DEF Steps
  <2>2. CopyingOK(w)' /\ EndingOK(w)'
    BY <1>1, <1>5, <2>1 DEF CopyingOK, EndingOK, SourceKept, Frozen, disk
  <2>. QED
    BY <1>1, <1>2, <1>5, <2>2, TransferGoesOn DEF Started, disk
<1>. QED
  BY <1>3, <1>4, <1>5 DEF Move

LEMMA CopyPhase ==
  ASSUME NEW w \in Workers, TransferTypeOK, RequestsOK, PhaseOK(w),
         CopyRefused(w) \/ CopyFile(w) \/ OpenDirectory(w)
  PROVE  PhaseOK(w)'
<1>1. /\ Frozen /\ at[w] = "copy" /\ SourceKept(w) /\ fs[dest[w]] = Absent
      /\ UNCHANGED <<dest, decision, backup, aside>>
  BY KeepFreezes
     DEF CopyRefused, CopyFile, OpenDirectory, KeepJob, PhaseOK, CopyingOK, disk
<1>2. at[w] \in Started
  BY <1>1 DEF Started
<1>3. src[w] \in Paths /\ dest[w] \in Paths /\ fs[src[w]] \in Nodes /\ fs[dest[w]] \in Nodes
  BY RequestTypes
<1>4. CASE CopyRefused(w)
  BY <1>1, <1>2, <1>4, GivesUp DEF CopyRefused, disk, SourceKept, Frozen
<1>5. CASE CopyFile(w)
  <2>1. src[w] # dest[w] /\ at'[w] = "copied"
    BY <1>1, <1>5, GotoGoes DEF CopyFile, File, Exists, Steps
  <2>2. /\ fs'[dest[w]] = before[src[w]] /\ fs'[src[w]] = before[src[w]]
        /\ \A p \in Paths \ {src[w], dest[w]} : fs'[p] = fs[p]
    BY <1>1, <1>3, <1>5, <2>1, PutPuts DEF CopyFile, SourceKept
  <2>3. CopyingOK(w)' /\ EndingOK(w)'
    BY <1>1, <2>1, <2>2 DEF CopyingOK, EndingOK, SourceKept, Frozen
  <2>. QED
    BY <1>1, <1>2, <1>5, <2>2, <2>3, TransferGoesOn DEF CopyFile, Started
<1>6. CASE OpenDirectory(w)
  <2>1. src[w] # dest[w] /\ at'[w] = "children"
    BY <1>1, <1>6, GotoGoes DEF OpenDirectory, Absent, Steps
  <2>2. PICK node : node = [dir |-> TRUE, has |-> fs[dest[w]].has]
    OBVIOUS
  <2>3. node \in Nodes /\ node.dir = TRUE /\ node.has = {}
    BY <1>1, <1>3, <2>2 DEF Nodes, Absent
  <2>4. /\ fs'[dest[w]] = node /\ fs'[src[w]] = before[src[w]]
        /\ \A p \in Paths \ {src[w], dest[w]} : fs'[p] = fs[p]
    BY <1>1, <1>3, <1>6, <2>1, <2>2, <2>3, PutPuts DEF OpenDirectory, SourceKept
  <2>5. todo'[w] = before[src[w]].has /\ before[src[w]].dir
    BY <1>1, <1>6, <2>1 DEF OpenDirectory, SourceKept, TransferTypeOK
  <2>6. CopyingOK(w)' /\ EndingOK(w)'
    BY <1>1, <2>1, <2>3, <2>4, <2>5 DEF CopyingOK, EndingOK, SourceKept, Frozen
  <2>. QED
    BY <1>1, <1>2, <1>6, <2>4, <2>6, TransferGoesOn DEF OpenDirectory, Started
<1>. QED
  BY <1>4, <1>5, <1>6

LEMMA ChildrenPhase ==
  ASSUME NEW w \in Workers, TransferTypeOK, RequestsOK, PhaseOK(w),
         CopyChild(w) \/ CopyChildFails(w) \/ EndChildren(w)
  PROVE  PhaseOK(w)'
<1>1. /\ Frozen /\ at[w] = "children" /\ src[w] # dest[w] /\ fs[src[w]] = before[src[w]]
      /\ UNCHANGED <<dest, decision, backup, aside>>
      /\ before[src[w]].dir /\ fs[dest[w]].dir
      /\ fs[dest[w]].has \cup todo[w] = before[src[w]].has
  BY KeepFreezes
     DEF CopyChild, CopyChildFails, EndChildren, KeepJob, PhaseOK, CopyingOK, SourceKept, disk
<1>2. at[w] \in Started
  BY <1>1 DEF Started
<1>3. /\ src[w] \in Paths /\ dest[w] \in Paths /\ fs[dest[w]] \in Nodes
      /\ before[src[w]] \in Nodes
  BY RequestTypes
<1>4. CASE CopyChildFails(w)
  BY <1>1, <1>2, <1>4, GivesUp DEF CopyChildFails, disk, SourceKept, Frozen
<1>5. CASE EndChildren(w)
  <2>1. at'[w] = "copied" /\ todo[w] = {}
    BY <1>5, GotoGoes DEF EndChildren, Steps
  <2>2. fs[dest[w]] = before[src[w]]
    BY <1>1, <1>3, <2>1, SameNode DEF Nodes
  <2>3. CopyingOK(w)' /\ EndingOK(w)'
    BY <1>1, <1>5, <2>1, <2>2 DEF EndChildren, disk, CopyingOK, EndingOK, SourceKept, Frozen
  <2>. QED
    BY <1>1, <1>2, <1>5, <2>3, TransferGoesOn DEF EndChildren, disk, Started
<1>6. CASE CopyChild(w)
  <2>1. PICK p \in todo[w] : /\ Put(dest[w], [fs[dest[w]] EXCEPT !.has = @ \cup {p}])
                             /\ todo' = [todo EXCEPT ![w] = @ \ {p}]
    BY <1>6 DEF CopyChild
  <2>2. PICK node : node = [fs[dest[w]] EXCEPT !.has = @ \cup {p}]
    OBVIOUS
  <2>3. node \in Nodes /\ node.dir /\ node.has = fs[dest[w]].has \cup {p}
    BY SMTT(20), <1>1, <1>3, <2>1, <2>2 DEF Nodes, TransferTypeOK
  <2>4. /\ fs'[dest[w]] = node /\ fs'[src[w]] = before[src[w]]
        /\ \A q \in Paths \ {src[w], dest[w]} : fs'[q] = fs[q]
    BY <1>1, <1>3, <2>1, <2>2, <2>3, PutPuts
  <2>5. todo'[w] = todo[w] \ {p} /\ at'[w] = "children" /\ outcome' = outcome
    BY <1>1, <1>6, <2>1 DEF CopyChild, TransferTypeOK
  <2>6. node.has \cup todo'[w] = before[src[w]].has
    BY <1>1, <2>3, <2>5
  <2>7. CopyingOK(w)' /\ EndingOK(w)'
    BY <1>1, <2>3, <2>4, <2>5, <2>6 DEF CopyingOK, EndingOK, SourceKept, Frozen
  <2>8. StartedOK(w)'
    BY <1>1, <1>2, <2>4, <2>5 DEF PhaseOK, StartedOK, RestKept, Frozen
  <2>. QED
    BY <1>1, <1>2, <2>5, <2>7, <2>8 DEF PhaseOK, EarlyOK, OverOK, Early, Over
<1>. QED
  BY <1>4, <1>5, <1>6

LEMMA CopiedPhase ==
  ASSUME NEW w \in Workers, TransferTypeOK, RequestsOK, PhaseOK(w), Copied(w) \/ DropSource(w)
  PROVE  PhaseOK(w)'
<1>1. /\ Frozen /\ at[w] \in {"copied", "drop"} /\ src[w] # dest[w]
      /\ fs[src[w]] = before[src[w]] /\ fs[dest[w]] = before[src[w]]
      /\ UNCHANGED <<dest, decision, backup, aside>>
  BY KeepFreezes DEF Copied, DropSource, KeepJob, PhaseOK, CopyingOK, SourceKept, disk
<1>2. at[w] \in Started
  BY <1>1 DEF Started
<1>3. src[w] \in Paths /\ dest[w] \in Paths /\ fs[src[w]] \in Nodes /\ Absent \in Nodes
  BY RequestTypes
<1>4. ASSUME Continue(w, "drop"), fs' = fs PROVE PhaseOK(w)'
  <2>1. at'[w] = "drop"
    BY <1>4, GotoGoes DEF Steps
  <2>2. CopyingOK(w)' /\ EndingOK(w)'
    BY <1>1, <1>4, <2>1 DEF CopyingOK, EndingOK, SourceKept, Frozen
  <2>. QED
    BY <1>1, <1>2, <1>4, <2>2, TransferGoesOn DEF Started
<1>5. ASSUME Continue(w, "commit"), NEW node \in Nodes,
             fs' = [fs EXCEPT ![src[w]] = node], node = IF op[w] = "move" THEN Absent ELSE fs[src[w]]
      PROVE  PhaseOK(w)'
  <2>1. at'[w] = "commit"
    BY <1>5, GotoGoes DEF Steps
  <2>2. /\ fs'[dest[w]] = before[src[w]] /\ fs'[src[w]] = node
        /\ \A p \in Paths \ {src[w], dest[w]} : fs'[p] = fs[p]
    BY <1>1, <1>3, <1>5 DEF TransferTypeOK
  <2>3. CopyingOK(w)' /\ EndingOK(w)'
    BY <1>1, <1>5, <2>1, <2>2 DEF CopyingOK, EndingOK, Frozen
  <2>. QED
    BY <1>1, <1>2, <1>5, <2>2, <2>3, TransferGoesOn DEF Started
<1>6. CASE Copied(w)
  <2>1. fs' = fs /\ fs' = [fs EXCEPT ![src[w]] = fs[src[w]]]
    BY <1>6 DEF Copied, disk, TransferTypeOK
  <2>2. \/ Continue(w, "commit") /\ op[w] # "move"
        \/ Continue(w, "cleanup")
        \/ Continue(w, "drop")
    BY <1>6 DEF Copied
  <2>. QED
    BY <1>1, <1>2, <1>3, <1>4, <1>5, <2>1, <2>2, GivesUp DEF SourceKept, Frozen
<1>7. CASE DropSource(w)
  <2>1. CASE Put(src[w], Absent) /\ Continue(w, "commit")
    BY <1>3, <1>5, <1>7, <2>1 DEF DropSource, Put, RequestsOK
  <2>2. CASE UNCHANGED fs /\ Continue(w, "cleanup")
    BY <1>1, <1>2, <2>2, GivesUp DEF SourceKept, Frozen
  <2>3. CASE /\ "dropPartly" \in faults /\ Continue(w, "cleanup")
             /\ \E node \in Leftovers(fs[src[w]]) : Put(src[w], node)
    <3>1. \A p \in Paths \ {src[w], dest[w]} : fs'[p] = fs[p]
      BY <1>3, <2>3, LeftoverNodes, PutPuts
    <3>. QED
      BY <1>1, <1>2, <2>3, <3>1, GivesUp
  <2>. QED
    BY <1>7, <2>1, <2>2, <2>3 DEF DropSource
<1>. QED
  BY <1>6, <1>7

(* What the rollback finds: the source as it was, the old target aside.     *)
Rollback(w) ==
  /\ RestKept(w) /\ aside[w] = before[dest[w]] /\ decision[w] # "Skip"
  /\ IF backup[w] THEN decision[w] = "Replace" ELSE before[dest[w]] = Absent
  /\ "dropPartly" \notin faults => SourceKept(w)

LEMMA CleanUpPhase ==
  ASSUME NEW w \in Workers, TransferTypeOK, RequestsOK, PhaseOK(w), CleanUp(w)
  PROVE  PhaseOK(w)'
<1>1. /\ Frozen /\ at[w] \in Started /\ Continue(w, "undo")
      /\ "dropPartly" \notin faults => SourceKept(w)
      /\ UNCHANGED <<dest, decision, backup, aside>>
  BY KeepFreezes DEF CleanUp, KeepJob, PhaseOK, EndingOK, Started
<1>2. at'[w] = "undo"
  BY <1>1, GotoGoes DEF Steps
<1>3. /\ \A p \in Paths : p # dest[w] => fs'[p] = fs[p]
      /\ "cleanup" \notin faults => fs'[dest[w]] = Absent
      /\ src[w] \in Paths
  BY RemovedTarget, RequestTypes DEF CleanUp
<1>4. CopyingOK(w)' /\ EndingOK(w)'
  BY <1>1, <1>2, <1>3 DEF CopyingOK, EndingOK, SourceKept, Frozen
<1>. QED
  BY <1>1, <1>3, <1>4, TransferGoesOn DEF Started

LEMMA UndoPhase ==
  ASSUME NEW w \in Workers, TransferTypeOK, TransferTypeOK', RequestsOK, PhaseOK(w), Undo(w)
  PROVE  PhaseOK(w)'
<1>1. /\ Frozen /\ at[w] = "undo" /\ at[w] \in Started /\ Rollback(w)
      /\ "cleanup" \notin faults => fs[dest[w]] = Absent
      /\ UNCHANGED <<dest, decision, backup, aside>>
  BY KeepFreezes DEF Undo, KeepJob, PhaseOK, StartedOK, EndingOK, Started, Rollback
<1>2. src[w] \in Paths /\ dest[w] \in Paths
  BY RequestTypes
<1>3. CASE backup[w] /\ RemoveTarget(w) /\ Continue(w, "restore")
  <2>1. at'[w] = "restore"
    BY <1>3, GotoGoes DEF Steps
  <2>2. /\ \A p \in Paths : p # dest[w] => fs'[p] = fs[p]
        /\ "cleanup" \notin faults => fs'[dest[w]] = Absent
    BY <1>3, RemovedTarget
  <2>3. CopyingOK(w)' /\ EndingOK(w)'
    BY <1>1, <1>2, <1>3, <2>1, <2>2 DEF CopyingOK, EndingOK, SourceKept, Frozen, Rollback
  <2>. QED
    BY <1>1, <1>3, <2>2, <2>3, TransferGoesOn DEF Started
<1>4. CASE ~backup[w] /\ UNCHANGED fs /\ Finish(w, Failure(w))
  <2>1. at'[w] = "done" /\ outcome'[w] # "Completed"
    <3>1. PICK o : o = Failure(w)
      OBVIOUS
    <3>2. o # "Completed" /\ Finish(w, o)
      BY <1>4, <3>1 DEF Failure
    <3>. QED
      BY <3>2, FinishEnds
  <2>2. Exact(w)'
    BY <2>1 DEF Exact
  <2>3. NoTrace(w)'
    BY <1>1, <1>2, <1>4 DEF NoTrace, Rollback, RestKept, SourceKept, Frozen, TransferTypeOK
  <2>4. Whole(w)'
    <3>1. ASSUME "dropPartly" \notin faults PROVE before[src[w]] \in {fs[src[w]], fs[dest[w]], aside[w]}
      BY <1>1, <3>1 DEF Rollback, SourceKept
    <3>2. ASSUME "dropPartly" \notin faults PROVE before[Target] \in {fs[Target], aside[w]}
      BY <1>1, <3>2, PathsApart DEF Rollback, SourceKept, RestKept
    <3>. QED
      BY <1>1, <1>4, <3>1, <3>2 DEF Whole, Frozen
  <2>. QED
    BY <2>1, <2>2, <2>3, <2>4, OverHolds
<1>. QED
  BY <1>3, <1>4 DEF Undo

LEMMA RestorePhase ==
  ASSUME NEW w \in Workers, TransferTypeOK, TransferTypeOK', RequestsOK, PhaseOK(w), Restore(w)
  PROVE  PhaseOK(w)'
<1>1. /\ Frozen /\ at[w] = "restore" /\ Rollback(w)
      /\ "cleanup" \notin faults => fs[dest[w]] = Absent
      /\ UNCHANGED <<dest, decision, backup>>
  BY KeepFreezes DEF Restore, KeepJob, PhaseOK, StartedOK, EndingOK, Started, Rollback
<1>2. src[w] \in Paths /\ dest[w] \in Paths /\ aside[w] \in Nodes
  BY RequestTypes
<1>3. at'[w] = "done" /\ outcome'[w] # "Completed"
  <2>1. PICK o : o = Failure(w)
    OBVIOUS
  <2>2. o # "Completed" /\ Finish(w, o)
    BY <2>1 DEF Restore, Failure
  <2>. QED
    BY <2>2, FinishEnds
<1>4. Exact(w)'
  BY <1>3 DEF Exact
<1>5. CASE Put(dest[w], aside[w]) /\ aside' = [aside EXCEPT ![w] = Absent]
  <2>1. /\ aside'[w] = Absent /\ fs'[dest[w]] = before[dest[w]]
        /\ \A p \in Paths \ {src[w], dest[w]} : fs'[p] = before[p]
        /\ src[w] # dest[w] => fs'[src[w]] = fs[src[w]]
    BY <1>1, <1>2, <1>5, PutPuts DEF Rollback, RestKept, TransferTypeOK
  <2>2. ASSUME "dropPartly" \notin faults PROVE fs' = before
    <3>1. \A p \in Paths : fs'[p] = before[p]
      BY <1>1, <2>1, <2>2 DEF Rollback, SourceKept
    <3>. QED
      BY <1>1, <3>1 DEF TransferTypeOK, Frozen
  <2>3. NoTrace(w)' /\ Whole(w)'
    BY <1>1, <2>1, <2>2 DEF NoTrace, Whole, Frozen
  <2>. QED
    BY <1>3, <1>4, <2>3, OverHolds
<1>6. CASE (Exists(fs[dest[w]]) \/ "restore" \in faults) /\ UNCHANGED disk
  <2>1. NoTrace(w)'
    BY <1>1, <1>6 DEF NoTrace, Exists, Frozen
  <2>2. ASSUME "dropPartly" \notin faults PROVE before[src[w]] \in {fs[src[w]], aside[w]}
    BY <1>1, <2>2 DEF Rollback, SourceKept
  <2>3. ASSUME "dropPartly" \notin faults PROVE before[Target] \in {fs[Target], aside[w]}
    BY <1>1, <2>3, PathsApart DEF Rollback, SourceKept, RestKept
  <2>4. Whole(w)'
    BY <1>1, <1>6, <2>2, <2>3 DEF Whole, Frozen, disk
  <2>. QED
    BY <1>3, <1>4, <2>1, <2>4, OverHolds
<1>. QED
  BY <1>5, <1>6 DEF Restore

(* At commit the source has come to its destination.                        *)
LEMMA CommitPhase ==
  ASSUME NEW w \in Workers, TransferTypeOK, RequestsOK, PhaseOK(w), Commit(w)
  PROVE  PhaseOK(w)'
<1>1. /\ Frozen /\ at[w] = "commit" /\ RestKept(w) /\ aside[w] = before[dest[w]]
      /\ decision[w] # "Skip" /\ src[w] # dest[w] /\ fs[dest[w]] = before[src[w]]
      /\ IF backup[w] THEN decision[w] = "Replace" ELSE before[dest[w]] = Absent
      /\ fs[src[w]] = IF op[w] = "move" THEN Absent ELSE before[src[w]]
      /\ UNCHANGED <<dest, decision, backup, fs>>
  BY KeepFreezes DEF Commit, KeepJob, PhaseOK, StartedOK, EndingOK, Started
<1>2. src[w] \in Paths /\ dest[w] \in Paths
  BY RequestTypes
<1>3. Whole(w)'
  <2>1. \/ before[Target] = fs[Target]
        \/ ~Exists(before[Target])
        \/ decision[w] = "Replace"
    <3>1. CASE dest[w] = Target
      BY <1>1, <3>1 DEF Exists
    <3>2. CASE src[w] = Target
      BY <1>1, <3>2 DEF RequestsOK
    <3>3. CASE Target \notin {src[w], dest[w]}
      BY <1>1, <3>3, PathsApart DEF RestKept
    <3>. QED
      BY <3>1, <3>2, <3>3
  <2>. QED
    BY <1>1, <2>1 DEF Whole, Frozen
<1>4. CASE aside' = [aside EXCEPT ![w] = Absent] /\ Finish(w, "Completed")
  <2>1. at'[w] = "done" /\ outcome'[w] = "Completed" /\ aside'[w] = Absent
    BY <1>4, FinishEnds DEF TransferTypeOK
  <2>2. fs = [before EXCEPT ![src[w]] = IF op[w] = "move" THEN Absent ELSE @,
                            ![dest[w]] = before[src[w]]]
    BY <1>1, <1>2 DEF TransferTypeOK, RestKept
  <2>3. NoTrace(w)' /\ Exact(w)'
    BY <1>1, <2>1, <2>2 DEF NoTrace, Exact, Frozen
  <2>. QED
    BY <1>3, <2>1, <2>3, OverHolds
<1>5. CASE "purge" \in faults /\ Finish(w, "Failed")
  <2>1. at'[w] = "done" /\ outcome'[w] = "Failed"
    BY <1>5, FinishEnds
  <2>2. NoTrace(w)' /\ Exact(w)'
    BY <1>1, <1>5, <2>1 DEF NoTrace, Exact, Frozen
  <2>. QED
    BY <1>3, <2>1, <2>2, OverHolds
<1>. QED
  BY <1>4, <1>5 DEF Commit

(* Wherever the process dies, the data are whole.                           *)
LEMMA PhaseIsWhole ==
  ASSUME NEW w \in Workers, TransferTypeOK, RequestsOK, PhaseOK(w)
  PROVE  Whole(w) /\ NoTrace(w) /\ Exact(w)
<1>1. CASE at[w] \in Over
  BY <1>1 DEF PhaseOK, OverOK
<1>2. CASE at[w] \notin Over
  <2>1. outcome[w] = "none"
    BY <1>2 DEF PhaseOK, OverOK
  <2>2. NoTrace(w) /\ Exact(w)
    BY <2>1 DEF NoTrace, Exact
  <2>3. src[w] \in Paths /\ dest[w] \in Paths
    BY RequestTypes
  <2>4. CASE at[w] \in Early
    BY <2>2, <2>4 DEF PhaseOK, EarlyOK, Whole
  <2>5. CASE at[w] \in Started
    <3> SUFFICES ASSUME "dropPartly" \notin faults
                 PROVE  /\ before[src[w]] \in {fs[src[w]], fs[dest[w]], aside[w]}
                        /\ \/ before[Target] \in {fs[Target], aside[w]}
                           \/ ~Exists(before[Target])
                           \/ decision[w] = "Replace" /\ fs[dest[w]] = before[src[w]]
      BY <2>2 DEF Whole
    <3>1. /\ RestKept(w) /\ aside[w] = before[dest[w]]
          /\ SourceKept(w) \/ (at[w] = "commit" /\ fs[dest[w]] = before[src[w]] /\ src[w] # dest[w])
          /\ at[w] = "commit" => fs[src[w]] = IF op[w] = "move" THEN Absent ELSE before[src[w]]
      BY <2>5 DEF PhaseOK, StartedOK, CopyingOK, EndingOK, Started
    <3>2. before[src[w]] \in {fs[src[w]], fs[dest[w]], aside[w]}
      BY <3>1 DEF SourceKept
    <3>3. before[Target] \in {fs[Target], aside[w]}
      BY <2>3, <3>1, PathsApart DEF SourceKept, RestKept, RequestsOK
    <3>. QED
      BY <3>2, <3>3
  <2>6. at[w] \in Steps
    BY DEF TransferTypeOK
  <2>. QED
    BY <1>2, <2>2, <2>4, <2>5, <2>6 DEF Early, Started, Over, Steps
<1>. QED
  BY <1>1, <1>2

-----------------------------------------------------------------------------
(* All steps, of all transfers.                                             *)
LEMMA StepPhase ==
  ASSUME NEW w \in Workers, TransferTypeOK, TransferTypeOK', RequestsOK, PhaseOK(w), Step(w)
  PROVE  PhaseOK(w)'
BY DecidePhase, SetAsidePhase, MovePhase, CopyPhase, ChildrenPhase, CopiedPhase, CleanUpPhase,
   UndoPhase, RestorePhase, CommitPhase
   DEF Step

LEMMA DecisionGoes ==
  ASSUME NEW w \in Workers, TransferTypeOK, Inspect(w)
  PROVE  /\ \A v \in Workers : v # w => decision'[v] = decision[v]
         /\ \/ BeginTransfer(w) /\ ~Exists(fs[dest[w]]) /\ UNCHANGED decision
            \/ Finish(w, "Cancelled") \/ Finish(w, "Completed")
            \/ Continue(w, "keepBoth")
            \/ Continue(w, "setAside") /\ decision'[w] = "Replace"
<1>1. CASE ~Exists(fs[dest[w]]) /\ BeginTransfer(w) /\ UNCHANGED decision
  BY <1>1
<1>2. CASE \E d \in Choices :
             /\ decision' = [decision EXCEPT ![w] = d]
             /\ CASE d = "Cancel"   -> Finish(w, "Cancelled")
                  [] d = "Skip"     -> Finish(w, "Completed")
                  [] d = "KeepBoth" -> Continue(w, "keepBoth")
                  [] d = "Replace"  -> Continue(w, "setAside")
  <2>1. PICK d \in AllDecisions :
             /\ decision' = [decision EXCEPT ![w] = d]
             /\ CASE d = "Cancel"   -> Finish(w, "Cancelled")
                  [] d = "Skip"     -> Finish(w, "Completed")
                  [] d = "KeepBoth" -> Continue(w, "keepBoth")
                  [] d = "Replace"  -> Continue(w, "setAside")
    BY <1>2, RequestsAssumption
  <2>2. decision'[w] = d /\ \A v \in Workers : v # w => decision'[v] = decision[v]
    BY <2>1 DEF TransferTypeOK
  <2>. QED
    BY <2>1, <2>2 DEF AllDecisions
<1>. QED
  BY <1>1, <1>2 DEF Inspect

(* Where a step leads.                                                      *)
LEMMA StepGoes ==
  ASSUME NEW w \in Workers, TransferTypeOK, RequestsOK, Step(w)
  PROVE  /\ Frozen /\ at[w] # "idle"
         /\ \E s \in Steps \ {"idle"} :
              /\ at' = [at EXCEPT ![w] = s]
              /\ s \in {"move", "drop"} => op[w] = "move"
              /\ s \in {"name", "inspect"} => decision'[w] = "none"
              /\ s = "setAside" => decision'[w] = "Replace"
         /\ \A v \in Workers : v # w => decision'[v] = decision[v]
<1>1. Frozen /\ at[w] # "idle"
  BY KeepFreezes
     DEF Step, NameDuplicate, Inspect, KeepBoth, SetAside, Move, CopyRefused, CopyFile,
         OpenDirectory, CopyChild, CopyChildFails, EndChildren, Copied, DropSource, CleanUp,
         Undo, Restore, Commit, KeepJob
<1>2. CASE Inspect(w)
  BY <1>1, <1>2, DecisionGoes DEF BeginTransfer, Continue, Finish, Steps
<1>3. CASE NameDuplicate(w)
  BY <1>1, <1>3 DEF NameDuplicate, FreeName, Continue, Finish, Steps, RequestsOK
<1>4. CASE CopyChild(w)
  <2>1. at[w] = "children" /\ at' = [at EXCEPT ![w] = "children"] /\ decision' = decision
    BY <1>4 DEF CopyChild, TransferTypeOK
  <2>. QED
    BY <1>1, <2>1 DEF Steps
<1>5. CASE KeepBoth(w) \/ SetAside(w)
  BY <1>1, <1>5 DEF KeepBoth, SetAside, FreeName, BeginTransfer, Continue, Finish, Steps
<1>6. CASE Move(w) \/ CopyRefused(w) \/ CopyFile(w) \/ OpenDirectory(w) \/ CopyChildFails(w)
             \/ EndChildren(w)
  BY <1>1, <1>6
     DEF Move, CopyRefused, CopyFile, OpenDirectory, CopyChildFails, EndChildren, KeepJob,
         Continue, Finish, Steps
<1>7. CASE Copied(w) \/ DropSource(w) \/ CleanUp(w) \/ Undo(w) \/ Restore(w) \/ Commit(w)
  BY <1>1, <1>7
     DEF Copied, DropSource, CleanUp, Undo, Restore, Commit, KeepJob, Continue, Finish, Steps
<1>. QED
  BY <1>2, <1>3, <1>4, <1>5, <1>6, <1>7 DEF Step

(* A step writes at the source it moves, at its destination, or not at all. *)
LEMMA StepWrites ==
  ASSUME NEW w \in Workers, TransferTypeOK, RequestsOK, Step(w),
         NEW p \in Paths, p # dest[w], p = src[w] => op[w] # "move"
  PROVE  fs'[p] = fs[p]
<1>1. /\ src[w] \in Paths /\ dest[w] \in Paths /\ Absent \in Nodes /\ aside[w] \in Nodes
      /\ fs[src[w]] \in Nodes
  BY RequestTypes
<1>2. CASE \/ NameDuplicate(w) \/ Inspect(w) \/ KeepBoth(w) \/ CopyRefused(w)
           \/ CopyChildFails(w) \/ EndChildren(w) \/ Copied(w) \/ Commit(w)
  BY <1>2 DEF NameDuplicate, Inspect, KeepBoth, CopyRefused, CopyChildFails, EndChildren,
              Copied, Commit, disk
<1>3. CASE SetAside(w) \/ CopyFile(w) \/ OpenDirectory(w) \/ CopyChild(w) \/ Restore(w)
  BY <1>1, <1>3
     DEF SetAside, CopyFile, OpenDirectory, CopyChild, Restore, Put, disk, TransferTypeOK
<1>4. CASE Move(w) \/ DropSource(w)
  <2>1. op[w] = "move"
    BY <1>4 DEF Move, DropSource, RequestsOK
  <2>. QED
    BY <1>1, <1>4, <2>1 DEF Move, DropSource, Put, disk, TransferTypeOK
<1>5. CASE CleanUp(w) \/ Undo(w)
  BY <1>5, RemovedTarget DEF CleanUp, Undo
<1>. QED
  BY <1>2, <1>3, <1>4, <1>5 DEF Step

LEMMA StepTarget ==
  ASSUME NEW w \in Workers, TransferTypeOK, RequestsOK, TargetLeftAlone, Step(w)
  PROVE  TargetLeftAlone'
<1>1. PICK s \in Steps \ {"idle"} :
             /\ at' = [at EXCEPT ![w] = s]
             /\ s \in {"name", "inspect"} => decision'[w] = "none"
             /\ s = "setAside" => decision'[w] = "Replace"
  BY StepGoes
<1>2. Frozen /\ \A v \in Workers : v # w => decision'[v] = decision[v]
  BY StepGoes
<1> SUFFICES ASSUME Exists(before[Target]), \A v \in Workers : decision'[v] # "Replace"
             PROVE  /\ fs'[Target] = before[Target]
                    /\ \A v \in Workers : at'[v] \in Started \cup {"setAside"} => dest'[v] \in Siblings
  BY <1>2 DEF TargetLeftAlone, Frozen
<1>3. \A v \in Workers : v # w => dest'[v] = dest[v] /\ at'[v] = at[v]
  <2>1. \A v \in Workers : v # w => dest'[v] = dest[v]
    BY DEF Step, NameDuplicate, Inspect, KeepBoth, FreeName, SetAside, Move, CopyRefused, CopyFile,
           OpenDirectory, CopyChild, CopyChildFails, EndChildren, Copied, DropSource, CleanUp,
           Undo, Restore, Commit, KeepJob, TransferTypeOK
  <2>. QED
    BY <1>1, <2>1 DEF TransferTypeOK
<1>4. decision[w] # "Replace"
  <2>1. CASE Inspect(w)
    BY <2>1 DEF Inspect, RequestsOK
  <2>2. CASE ~Inspect(w)
    <3>1. decision' = decision
      BY <2>2 DEF Step, NameDuplicate, KeepBoth, SetAside, Move, CopyRefused, CopyFile,
           OpenDirectory, CopyChild, CopyChildFails, EndChildren, Copied, DropSource, CleanUp,
           Undo, Restore, Commit, KeepJob
    <3>. QED
      BY <3>1
  <2>. QED
    BY <2>1, <2>2
<1>5. /\ fs[Target] = before[Target]
      /\ \A v \in Workers : at[v] \in Started \cup {"setAside"} => dest[v] \in Siblings
  BY <1>2, <1>4 DEF TargetLeftAlone
<1>6. at'[w] = s
  BY <1>1 DEF TransferTypeOK
<1>7. CASE NameDuplicate(w) \/ Inspect(w) \/ KeepBoth(w)
  <2>1. fs' = fs
    BY <1>7 DEF NameDuplicate, Inspect, KeepBoth, disk
  <2>2. s \in Started \cup {"setAside"} => dest'[w] \in Siblings
    <3>1. CASE NameDuplicate(w)
      BY <3>1, <1>6, GotoGoes, FinishEnds DEF NameDuplicate, FreeName, Started, Steps
    <3>2. CASE KeepBoth(w)
      <4>1. CASE Exists(fs[dest[w]])
        BY <3>2, <4>1, <1>6, FinishEnds DEF KeepBoth, FreeName, Started, TransferTypeOK
      <4>2. CASE ~Exists(fs[dest[w]])
        BY <3>2, <4>2, <1>5 DEF KeepBoth, TransferTypeOK
      <4>. QED
        BY <4>1, <4>2
    <3>3. CASE Inspect(w)
      <4>1. dest' = dest
        BY <3>3 DEF Inspect
      <4>2. (BeginTransfer(w) /\ ~Exists(fs[dest[w]])) \/ s \in {"done", "keepBoth"}
        BY <3>3, <1>6, DecisionGoes, FinishEnds, GotoGoes DEF Steps
      <4>. QED
        BY <1>5, <4>1, <4>2 DEF Started, TransferTypeOK
    <3>. QED
      BY <1>7, <3>1, <3>2, <3>3
  <2>. QED
    BY <1>3, <1>5, <1>6, <2>1, <2>2
<1>8. CASE ~(NameDuplicate(w) \/ Inspect(w) \/ KeepBoth(w))
  <2>1. at[w] \in Started \cup {"setAside"} /\ dest' = dest
    BY <1>8 DEF Step, SetAside, Move, CopyRefused, CopyFile,
           OpenDirectory, CopyChild, CopyChildFails, EndChildren, Copied, DropSource, CleanUp,
           Undo, Restore, Commit, KeepJob, Started
  <2>2. dest[w] \in Siblings /\ dest[w] # Target
    BY <1>5, <2>1, PathsApart
  <2>3. Target = src[w] => op[w] # "move"
    BY DEF RequestsOK
  <2>4. fs'[Target] = fs[Target]
    BY <2>2, <2>3, StepWrites, PathsApart
  <2>. QED
    BY <1>3, <1>5, <2>1, <2>2, <2>4
<1>. QED
  BY <1>7, <1>8

LEMMA StepRequests ==
  ASSUME NEW w \in Workers, TransferTypeOK, RequestsOK, Step(w)
  PROVE  RequestsOK'
BY StepGoes DEF RequestsOK, Frozen, TransferTypeOK

LEMMA StepIInv ==
  ASSUME NEW w \in Workers, TransferInv, Step(w), TransferTypeOK'
  PROVE  TransferInv'
<1>1. PICK s \in Steps \ {"idle"} : at' = [at EXCEPT ![w] = s]
  BY StepGoes DEF TransferInv
<1>2. at[w] # "idle" /\ at'[w] # "idle" /\ \A v \in Workers : v # w => at'[v] = at[v]
  BY <1>1, StepGoes DEF TransferInv, TransferTypeOK
<1>3. ASSUME NEW v \in Workers, Alone(v)' PROVE PhaseOK(v)'
  <2>1. v = w /\ Alone(w)
    BY <1>2, <1>3 DEF Alone
  <2>. QED
    BY <2>1, StepPhase DEF TransferInv
<1>. QED
  BY <1>3, StepRequests, StepTarget DEF TransferInv

LEMMA CancelIInv ==
  ASSUME NEW w \in Workers, TransferInv, RequestCancel(w), TransferTypeOK'
  PROVE  TransferInv'
<1>1. UNCHANGED <<before, fs, aside, op, src, faults, dest, decision, backup, todo, at, outcome>>
  BY DEF RequestCancel, disk, asked
<1>2. RequestsOK' /\ TargetLeftAlone'
  BY <1>1 DEF TransferInv, RequestsOK, TargetLeftAlone
<1>3. ASSUME NEW v \in Workers, Alone(v)' PROVE PhaseOK(v)'
  <2>1. PhaseOK(v)
    BY <1>1, <1>3 DEF TransferInv, Alone
  <2>2. EarlyOK(v)' /\ StartedOK(v)' /\ CopyingOK(v)' /\ EndingOK(v)'
    BY <1>1, <2>1
       DEF PhaseOK, EarlyOK, StartedOK, CopyingOK, EndingOK, RestKept, SourceKept
  <2>3. OverOK(v)'
    BY <1>1, <2>1 DEF PhaseOK, OverOK, Whole, NoTrace, Exact
  <2>. QED
    BY <2>2, <2>3 DEF PhaseOK
<1>. QED
  BY <1>2, <1>3 DEF TransferInv

LEMMA CrashIInv ==
  ASSUME TransferInv, Crash, TransferTypeOK'
  PROVE  TransferInv'
<1>1. UNCHANGED <<before, fs, aside, op, src, faults, dest, decision, backup, todo, outcome>>
  BY DEF Crash, disk, asked
<1>2. \A v \in Workers : at'[v] = IF at[v] = "idle" THEN "idle" ELSE "dead"
  BY DEF Crash
<1>3. RequestsOK' /\ TargetLeftAlone'
  BY <1>1, <1>2 DEF TransferInv, RequestsOK, TargetLeftAlone, Started
<1>4. ASSUME NEW v \in Workers, Alone(v)' PROVE PhaseOK(v)'
  <2>1. PhaseOK(v)
    BY <1>2, <1>4 DEF TransferInv, Alone
  <2>2. CASE at[v] = "idle"
    BY <1>1, <1>2, <2>1, <2>2
       DEF PhaseOK, EarlyOK, StartedOK, CopyingOK, EndingOK, OverOK, Early, Started, Over
  <2>3. CASE at[v] # "idle"
    <3>1. Whole(v) /\ NoTrace(v) /\ Exact(v)
      BY <2>1, PhaseIsWhole DEF TransferInv
    <3>2. (Whole(v) /\ NoTrace(v) /\ Exact(v))'
      BY <1>1, <3>1 DEF Whole, NoTrace, Exact
    <3>. QED
      BY <1>2, <2>3, <3>2
         DEF PhaseOK, EarlyOK, StartedOK, CopyingOK, EndingOK, OverOK, Early, Started, Over
  <2>. QED
    BY <2>2, <2>3
<1>. QED
  BY <1>3, <1>4 DEF TransferInv

LEMMA StutterIInv ==
  ASSUME TransferInv, UNCHANGED transferVars
  PROVE  TransferInv'
<1>1. /\ UNCHANGED <<before, fs, aside, op, src, faults, dest, decision, backup, todo>>
      /\ UNCHANGED <<cancelled, at, outcome>>
  BY DEF transferVars, disk, asked
<1>2. TransferTypeOK' /\ RequestsOK' /\ TargetLeftAlone'
  BY <1>1 DEF TransferInv, TransferTypeOK, RequestsOK, TargetLeftAlone
<1>3. ASSUME NEW v \in Workers, Alone(v)' PROVE PhaseOK(v)'
  <2>1. PhaseOK(v)
    BY <1>1, <1>3 DEF TransferInv, Alone
  <2>2. EarlyOK(v)' /\ StartedOK(v)' /\ CopyingOK(v)' /\ EndingOK(v)'
    BY <1>1, <2>1
       DEF PhaseOK, EarlyOK, StartedOK, CopyingOK, EndingOK, RestKept, SourceKept
  <2>3. OverOK(v)'
    BY <1>1, <2>1 DEF PhaseOK, OverOK, Whole, NoTrace, Exact
  <2>. QED
    BY <2>2, <2>3 DEF PhaseOK
<1>. QED
  BY <1>2, <1>3 DEF TransferInv

LEMMA TransferInitInv == TransferInit => TransferInv
<1> SUFFICES ASSUME TransferInit PROVE TransferInv
  OBVIOUS
<1>1. ASSUME NEW p \in Sources \cup {Target} PROVE Fresh(p) \subseteq Nodes
  <2>1. PICK pieces : pieces = [of : {p}, name : Names]
    OBVIOUS
  <2>2. pieces \subseteq Pieces
    BY <2>1 DEF Pieces
  <2>3. Fresh(p) = {[dir |-> TRUE, has |-> pieces]} \cup {[dir |-> FALSE, has |-> {x}] : x \in pieces}
    BY <2>1 DEF Fresh
  <2>4. [dir |-> TRUE, has |-> pieces] \in Nodes
    BY <2>2 DEF Nodes
  <2>5. \A x \in pieces : [dir |-> FALSE, has |-> {x}] \in Nodes
    BY <2>2 DEF Nodes
  <2>. QED
    BY <2>3, <2>4, <2>5
<1>2. Absent \in Nodes
  BY DEF Absent, Nodes
<1>3. /\ before \in [Paths -> Nodes] /\ fs = before
      /\ \A p \in Siblings : before[p] = Absent
  <2>1. (UNION {Fresh(p) : p \in Sources \cup {Target}}) \cup {Absent} \subseteq Nodes
    BY <1>1, <1>2
  <2>2. before \in [Paths -> (UNION {Fresh(p) : p \in Sources \cup {Target}}) \cup {Absent}]
    BY DEF TransferInit
  <2>. QED
    BY <2>1, <2>2 DEF TransferInit
<1>4. /\ aside = [w \in Workers |-> Absent] /\ dest = [w \in Workers |-> Target]
      /\ op \in [Workers -> Operations] /\ src \in [Workers -> Sources \cup {Target}]
      /\ \A w \in Workers : src[w] = Target => op[w] = "copy"
      /\ decision = [w \in Workers |-> "none"] /\ backup = [w \in Workers |-> FALSE]
      /\ todo = [w \in Workers |-> {}] /\ cancelled = [w \in Workers |-> FALSE]
      /\ at \in [Workers -> {"idle", "name", "inspect"}]
      /\ faults \subseteq Faults /\ outcome = [w \in Workers |-> "none"]
  BY DEF TransferInit
<1>5. TransferTypeOK
  <2>1. at \in [Workers -> Steps]
    BY <1>4 DEF Steps
  <2>. QED
    BY <1>2, <1>3, <1>4, <2>1 DEF TransferTypeOK
<1>6. RequestsOK
  <2>1. ASSUME NEW w \in Workers PROVE Exists(before[src[w]])
    <3>1. CASE src[w] \in Sources
      <4>1. before[src[w]] \in Fresh(src[w])
        BY <3>1 DEF TransferInit
      <4>2. Absent.dir = FALSE /\ Absent.has = {}
        BY DEF Absent
      <4>3. CASE before[src[w]] = [dir |-> TRUE, has |-> [of : {src[w]}, name : Names]]
        BY <4>2, <4>3 DEF Exists
      <4>4. CASE \E x \in [of : {src[w]}, name : Names] :
                   before[src[w]] = [dir |-> FALSE, has |-> {x}]
        BY <4>2, <4>4 DEF Exists
      <4>. QED
        BY <4>1, <4>3, <4>4 DEF Fresh
    <3>2. CASE src[w] = Target
      BY <3>2 DEF TransferInit
    <3>. QED
      BY <1>4, <3>1, <3>2
  <2>. QED
    BY <1>3, <1>4, <2>1 DEF RequestsOK
<1>7. ASSUME NEW w \in Workers PROVE PhaseOK(w)
  BY <1>3, <1>4
     DEF PhaseOK, EarlyOK, StartedOK, CopyingOK, EndingOK, OverOK, Early, Started, Over
<1>8. TargetLeftAlone
  BY <1>3, <1>4 DEF TargetLeftAlone, Started
<1>. QED
  BY <1>5, <1>6, <1>7, <1>8 DEF TransferInv

LEMMA TransferInvariance == TransferSpec => []TransferInv
<1>1. TransferInv /\ [TransferNext]_transferVars => TransferInv'
  BY NextType, StepIInv, CancelIInv, CrashIInv, StutterIInv DEF TransferNext, TransferInv
<1>. QED
  BY TransferInitInv, <1>1, PTL DEF TransferSpec

LEMMA AlonePhase ==
  ASSUME TransferInv, NEW w \in Workers, Alone(w)
  PROVE  Whole(w) /\ NoTrace(w) /\ Exact(w)
BY PhaseIsWhole DEF TransferInv

(* Whatever fails in a transfer that is alone, whenever it is cancelled, and  *)
(* wherever the process dies: the source is whole at its own path, at the     *)
(* destination or in the backup, and so is the old target unless the source   *)
(* has replaced it by the user's choice.                                      *)
THEOREM DataStayWhole == TransferSpec => []AlwaysWhole
<1>1. TransferInv => AlwaysWhole
  BY AlonePhase DEF AlwaysWhole, Whole
<1>. QED
  BY TransferInvariance, <1>1, PTL

(* Its end is true: a failure or a cancellation leaves the file system as it  *)
(* was unless the clean-up fails, a completion changes exactly what it should.*)
THEOREM OutcomesAreTrue == TransferSpec => []OutcomeIsTrue
<1>1. TransferInv => OutcomeIsTrue
  <2> SUFFICES ASSUME TransferInv PROVE OutcomeIsTrue
    OBVIOUS
  <2>1. FailureLeavesNoTrace
    BY AlonePhase DEF FailureLeavesNoTrace, NoTrace
  <2>2. CompletionIsExact
    BY AlonePhase DEF CompletionIsExact, Exact
  <2>. QED
    BY <2>1, <2>2 DEF OutcomeIsTrue, TransferInv
<1>. QED
  BY TransferInvariance, <1>1, PTL

(* Any number of transfers to one target, with any failures, leave what was   *)
(* there as it was as long as nobody has chosen Replace.                      *)
THEOREM NothingIsOverwrittenSilently == TransferSpec => []NoSilentOverwrite
<1>1. TransferInv => NoSilentOverwrite
  BY DEF TransferInv, TargetLeftAlone, NoSilentOverwrite
<1>. QED
  BY TransferInvariance, <1>1, PTL
=============================================================================

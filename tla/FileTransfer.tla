---------------------------- MODULE FileTransfer ----------------------------
(***************************************************************************)
(* What one source of a transfer job does to the file system: the steps of *)
(* OperationManager::runJob, copyPath, movePath and removePath between two *)
(* calls of the operating system.  Each worker transfers one source; they  *)
(* share the file system, so one worker's test of a path and its use of    *)
(* that path are apart.  Any step may fail, any worker may be cancelled,   *)
(* and the process may die between two steps.                              *)
(*                                                                         *)
(* A node is a file (one piece of data) or a directory (one piece per      *)
(* child; deeper trees add nothing to the order of the steps).  A copy of  *)
(* a piece is the same piece: the properties ask where data survives.      *)
(* Qt's calls are atomic here: QFile::copy and mkdir do not replace,       *)
(* QDir::rename does not replace and fails across file systems.            *)
(***************************************************************************)
EXTENDS Naturals, FiniteSets

CONSTANTS
  Workers,    \* the transfers
  Sources,    \* the paths they may be asked to transfer
  Target,     \* the path the sources' common leaf name has in the destination
  Siblings,   \* the names uniqueSiblingPath can make of it
  Names,      \* the names of the children of a directory
  Operations, \* a subset of {"copy", "move", "duplicate"}
  Choices,    \* the answers to a conflict that are given
  Faults      \* the steps that may fail though nothing in the model forbids them

AllDecisions == {"Skip", "KeepBoth", "Replace", "Cancel"}
AllFaults == {"setaside", "rename", "copy", "drop", "dropPartly", "cleanup", "restore",
              "purge"}

ASSUME PathsAssumption ==
  /\ IsFiniteSet(Siblings)
  /\ Target \notin Sources \cup Siblings
  /\ Sources \cap Siblings = {}
ASSUME RequestsAssumption ==
  /\ Operations \subseteq {"copy", "move", "duplicate"}
  /\ Choices \subseteq AllDecisions
  /\ Faults \subseteq AllFaults

VARIABLES
  before,    \* history: the file system when the transfers were requested
  fs,        \* the node at every path but the backups
  aside,     \* the node at the worker's backup path, named by a fresh UUID
  op, src,   \* the worker's request
  dest,      \* runJob's target, which a choice of KeepBoth replaces
  decision,  \* the answer to the worker's conflict
  backup,    \* whether runJob's backup path has been set
  todo,      \* copyPath's entries that have not been copied
  cancelled, \* Job::cancelRequested
  at, outcome,
  faults     \* the steps that may fail in this behaviour, a subset of Faults

disk    == <<fs, aside>>
asked == <<op, src, faults>>
transferVars    == <<before, disk, asked, dest, decision, backup, todo, cancelled, at, outcome>>

----------------------------------------------------------------------------
Paths  == Sources \cup {Target} \cup Siblings
Pieces == [of : Sources \cup {Target}, name : Names]
Nodes  == [dir : BOOLEAN, has : SUBSET Pieces]
Absent == [dir |-> FALSE, has |-> {}]
Exists(node) == node # Absent
File(node) == Exists(node) /\ ~node.dir

\* What can be at a source or at the target: a file or a directory.
Fresh(path) ==
  LET pieces == [of : {path}, name : Names] IN
  {[dir |-> TRUE, has |-> pieces]} \cup {[dir |-> FALSE, has |-> {p}] : p \in pieces}

Steps == {"idle", "name", "inspect", "keepBoth", "setAside", "move", "copy", "children", "copied",
          "drop", "cleanup", "undo", "restore", "commit", "done", "dead"}

TransferTypeOK ==
  /\ before \in [Paths -> Nodes] /\ fs \in [Paths -> Nodes]
  /\ aside \in [Workers -> Nodes]
  /\ op \in [Workers -> Operations]
  /\ src \in [Workers -> Sources \cup {Target}]
  /\ dest \in [Workers -> {Target} \cup Siblings]
  /\ decision \in [Workers -> AllDecisions \cup {"none"}]
  /\ backup \in [Workers -> BOOLEAN]
  /\ todo \in [Workers -> SUBSET Pieces]
  /\ cancelled \in [Workers -> BOOLEAN]
  /\ at \in [Workers -> Steps]
  /\ faults \subseteq Faults
  /\ outcome \in [Workers -> {"none", "Completed", "Failed", "Cancelled"}]

TransferInit ==
  /\ before \in {f \in [Paths -> (UNION {Fresh(p) : p \in Sources \cup {Target}}) \cup {Absent}] :
                   /\ \A p \in Sources : f[p] \in Fresh(p)
                   /\ f[Target] \in Fresh(Target) \cup {Absent}
                   /\ \A p \in Siblings : f[p] = Absent}
  /\ fs = before
  /\ aside = [w \in Workers |-> Absent]
  /\ op \in [Workers -> Operations]
  \* a copy into the directory the source is in already has the target as its
  \* source; a move there is skipped before it starts
  /\ src \in {f \in [Workers -> Sources \cup {Target}] :
                \A w \in Workers : f[w] = Target => op[w] = "copy" /\ Exists(before[Target])}
  /\ dest = [w \in Workers |-> Target]
  /\ decision = [w \in Workers |-> "none"]
  /\ backup = [w \in Workers |-> FALSE]
  /\ todo = [w \in Workers |-> {}]
  /\ cancelled = [w \in Workers |-> FALSE]
  /\ at \in {f \in [Workers -> {"idle", "name", "inspect"}] :
              \A w \in Workers : f[w] # "idle" => (f[w] = "name") = (op[w] = "duplicate")}
  /\ faults \in SUBSET Faults
  /\ outcome = [w \in Workers |-> "none"]

----------------------------------------------------------------------------
Continue(w, step) == at' = [at EXCEPT ![w] = step] /\ UNCHANGED outcome
Finish(w, result) ==
  at' = [at EXCEPT ![w] = "done"] /\ outcome' = [outcome EXCEPT ![w] = result]
Put(path, node) == fs' = [fs EXCEPT ![path] = node]
KeepRequest == UNCHANGED <<before, asked, cancelled>>
KeepJob == KeepRequest /\ UNCHANGED <<dest, decision, backup, todo>>

\* runJob's call of copyPath or movePath
BeginTransfer(w) == Continue(w, IF op[w] = "move" THEN "move" ELSE "copy")

(* uniqueSiblingPath of a path that is taken: a name that is free now, or none. *)
FreeName(w, next) ==
  \/ \E s \in Siblings : /\ ~Exists(fs[s])
                         /\ dest' = [dest EXCEPT ![w] = s]
                         /\ next
  \/ /\ \A s \in Siblings : Exists(fs[s])
     /\ Finish(w, "Failed")
     /\ UNCHANGED dest

(* The duplicate of a source that is gone is the source itself: uniqueSiblingPath
   answers with its own path, and runJob counts it as completed. *)
NameDuplicate(w) ==
  /\ at[w] = "name"
  /\ \/ Exists(fs[src[w]]) /\ FreeName(w, Continue(w, "inspect"))
     \/ ~Exists(fs[src[w]]) /\ Finish(w, "Completed") /\ UNCHANGED dest
  /\ KeepRequest /\ UNCHANGED <<disk, decision, backup, todo>>

\* Mutant of Inspect: the target is taken to be free.
InspectNothing(w) ==
  /\ at[w] = "inspect"
  /\ BeginTransfer(w)
  /\ KeepRequest /\ UNCHANGED <<disk, dest, decision, backup, todo>>

(* The test of the target and, when it is taken, the user's decision.  A
   skipped source counts as completed. *)
Inspect(w) ==
  /\ at[w] = "inspect"
  /\ \/ ~Exists(fs[dest[w]]) /\ BeginTransfer(w) /\ UNCHANGED decision
     \/ /\ Exists(fs[dest[w]])
        /\ \E d \in Choices :
             /\ decision' = [decision EXCEPT ![w] = d]
             /\ CASE d = "Cancel"   -> Finish(w, "Cancelled")
                  [] d = "Skip"     -> Finish(w, "Completed")
                  [] d = "KeepBoth" -> Continue(w, "keepBoth")
                  [] d = "Replace"  -> Continue(w, "setAside")
  /\ KeepRequest /\ UNCHANGED <<disk, dest, backup, todo>>

(* A target that has become free while the user decided is used as it is. *)
KeepBoth(w) ==
  /\ at[w] = "keepBoth"
  /\ \/ Exists(fs[dest[w]]) /\ FreeName(w, BeginTransfer(w))
     \/ ~Exists(fs[dest[w]]) /\ BeginTransfer(w) /\ UNCHANGED dest
  /\ KeepRequest /\ UNCHANGED <<disk, decision, backup, todo>>

\* Mutant of SetAside: the old target is removed instead of renamed.
SetAsideByRemoval(w) ==
  /\ at[w] = "setAside"
  /\ Put(dest[w], Absent)
  /\ BeginTransfer(w)
  /\ KeepRequest /\ UNCHANGED <<aside, dest, decision, backup, todo>>

(* renamePath(target, backup) *)
SetAside(w) ==
  /\ at[w] = "setAside"
  /\ backup' = [backup EXCEPT ![w] = TRUE]
  /\ \/ /\ Exists(fs[dest[w]])
        /\ aside' = [aside EXCEPT ![w] = fs[dest[w]]]
        /\ Put(dest[w], Absent)
        /\ BeginTransfer(w)
     \/ /\ ~Exists(fs[dest[w]]) \/ "setaside" \in faults
        /\ Finish(w, "Failed")
        /\ UNCHANGED disk
  /\ KeepRequest /\ UNCHANGED <<dest, decision, todo>>

(* movePath up to its renamePath; the source and the target of a move differ. *)
Move(w) ==
  /\ at[w] = "move"
  /\ \/ cancelled[w] /\ Continue(w, "undo") /\ UNCHANGED disk
     \/ /\ ~cancelled[w] /\ Exists(fs[src[w]]) /\ ~Exists(fs[dest[w]])
        /\ fs' = [fs EXCEPT ![src[w]] = Absent, ![dest[w]] = fs[src[w]]]
        /\ Continue(w, "commit")
        /\ UNCHANGED aside
     \/ /\ ~cancelled[w]
        /\ ~Exists(fs[src[w]]) \/ Exists(fs[dest[w]]) \/ "rename" \in faults
        /\ Continue(w, "copy")
        /\ UNCHANGED disk
  /\ KeepJob

(* copyPath refuses the source itself: it failed, was cancelled or is gone;
   QFile::copy and mkpath do not replace a file. *)
CopyRefused(w) ==
  /\ at[w] = "copy"
  /\ \/ cancelled[w]
     \/ ~Exists(fs[src[w]])
     \/ IF fs[src[w]].dir THEN File(fs[dest[w]]) ELSE Exists(fs[dest[w]])
     \/ "copy" \in faults
  /\ Continue(w, "cleanup")
  /\ KeepJob /\ UNCHANGED disk

CopyFile(w) ==
  /\ at[w] = "copy" /\ ~cancelled[w]
  /\ File(fs[src[w]]) /\ ~Exists(fs[dest[w]])
  /\ Put(dest[w], fs[src[w]])
  /\ Continue(w, "copied")
  /\ KeepJob /\ UNCHANGED aside

(* copyPath of a directory: mkpath succeeds on a directory that is there. *)
OpenDirectory(w) ==
  /\ at[w] = "copy" /\ ~cancelled[w]
  /\ fs[src[w]].dir /\ ~File(fs[dest[w]])
  /\ Put(dest[w], [dir |-> TRUE, has |-> fs[dest[w]].has])
  /\ todo' = [todo EXCEPT ![w] = fs[src[w]].has]
  /\ Continue(w, "children")
  /\ KeepRequest /\ UNCHANGED <<aside, dest, decision, backup>>

(* One round of copyPath's loop over the entries it listed. *)
CopyChild(w) ==
  /\ at[w] = "children" /\ ~cancelled[w]
  /\ \E p \in todo[w] :
       /\ p \in fs[src[w]].has /\ fs[dest[w]].dir
       /\ \A q \in fs[dest[w]].has : q.name # p.name
       /\ Put(dest[w], [fs[dest[w]] EXCEPT !.has = @ \cup {p}])
       /\ todo' = [todo EXCEPT ![w] = @ \ {p}]
  /\ UNCHANGED <<aside, dest, decision, backup, at, outcome>>
  /\ KeepRequest

CopyChildFails(w) ==
  /\ at[w] = "children" /\ todo[w] # {}
  /\ \/ cancelled[w]
     \/ "copy" \in faults
     \/ ~fs[dest[w]].dir
     \/ \E p \in todo[w] : \/ p \notin fs[src[w]].has
                           \/ \E q \in fs[dest[w]].has : q.name = p.name
  /\ Continue(w, "cleanup")
  /\ KeepJob /\ UNCHANGED disk

EndChildren(w) ==
  /\ at[w] = "children" /\ todo[w] = {}
  /\ Continue(w, "copied")
  /\ KeepJob /\ UNCHANGED disk

\* Mutant of Copied: a move cancelled after the copy counts as done.
CopiedThenCancelled(w) ==
  /\ at[w] = "copied"
  /\ Continue(w, IF op[w] # "move" \/ cancelled[w] THEN "commit" ELSE "drop")
  /\ KeepJob /\ UNCHANGED disk

(* The copy is complete: movePath looks at cancelRequested once more. *)
Copied(w) ==
  /\ at[w] = "copied"
  /\ Continue(w, IF op[w] # "move" THEN "commit"
             ELSE IF cancelled[w] THEN "cleanup" ELSE "drop")
  /\ KeepJob /\ UNCHANGED disk

\* What removePath can leave of a node when it fails: a file stays, the
\* removal of a directory goes as far as it can.
Leftovers(node) ==
  IF node.dir THEN [dir : {TRUE}, has : SUBSET node.has] ELSE {node} \ {Absent}

(* movePath's removePath(source) *)
DropSource(w) ==
  /\ at[w] = "drop"
  /\ \/ Put(src[w], Absent) /\ Continue(w, "commit")
     \/ "drop" \in faults /\ UNCHANGED fs /\ Continue(w, "cleanup")
     \/ /\ "dropPartly" \in faults
        /\ \E node \in Leftovers(fs[src[w]]) : Put(src[w], node)
        /\ Continue(w, "cleanup")
  /\ KeepJob /\ UNCHANGED aside

(* removePath(target), whose failure is ignored, first in movePath or after
   copyPath, and once more in runJob when there is a backup. *)
RemoveTarget(w) ==
  \/ Put(dest[w], Absent)
  \/ "cleanup" \in faults /\ \E node \in Leftovers(fs[dest[w]]) : Put(dest[w], node)

\* Mutant of CleanUp: what has been copied stays.
CleanUpNothing(w) ==
  /\ at[w] = "cleanup"
  /\ Continue(w, "undo")
  /\ KeepJob /\ UNCHANGED disk

CleanUp(w) ==
  /\ at[w] = "cleanup"
  /\ RemoveTarget(w)
  /\ Continue(w, "undo")
  /\ KeepJob /\ UNCHANGED aside

Failure(w) == IF cancelled[w] THEN "Cancelled" ELSE "Failed"

Undo(w) ==
  /\ at[w] = "undo"
  /\ IF backup[w] THEN RemoveTarget(w) /\ Continue(w, "restore")
                  ELSE UNCHANGED fs /\ Finish(w, Failure(w))
  /\ KeepJob /\ UNCHANGED aside

(* renamePath(backup, target) *)
Restore(w) ==
  /\ at[w] = "restore"
  /\ \/ /\ ~Exists(fs[dest[w]])
        /\ Put(dest[w], aside[w])
        /\ aside' = [aside EXCEPT ![w] = Absent]
     \/ /\ Exists(fs[dest[w]]) \/ "restore" \in faults
        /\ UNCHANGED disk
  /\ Finish(w, Failure(w))
  /\ KeepJob

(* The transfer succeeded: removePath(backup). *)
Commit(w) ==
  /\ at[w] = "commit"
  /\ \/ aside' = [aside EXCEPT ![w] = Absent] /\ Finish(w, "Completed")
     \/ /\ "purge" \in faults
        /\ \E node \in Leftovers(aside[w]) : aside' = [aside EXCEPT ![w] = node]
        /\ Finish(w, "Failed")
  /\ KeepJob /\ UNCHANGED fs

RequestCancel(w) ==
  /\ at[w] \notin {"idle", "done", "dead"}
  /\ cancelled' = [cancelled EXCEPT ![w] = TRUE]
  /\ UNCHANGED <<before, disk, asked, dest, decision, backup, todo, at, outcome>>

(* The process ends; nothing in the program looks for backups afterwards. *)
Crash ==
  /\ \E w \in Workers : at[w] \notin {"idle", "done", "dead"}
  /\ at' = [w \in Workers |-> IF at[w] = "idle" THEN "idle" ELSE "dead"]
  /\ UNCHANGED <<before, disk, asked, dest, decision, backup, todo, cancelled, outcome>>

Step(w) ==
  \/ NameDuplicate(w) \/ Inspect(w) \/ KeepBoth(w) \/ SetAside(w)
  \/ Move(w) \/ CopyRefused(w) \/ CopyFile(w) \/ OpenDirectory(w) \/ CopyChild(w)
  \/ CopyChildFails(w) \/ EndChildren(w) \/ Copied(w) \/ DropSource(w)
  \/ CleanUp(w) \/ Undo(w) \/ Restore(w) \/ Commit(w)

TransferNext == (\E w \in Workers : Step(w) \/ RequestCancel(w)) \/ Crash

TransferSpec == TransferInit /\ [][TransferNext]_transferVars

----------------------------------------------------------------------------
\* The only transfer asked for in this behaviour
Alone(w) == \A v \in Workers : at[v] # "idle" => v = w

(* With one transfer at a time: whatever fails, and wherever the process dies,
   the source is whole at its own path, at the target or in the backup, and so
   is the old target unless the source has replaced it entirely.  (The removal
   of a moved directory that stops half way is the exception: NoDataLost.) *)
AlwaysWhole ==
  \A w \in Workers : Alone(w) /\ "dropPartly" \notin faults =>
    LET places == {fs[src[w]], fs[dest[w]], aside[w]}
        old    == {fs[Target], aside[w]}
    IN  /\ before[src[w]] \in places
        /\ \/ before[Target] \in old
           \/ ~Exists(before[Target])
           \/ decision[w] = "Replace" /\ fs[dest[w]] = before[src[w]]

(* A transfer that fails or is cancelled leaves the file system as it found
   it, as long as its own clean-up does not fail. *)
FailureLeavesNoTrace ==
  \A w \in Workers :
    /\ Alone(w) /\ outcome[w] \in {"Failed", "Cancelled"}
    /\ faults \cap {"dropPartly", "cleanup", "restore", "purge"} = {}
    => fs = before /\ aside[w] = Absent

(* A transfer that reports Completed did exactly what was asked: the whole
   source is at the target, gone from its own path iff it was moved, and no
   other path has changed; a skipped one changed nothing. *)
CompletionIsExact ==
  \A w \in Workers : Alone(w) /\ outcome[w] = "Completed" =>
    /\ aside[w] = Absent
    /\ IF decision[w] = "Skip" THEN fs = before
       ELSE fs = [before EXCEPT ![src[w]] = IF op[w] = "move" THEN Absent ELSE @,
                                ![dest[w]] = before[src[w]]]

(* What a job says of a transfer is what became of the files: the two
   properties, for every end it can have. *)
OutcomeIsTrue == TransferTypeOK /\ FailureLeavesNoTrace /\ CompletionIsExact

(* Transfers to the same target, in any order: what was at the target stays
   there as it was as long as nobody has chosen Replace. *)
NoSilentOverwrite ==
  Exists(before[Target]) /\ (\A w \in Workers : decision[w] # "Replace")
    => fs[Target] = before[Target]

(* No data disappears: every piece is still somewhere, unless it was at a
   target somebody chose to replace. *)
NoDataLost ==
  \A p \in UNION {before[q].has : q \in Paths} :
    \/ \E q \in Paths : p \in fs[q].has
    \/ \E w \in Workers : p \in aside[w].has
    \/ p.of = Target /\ \E w \in Workers : decision[w] = "Replace"
=============================================================================

----------------------------- MODULE TrashManager -----------------------------
(***************************************************************************)
(* The local trash: trash() and restore() of TrashManager as the calls of  *)
(* the file system they make on pool threads, and the list of the trash    *)
(* that scans on other pool threads keep up to date.  Operations run at    *)
(* the same time on the same directories, a restore acts on the entry a    *)
(* scan saw some time ago, other programs create files and empty the       *)
(* trash, every call may fail and the process may die between two calls.   *)
(*                                                                         *)
(* Files are data with a place: a path, a name in the trash, the backup    *)
(* path of a restore.  All files have the same leaf name, the case in      *)
(* which names clash; one trash directory stands for those of all volumes. *)
(* QDir::rename does not replace, NewOnly creates a file that is not there.*)
(***************************************************************************)
EXTENDS Naturals, FiniteSets

CONSTANTS
  Paths,    \* original paths
  Spares,   \* the names uniqueSiblingPath can make
  Names,    \* names in the trash's files directory
  Workers,  \* operations; a worker also names the backup path of its restore
  Data,     \* file contents
  Unborn, Gone, None,
  Decisions,  \* the RestoreDecision values given
  Others    \* bound on what happens from outside: files made, items purged, crashes

ASSUME TrashAssumption ==
  /\ Decisions \subseteq {"Skip", "KeepBoth", "Replace"}
  /\ Others \in Nat
  /\ IsFiniteSet(Workers)
\* the kinds of place are apart: Paths are outside the trash directories, and
\* backups carry a fresh UUID
ASSUME PlacesAssumption ==
  /\ Paths \cap (Spares \cup Names \cup Workers \cup {Unborn, Gone, None}) = {}
  /\ Spares \cap (Names \cup Workers \cup {Unborn, Gone, None}) = {}
  /\ Names \cap (Workers \cup {Unborn, Gone, None}) = {}
  /\ Workers \cap {Unborn, Gone, None} = {}
  /\ Unborn \notin {Gone, None} /\ Gone # None

VARIABLES
  at,       \* the place of every datum
  info,     \* the path the .trashinfo of a name holds, or None
  origin,   \* history: the path a datum was trashed from, until its restore is complete
  job,      \* the requests
  pc,       \* the steps of the workers
  failed,   \* history: an undo or clean-up step of the worker did not work
  entries, busy, scans, \* m_entries, m_busy and the scans under way or posted
  changed,  \* a change of the trash directories the watcher will still report
  unseen,   \* history: rebuildWatches dropped a report that mattered
  misled,   \* history: a restore acted on a row whose name had since been given to
            \* a file from elsewhere
  others    \* how much has happened from outside
disk  == <<at, info, origin>>
work  == <<job, pc, failed>>
list  == <<entries, busy, scans, changed, unseen>>
vars  == <<disk, work, list, misled, others>>

Places == Paths \cup Spares \cup Names \cup Workers \cup {Unborn, Gone}
Rows   == [name : Names, path : Paths \cup {None}]
NoJob  == [todo |-> {}, now |-> None, name |-> None, choice |-> "Skip", dest |-> None,
           backed |-> FALSE]
Steps  == {"idle", "locate", "rename", "inspect", "protect", "restore", "dropInfo", "moveBack",
           "unprotect", "cleanup", "report", "done", "dead"}

Exists(place) == \E d \in Data : at[d] = place
\* QDir().rename(from, to) when it works, and whether it can
CanMove(from, to) == Exists(from) /\ ~Exists(to)
Move(from, to) == at' = [d \in Data |-> IF at[d] = from THEN to ELSE at[d]]
movePath(from, to) == CanMove(from, to) /\ Move(from, to)
\* history: the data at a place come from origin
Mark(place, from) == origin' = [d \in Data |-> IF at[d] = place THEN from ELSE origin[d]]

\* Whether a list of rows shows the trash: what scanTrash reads.
scanTrash == {[name |-> n, path |-> info[n]] : n \in {m \in Names : Exists(m)}}

\* The constructor: nothing has been asked and the first scan starts.
StartUp ==
  /\ job = [w \in Workers |-> NoJob]
  /\ pc = [w \in Workers |-> "idle"]
  /\ failed = [w \in Workers |-> FALSE]
  /\ entries = {} /\ busy = TRUE
  /\ scans = {[newest |-> TRUE, read |-> FALSE, rows |-> {}]}
  /\ changed = FALSE /\ unseen = FALSE /\ misled = FALSE /\ others = 0

\* One file is in place and another there as well or in the trash since earlier.
Init ==
  /\ \E p, q \in Paths, n \in Names, c, d \in Data :
       /\ c # d
       /\ \/ /\ p # q /\ at = [x \in Data |-> CASE x = c -> p [] x = d -> q [] OTHER -> Unborn]
             /\ info = [m \in Names |-> None] /\ origin = [x \in Data |-> None]
          \/ /\ at = [x \in Data |-> CASE x = c -> p [] x = d -> n [] OTHER -> Unborn]
             /\ info = [m \in Names |-> IF m = n THEN q ELSE None]
             /\ origin = [x \in Data |-> IF x = d THEN q ELSE None]
  /\ StartUp

----------------------------------------------------------------------------
(* The list.                                                               *)

\* Scans of older generations whose result is on its way; one that has not read
\* yet will be ignored whatever it reads and is left out.
Outdated == {[s EXCEPT !.newest = FALSE] : s \in {x \in scans : x.read}}
\* refresh(): a scan of a new generation starts.
refresh ==
  /\ scans' = Outdated \cup {[newest |-> TRUE, read |-> FALSE, rows |-> {}]}
  /\ busy' = TRUE /\ unseen' = FALSE /\ UNCHANGED entries

Scan(s) ==
  /\ ~s.read
  /\ scans' = (scans \ {s}) \cup {[s EXCEPT !.read = TRUE, !.rows = scanTrash]}
  /\ UNCHANGED <<disk, work, entries, busy, changed, unseen, others>>

\* Mutant of Publish: the generation is not compared.
PublishAnyGeneration(s) ==
  /\ s.read
  /\ scans' = scans \ {s}
  /\ entries' = s.rows /\ busy' = FALSE
  /\ changed' \in {changed, FALSE}
  /\ unseen' = (unseen \/ (changed' # changed /\ s.rows # scanTrash))
  /\ UNCHANGED <<disk, work, others>>

\* The closure a scan posts: only the newest generation is shown, and then
\* rebuildWatches drops the reports the watcher has not read yet.
Publish(s) ==
  /\ s.read
  /\ scans' = scans \ {s}
  /\ IF s.newest
     THEN /\ entries' = s.rows /\ busy' = FALSE
          /\ changed' \in {changed, FALSE}
          /\ unseen' = (unseen \/ (changed' # changed /\ s.rows # scanTrash))
     ELSE UNCHANGED <<entries, busy, changed, unseen>>
  /\ UNCHANGED <<disk, work, others>>

\* The debounce timer after directoryChanged.
DebounceFires ==
  /\ changed /\ changed' = FALSE
  /\ refresh
  /\ UNCHANGED <<disk, work, others>>

----------------------------------------------------------------------------
(* Operations.                                                             *)

Goto(w, step) == pc' = [pc EXCEPT ![w] = step]
Begin(w, request, step) ==
  /\ pc[w] = "idle"
  /\ job' = [job EXCEPT ![w] = request]
  /\ Goto(w, step)
  /\ busy' = TRUE
  /\ UNCHANGED <<disk, failed, entries, scans, changed, unseen, others>>

trash(w) ==
  \E sources \in SUBSET {p \in Paths : Exists(p)} \ {{}} :
    Begin(w, [NoJob EXCEPT !.todo = sources], "locate")

\* A restore of a listed item; Skip over a file that is there only asks.
restore(w) ==
  \E e \in entries, choice \in Decisions :
    /\ ~(choice = "Skip" /\ e.path # None /\ Exists(e.path))
    /\ Begin(w, [NoJob EXCEPT !.name = e.name, !.now = e.path, !.choice = choice], "inspect")

\* The closure of an operation that ended: busy is cleared and the list read again.
Report(w) ==
  /\ pc[w] = "report" /\ Goto(w, "done")
  /\ job' = [job EXCEPT ![w] = NoJob]
  /\ refresh
  /\ UNCHANGED <<disk, failed, changed, others>>

Keep == UNCHANGED <<entries, busy, scans, unseen, others>>
Quiet == UNCHANGED changed /\ Keep
\* a step that changed a directory of the trash: the watcher will say so
Noticed == changed' = TRUE /\ Keep

\* Mutant of createTrashInfo: the name is only looked up in the files directory.
createTrashInfoOver(w) ==
  /\ pc[w] = "locate"
  /\ \E p \in job[w].todo :
       \/ /\ Goto(w, "report") /\ UNCHANGED <<disk, job, failed>> /\ Quiet
       \/ /\ Exists(p)
          /\ \E n \in {m \in Names : ~Exists(m)} :
               /\ info' = [info EXCEPT ![n] = p]
               /\ job' = [job EXCEPT ![w].now = p, ![w].name = n]
          /\ Goto(w, "rename")
          /\ UNCHANGED <<at, origin, failed>> /\ Noticed

\* The next source of a batch: locationForSource and createTrashInfo.  A name is
\* taken when neither its file nor its info is there, the info exclusively; the
\* batch ends when the source is gone or the location or the info fails.
createTrashInfo(w) ==
  /\ pc[w] = "locate"
  /\ \E p \in job[w].todo :
       \/ /\ Goto(w, "report") /\ UNCHANGED <<disk, job, failed>> /\ Quiet
       \/ /\ Exists(p)
          /\ \E n \in {m \in Names : ~Exists(m) /\ info[m] = None} :
               /\ info' = [info EXCEPT ![n] = p]
               /\ job' = [job EXCEPT ![w].now = p, ![w].name = n]
          /\ Goto(w, "rename")
          /\ UNCHANGED <<at, origin, failed>> /\ Noticed

\* The rename into the trash; when it fails the info is removed again.
moveToTrash(w) ==
  LET name == job[w].name  source == job[w].now  rest == job[w].todo \ {job[w].now} IN
  /\ pc[w] = "rename"
  /\ \/ /\ movePath(source, name) /\ Mark(source, source)
        /\ job' = [job EXCEPT ![w].todo = rest]
        /\ Goto(w, IF rest = {} THEN "report" ELSE "locate")
        /\ UNCHANGED info
     \/ /\ info' \in {info, [info EXCEPT ![name] = None]}
        /\ Goto(w, "report")
        /\ UNCHANGED <<at, origin, job>>
  /\ UNCHANGED failed /\ Noticed

\* restoreEntry up to its first rename.  An orphaned entry, a parent directory
\* that is gone and a file in the way of Skip end it.
Inspect(w) ==
  LET path == job[w].now IN
  /\ pc[w] = "inspect"
  /\ \/ Goto(w, "report") /\ UNCHANGED job
     \/ /\ path # None /\ ~Exists(path)
        /\ job' = [job EXCEPT ![w].dest = path]
        /\ Goto(w, "restore")
     \/ /\ path # None /\ Exists(path) /\ job[w].choice = "KeepBoth"
        /\ \E s \in Spares : ~Exists(s) /\ job' = [job EXCEPT ![w].dest = s]
        /\ Goto(w, "restore")
     \/ /\ path # None /\ Exists(path) /\ job[w].choice = "Replace"
        /\ job' = [job EXCEPT ![w].dest = path]
        /\ Goto(w, "protect")
  /\ UNCHANGED <<disk, failed>> /\ Quiet

\* The file in the way is set aside under a backup name.
Protect(w) ==
  /\ pc[w] = "protect"
  /\ \/ /\ movePath(job[w].dest, w)
        /\ job' = [job EXCEPT ![w].backed = TRUE]
        /\ Goto(w, "restore")
     \/ Goto(w, "report") /\ UNCHANGED <<at, job>>
  /\ UNCHANGED <<info, origin, failed>> /\ Quiet

\* Mutant of AfterUndo: a restore that failed leaves the file set aside.
AfterUndoForgetful(w) == "report"

AfterUndo(w) == IF job[w].backed THEN "unprotect" ELSE "report"

Restore(w) ==
  /\ pc[w] = "restore"
  /\ \/ /\ movePath(job[w].name, job[w].dest)
        /\ misled' = (misled \/ info[job[w].name] # job[w].now)
        /\ Goto(w, "dropInfo") /\ Noticed
     \/ Goto(w, AfterUndo(w)) /\ UNCHANGED <<at, misled>> /\ Quiet
  /\ UNCHANGED <<info, origin, job, failed>>

DropInfo(w) ==
  /\ pc[w] = "dropInfo"
  /\ \/ /\ info[job[w].name] # None
        /\ info' = [info EXCEPT ![job[w].name] = None]
        /\ Mark(job[w].dest, None)
        /\ Goto(w, IF job[w].backed THEN "cleanup" ELSE "report")
        /\ Noticed
     \/ Goto(w, "moveBack") /\ UNCHANGED <<info, origin>> /\ Quiet
  /\ UNCHANGED <<at, job, failed>>

\* The info could not be removed: the file goes back into the trash.
MoveBack(w) ==
  /\ pc[w] = "moveBack"
  /\ \/ /\ movePath(job[w].dest, job[w].name)
        /\ Goto(w, AfterUndo(w)) /\ Noticed /\ UNCHANGED failed
     \/ /\ Goto(w, "report") /\ failed' = [failed EXCEPT ![w] = TRUE]
        /\ UNCHANGED at /\ Quiet
  /\ UNCHANGED <<info, origin, job>>

\* The file set aside goes back to its path, unless that fails or it is taken.
Unprotect(w) ==
  /\ pc[w] = "unprotect" /\ Goto(w, "report")
  /\ \/ movePath(w, job[w].now) /\ UNCHANGED failed
     \/ UNCHANGED at /\ failed' = [failed EXCEPT ![w] = TRUE]
  /\ UNCHANGED <<info, origin, job>> /\ Quiet

CleanUp(w) ==
  /\ pc[w] = "cleanup" /\ Goto(w, "report")
  /\ \/ Move(w, Gone) /\ UNCHANGED failed
     \/ UNCHANGED at /\ failed' = [failed EXCEPT ![w] = TRUE]
  /\ UNCHANGED <<info, origin, job>> /\ Quiet

----------------------------------------------------------------------------
(* Everything else.                                                        *)

FromOutside == others < Others /\ others' = others + 1

\* Another program writes a new file where there is none.
Create ==
  /\ FromOutside
  /\ \E d \in Data, p \in Paths :
       /\ at[d] = Unborn /\ ~Exists(p)
       /\ at' = [at EXCEPT ![d] = p]
  /\ UNCHANGED <<info, origin, work, list>>

\* Another program removes one item from the trash.
Purge ==
  /\ FromOutside
  /\ \E n \in Names :
       /\ Exists(n)
       /\ Move(n, Gone)
       /\ info' = [info EXCEPT ![n] = None]
  /\ UNCHANGED <<origin, work>> /\ changed' = TRUE
  /\ UNCHANGED <<entries, busy, scans, unseen>>

\* The process dies and is started again.
Crash ==
  /\ FromOutside
  /\ pc' = [w \in Workers |-> IF pc[w] \in {"idle", "done"} THEN pc[w] ELSE "dead"]
  /\ entries' = {} /\ busy' = TRUE /\ changed' = FALSE /\ unseen' = FALSE
  /\ scans' = {[newest |-> TRUE, read |-> FALSE, rows |-> {}]}
  /\ UNCHANGED <<disk, job, failed>>

Next ==
  \/ /\ \/ \E s \in scans : Scan(s) \/ Publish(s)
        \/ \E w \in Workers :
             \/ trash(w) \/ restore(w) \/ Report(w)
             \/ createTrashInfo(w) \/ moveToTrash(w)
             \/ Inspect(w) \/ Protect(w) \/ DropInfo(w) \/ MoveBack(w)
             \/ Unprotect(w) \/ CleanUp(w)
        \/ DebounceFires \/ Create \/ Purge \/ Crash
     /\ UNCHANGED misled
  \/ \E w \in Workers : Restore(w)

Spec == Init /\ [][Next]_vars

----------------------------------------------------------------------------
TrashTypeOK ==
  /\ at \in [Data -> Places] /\ info \in [Names -> Paths \cup {None}]
  /\ origin \in [Data -> Paths \cup {None}]
  /\ pc \in [Workers -> Steps] /\ failed \in [Workers -> BOOLEAN]
  /\ job \in [Workers -> [todo : SUBSET Paths, now : Paths \cup {None},
                          name : Names \cup {None}, choice : Decisions \cup {"Skip"},
                          dest : Paths \cup Spares \cup {None}, backed : BOOLEAN]]
  /\ entries \subseteq Rows
  /\ scans \subseteq [newest : BOOLEAN, read : BOOLEAN, rows : SUBSET Rows]
  /\ {busy, changed, unseen, misled} \subseteq BOOLEAN /\ others \in 0..Others

Running(w) == pc[w] \notin {"idle", "done", "dead", "report"}

\* Every file in the trash, whatever ran at the same time, failed or was
\* interrupted, has an info, and it names the path the file was trashed from: the
\* info is created exclusively before the file moves and removed after it left.
\* A restore that acts on an outdated row brings a file to a path that is not its
\* own; if it is then undone, whatever is at that path goes under the wrong info.
TrashedFilesKnowTheirOrigin ==
  \A d \in Data : at[d] \in Names => /\ info[at[d]] # None
                                     /\ (misled \/ origin[d] \in {None, info[at[d]]})

\* The file a restore set aside to replace it is hidden under its backup name only
\* while the restore works: it goes back to its path or, when the restore is
\* complete, it goes; what else can keep it there is that very step failing.
NoFileStaysSetAside ==
  \A w \in Workers : Exists(w) => Running(w) \/ pc[w] = "dead" \/ failed[w]

\* No file gets lost on its way into the trash or back: the two properties.
TrashLosesNoFile == TrashTypeOK /\ TrashedFilesKnowTheirOrigin /\ NoFileStaysSetAside

\* When no operation and no scan is under way and no report of the watcher is
\* still to come, the list shows the trash as it is and is not marked busy.
SettledTrashListIsTrue ==
  (/\ \A w \in Workers : pc[w] \in {"idle", "done", "dead"}
   /\ \A s \in scans : ~s.newest
   /\ ~changed /\ ~unseen)
    => entries = scanTrash /\ ~busy
=============================================================================

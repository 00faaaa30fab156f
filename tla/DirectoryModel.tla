--------------------------- MODULE DirectoryModel ---------------------------
(***************************************************************************)
(* The listing of one local directory (src/src/fs/DirectoryModel.cpp).     *)
(*                                                                         *)
(* The object lives on the GUI thread.  scan() hands the reading of the    *)
(* directory to a pool thread and publishes what comes back only while the *)
(* model is active, the generation is still the scan's and the path is     *)
(* still the scan's.  A QFileSystemWatcher on the directory starts a 120ms *)
(* debounce timer, whose timeout scans again.                              *)
(*                                                                         *)
(* The model object is one record, `local`, so that a caller that makes    *)
(* several calls in one handler composes the operators below.  Of a        *)
(* directory's contents only the version counts.  m_generation is compared *)
(* for equality with the value a scan captured and nothing else: a scan is *)
(* `fresh` while they are equal, and ++m_generation makes every scan stale. *)
(*                                                                         *)
(* MaxScans bounds the scans in flight, and MaxChanges the changes that    *)
(* other programs make, counting the setting to show hidden files as one.  *)
(***************************************************************************)
EXTENDS Naturals, FiniteSets, Functions

CONSTANTS Dirs, Home, NoDir, MaxScans, MaxChanges

ASSUME DirsAssumption == Home \in Dirs /\ NoDir \notin Dirs
ASSUME BoundsAssumption == MaxScans \in Nat \ {0} /\ MaxChanges \in Nat

VARIABLES
    exists,    \* the directories that are on disk
    content,   \* the version of the contents of every directory
    changed,   \* a directoryChanged signal waits in the GUI thread's queue
    local      \* the DirectoryModel

diskVars == <<exists, content>>
localVars == <<exists, content, changed, local>>

-----------------------------------------------------------------------------
(* What a reader finds in a directory: the entries of one version, with or  *)
(* without the hidden ones, or the error "Folder disappeared".              *)
Listings == [of : Dirs \cup {NoDir}, found : BOOLEAN,
             version : Nat, hidden : BOOLEAN]

NoListing == [of |-> NoDir, found |-> FALSE, version |-> 0, hidden |-> FALSE]

scanDirectory(d, hidden) ==
    [of |-> d, found |-> d \in exists,
     version |-> IF d \in exists THEN content[d] ELSE 0, hidden |-> hidden]

Scans == [path : Dirs, hidden : BOOLEAN, fresh : BOOLEAN,
          finished : BOOLEAN, entries : Listings]

ModelStates == [path : Dirs, active : BOOLEAN, showHidden : BOOLEAN,
                loading : BOOLEAN, rows : Listings, scans : SUBSET Scans,
                watched : SUBSET Dirs, refreshDue : BOOLEAN]

(* ++m_generation.                                                          *)
Stale(scans) == {[s EXCEPT !.fresh = FALSE] : s \in scans}

(* Mutant of scan: the generation is not incremented.                       *)
MutScanSameGeneration(m) ==
    IF ~m.active
    THEN [m EXCEPT !.loading = FALSE]
    ELSE [m EXCEPT !.loading = TRUE,
                   !.scans = @ \cup
                       {[path |-> m.path, hidden |-> m.showHidden, fresh |-> TRUE,
                         finished |-> FALSE, entries |-> NoListing]}]

scan(m) ==
    IF ~m.active
    THEN [m EXCEPT !.loading = FALSE]
    ELSE [m EXCEPT !.loading = TRUE,
                   !.scans = Stale(@) \cup
                       {[path |-> m.path, hidden |-> m.showHidden, fresh |-> TRUE,
                         finished |-> FALSE, entries |-> NoListing]}]

watchCurrentDirectory(m) ==
    [m EXCEPT !.watched = IF m.active /\ m.path \in exists THEN {m.path} ELSE {}]

(* setPath refuses a directory that is not there and keeps the old one.     *)
setPath(m, d) ==
    IF d \notin exists \/ d = m.path THEN m
    ELSE LET moved == [m EXCEPT !.path = d]
         IN  IF m.active THEN scan(watchCurrentDirectory(moved)) ELSE moved

setActive(m, on) ==
    CASE m.active = on -> m
      [] m.active # on /\ on -> scan(watchCurrentDirectory([m EXCEPT !.active = TRUE]))
      [] m.active # on /\ ~on ->
            [m EXCEPT !.active = FALSE, !.refreshDue = FALSE, !.watched = {},
                      !.scans = Stale(@), !.loading = FALSE]

setShowHidden(m, show) ==
    IF m.showHidden = show THEN m ELSE scan([m EXCEPT !.showHidden = show])

refresh(m) == IF m.active THEN scan(m) ELSE m

(* A model that is built inactive, as a session does.                       *)
NewModel ==
    [path |-> Home, active |-> FALSE, showHidden |-> FALSE, loading |-> FALSE,
     rows |-> NoListing, scans |-> {}, watched |-> {}, refreshDue |-> FALSE]

(* Room for the scans that a handler may start (a bound of the model).      *)
RoomToScan == Cardinality(local.scans) < MaxScans

-----------------------------------------------------------------------------
(* The pool thread reads the directory; the result is then a finished       *)
(* signal in the GUI thread's queue.                                        *)
ScanReads(s) ==
    /\ s \in local.scans /\ ~s.finished
    /\ local' = [local EXCEPT !.scans = (@ \ {s}) \cup
            {[s EXCEPT !.finished = TRUE, !.entries = scanDirectory(s.path, s.hidden)]}]
    /\ UNCHANGED <<exists, content, changed>>

(* Mutant of ScanFinished: the result is published whatever its generation. *)
MutScanFinishedStale(s) ==
    /\ s \in local.scans /\ s.finished
    /\ local' = IF local.active /\ s.path = local.path
                THEN [local EXCEPT !.scans = @ \ {s}, !.rows = s.entries, !.loading = FALSE]
                ELSE [local EXCEPT !.scans = @ \ {s}]
    /\ UNCHANGED <<exists, content, changed>>

ScanFinished(s) ==
    /\ s \in local.scans /\ s.finished
    /\ local' = IF local.active /\ s.fresh /\ s.path = local.path
                THEN [local EXCEPT !.scans = @ \ {s}, !.rows = s.entries, !.loading = FALSE]
                ELSE [local EXCEPT !.scans = @ \ {s}]
    /\ UNCHANGED <<exists, content, changed>>

(* QFileSystemWatcher::directoryChanged: the debounce timer (re)starts.     *)
DirectoryChanged ==
    /\ changed
    /\ changed' = FALSE
    /\ local' = [local EXCEPT !.refreshDue = @ \/ local.active]
    /\ UNCHANGED diskVars

(* m_refreshDebounce times out.                                             *)
RefreshTimeout ==
    /\ local.refreshDue /\ RoomToScan
    /\ local' = scan([local EXCEPT !.refreshDue = FALSE])
    /\ UNCHANGED <<exists, content, changed>>

(* A bound of the model.                                                    *)
RoomToChange ==
    FoldFunction(+, 0, content) + (IF local.showHidden THEN 1 ELSE 0) < MaxChanges

(* Another program changes the contents of directory d.                     *)
ContentChanges(d) ==
    /\ d \in exists /\ RoomToChange
    /\ content' = [content EXCEPT ![d] = @ + 1]
    /\ changed' = (changed \/ d \in local.watched)
    /\ UNCHANGED <<exists, local>>

(* Directories go away, by removal or with their file system: the watcher   *)
(* signals it and drops the watch.                                          *)
DirsVanish(gone) ==
    /\ exists' = exists \ gone
    /\ changed' = (changed \/ gone \cap local.watched # {})
    /\ local' = [local EXCEPT !.watched = @ \ gone]
    /\ UNCHANGED content

(* Directories come back, with other contents.                              *)
DirsAppear(back) ==
    /\ RoomToChange
    /\ exists' = exists \cup back
    /\ content' = [d \in Dirs |-> IF d \in back THEN content[d] + 1 ELSE content[d]]
    /\ UNCHANGED <<changed, local>>

=============================================================================

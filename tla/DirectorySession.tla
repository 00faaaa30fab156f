-------------------------- MODULE DirectorySession --------------------------
(***************************************************************************)
(* One browsing session (src/src/navigation/DirectorySession.cpp): the     *)
(* history, over a local and a remote listing of which SessionFileModel    *)
(* shows one.                                                              *)
(*                                                                         *)
(* A history entry is the location it points to (its selection and scroll  *)
(* position are left out).  MountDirs are the local directories of a file  *)
(* system that can be unmounted, MountParent the nearest directory above   *)
(* it; Shares are the locations of one network mount.  MaxHistory bounds   *)
(* the history.                                                            *)
(***************************************************************************)
EXTENDS DirectoryModel, RemoteDirectoryModel, Sequences, Ranks

CONSTANTS MountDirs, MountParent, MaxHistory

ASSUME MountAssumption ==
    /\ MountDirs \subseteq Dirs \ {Home}
    /\ MountParent \in Dirs \ MountDirs
    /\ Dirs \cap Shares = {}
    /\ MaxHistory \in Nat \ {0, 1}

VARIABLES
    history,        \* m_history
    historyIndex,   \* m_historyIndex, counted from 1
    remoteShown,    \* SessionFileModel shows the remote listing
    mounted,        \* the file system of MountDirs is mounted
    unmountNotice,  \* it was unmounted and the sessions have not recovered yet
    everGone        \* the directories that were missing at some time

placeVars == <<history, historyIndex, remoteShown>>
environment == <<mounted, unmountNotice, everGone>>
vars == <<exists, content, changed, local, far, history, historyIndex,
          remoteShown, mounted, unmountNotice, everGone>>

Locations == Dirs \cup Shares

path == history[historyIndex]

(* What SessionFileModel shows.                                             *)
ShownPath == IF remoteShown THEN far.uri ELSE local.path

(* A bound of the model: scans and sorts in flight, of both listings.       *)
Room == Cardinality(local.scans) + Cardinality(far.contexts) + Cardinality(far.sorts) < MaxScans

-----------------------------------------------------------------------------
(* applyBackendForLocation: one backend is set to the location and shown,   *)
(* the other one is stopped.                                                *)
applyBackendForLocation(p) ==
    IF p \in Shares
    THEN /\ local' = setActive(local, FALSE)
         /\ far' = setUri(far, p)
         /\ remoteShown' = TRUE
    ELSE /\ far' = cancel(far)
         /\ local' = setActive(setPath(local, p), TRUE)
         /\ remoteShown' = FALSE

(* The constructor: a history of one entry, applied.  A new tab or pane     *)
(* starts at home or where another one is.                                  *)
Init ==
    /\ exists = Dirs
    /\ content = [d \in Dirs |-> 0]
    /\ changed = FALSE
    /\ \E start \in {Home} \cup Shares :
         /\ history = <<start>>
         /\ remoteShown = (start \in Shares)
         /\ local = IF start \in Shares THEN setActive(NewModel, FALSE)
                    ELSE setActive(setPath(NewModel, start), TRUE)
         /\ far = IF start \in Shares THEN setUri(NewRemoteModel, start)
                  ELSE cancel(NewRemoteModel)
    /\ historyIndex = 1
    /\ mounted = TRUE
    /\ unmountNotice = FALSE
    /\ everGone = {}

(* navigate, from the location bar, the rail, goUp, or a folder's row.      *)
navigate(p) ==
    /\ p \in Shares \cup exists
    /\ p # path
    /\ historyIndex < MaxHistory /\ Room
    /\ history' = Append(SubSeq(history, 1, historyIndex), p)
    /\ historyIndex' = historyIndex + 1
    /\ applyBackendForLocation(p)
    /\ UNCHANGED <<exists, content, changed, environment>>

(* goBack and goForward.                                                    *)
goTo(i) ==
    /\ i \in {historyIndex - 1, historyIndex + 1} \cap (1..Len(history))
    /\ Room
    /\ historyIndex' = i
    /\ applyBackendForLocation(history[i])
    /\ UNCHANGED <<exists, content, changed, history, environment>>

(* refresh, which SessionFileModel passes to the backend that is shown.     *)
refreshShown ==
    /\ Room
    /\ IF remoteShown THEN far' = refreshRemote(far) /\ UNCHANGED local
                      ELSE local' = refresh(local) /\ UNCHANGED far
    /\ UNCHANGED <<exists, content, changed, placeVars, environment>>

(* setShowHidden, for which only the local listing scans again (hidden      *)
(* files are switched on once: a bound of the model).                       *)
toggleHidden ==
    /\ ~remoteShown /\ Room /\ RoomToChange /\ ~local.showHidden
    /\ local' = setShowHidden(local, TRUE)
    /\ UNCHANGED <<exists, content, changed, far, placeVars, environment>>

-----------------------------------------------------------------------------
(* recoverFromUnmount and recoverFromNetworkUnmount rewrite the history:    *)
(* entries inside the root go, the current one becomes the fallback unless  *)
(* the entry before it is that already.  The result is the new history and  *)
(* the new index.                                                           *)
Inside(p, root) == p \in root

Fallback(root) ==
    IF root = MountDirs /\ MountParent \in exists THEN MountParent ELSE Home

(* Mutant of rewritten: every entry inside the root becomes the fallback    *)
(* and takes the index with it, not only the current one.                   *)
MutRewrittenEveryEntry(root) ==
    LET inside == {i \in 1..Len(history) : Inside(history[i], root)}
    IN  [history |-> [i \in 1..Len(history) |->
                        IF i \in inside THEN Fallback(root) ELSE history[i]],
         index |-> CHOOSE i \in inside : \A j \in inside : j <= i]

(* Mutant of rewritten: only the current entry is looked at.                *)
MutRewrittenOnlyCurrent(root) ==
    [history |-> IF Inside(path, root)
                 THEN [history EXCEPT ![historyIndex] = Fallback(root)] ELSE history,
     index |-> historyIndex]

(* The entries that stay, by their index; the current one also as fallback. *)
Outside(root) == {i \in DOMAIN history : ~Inside(history[i], root)}

Kept(root) ==
    LET earlier == {i \in Outside(root) : i < historyIndex}
        isFallback == earlier # {} /\ history[KthOf(earlier, Cardinality(earlier))] = Fallback(root)
    IN  Outside(root) \cup {i \in {historyIndex} : ~isFallback}

rewritten(root) ==
    [history |-> [k \in 1..Cardinality(Kept(root)) |->
                    LET i == KthOf(Kept(root), k)
                    IN  IF i \in Outside(root) THEN history[i] ELSE Fallback(root)],
     index |-> RankIn(Kept(root), historyIndex)]

(* Mutant of recoverFrom: the listing is left where it is.                  *)
MutRecoverFromHistoryOnly(root) ==
    /\ Room
    /\ history' = rewritten(root).history
    /\ historyIndex' = rewritten(root).index
    /\ UNCHANGED <<local, far, remoteShown, exists, content, changed, mounted, everGone>>

recoverFrom(root) ==
    /\ Room
    /\ LET affected == \E i \in 1..Len(history) : Inside(history[i], root)
           new == rewritten(root)
       IN  IF affected
           THEN /\ history' = new.history
                /\ historyIndex' = new.index
                /\ IF Inside(path, root)
                   THEN applyBackendForLocation(new.history[new.index])
                   ELSE UNCHANGED <<local, far, remoteShown>>
           ELSE UNCHANGED <<local, far, placeVars>>
    /\ UNCHANGED <<exists, content, changed, mounted, everGone>>

-----------------------------------------------------------------------------
(* The file system is unmounted; the drive list learns of it later and has  *)
(* the sessions recover.                                                    *)
Unmount ==
    /\ mounted
    /\ DirsVanish(MountDirs)
    /\ mounted' = FALSE
    /\ unmountNotice' = TRUE
    /\ everGone' = everGone \cup MountDirs
    /\ UNCHANGED <<far, placeVars>>

Unmounted ==
    /\ unmountNotice
    /\ unmountNotice' = FALSE
    /\ recoverFrom(MountDirs)

(* The network mount is left, and the sessions recover at once.             *)
NetworkUnmounted ==
    /\ recoverFrom(Shares)
    /\ UNCHANGED unmountNotice

Mount ==
    /\ ~mounted /\ ~unmountNotice
    /\ DirsAppear(MountDirs)
    /\ mounted' = TRUE
    /\ UNCHANGED <<far, placeVars, unmountNotice, everGone>>

(* Another program removes a directory, or makes it again.                  *)
Remove(d) ==
    /\ d \in exists \ {Home, MountParent}
    /\ DirsVanish({d})
    /\ everGone' = everGone \cup {d}
    /\ UNCHANGED <<far, placeVars, mounted, unmountNotice>>

Recreate(d) ==
    /\ d \notin exists /\ (d \in MountDirs => mounted)
    /\ DirsAppear({d})
    /\ UNCHANGED <<far, placeVars, environment>>

-----------------------------------------------------------------------------
UserStep ==
    \/ \E p \in Locations : navigate(p)
    \/ \E i \in 1..MaxHistory : goTo(i)
    \/ refreshShown
    \/ toggleHidden
    \/ Unmount
    \/ Mount
    \/ NetworkUnmounted
    \/ \E d \in Dirs : Remove(d) \/ Recreate(d)

RestUnchanged == UNCHANGED <<placeVars, environment>>

LocalStep ==
    \/ \E s \in local.scans : ScanReads(s) \/ ScanFinished(s)
    \/ DirectoryChanged
    \/ RefreshTimeout

RemoteStep ==
    \/ \E c \in far.contexts : RemoteOpened(c) \/ RemoteBatch(c) \/ RemoteEnd(c) \/ RemoteClosed(c)
    \/ \E j \in far.sorts : RemoteSorted(j)

Next ==
    \/ UserStep
    \/ Unmounted
    \/ LocalStep /\ UNCHANGED far /\ RestUnchanged
    \/ \E d \in Dirs : ContentChanges(d) /\ UNCHANGED far /\ RestUnchanged
    \/ RemoteStep /\ UNCHANGED <<exists, content, changed, local>> /\ RestUnchanged

Spec == Init /\ [][Next]_vars

-----------------------------------------------------------------------------
(* Every variable has the shape that the code gives it, and the current     *)
(* entry is one of the history's.                                           *)
SessionTypeOK ==
    /\ exists \subseteq Dirs /\ Home \in exists
    /\ content \in [Dirs -> Nat]
    /\ changed \in BOOLEAN
    /\ local \in ModelStates
    /\ far \in RemoteStates
    /\ Len(history) \in 1..MaxHistory /\ historyIndex \in 1..Len(history)
    /\ history \in Seq(Locations)
    /\ remoteShown \in BOOLEAN
    /\ mounted \in BOOLEAN /\ unmountNotice \in BOOLEAN

(* When the local listing is on screen, its directory is watched and        *)
(* nothing is on its way (no scan, no signal, no debounce timer), the rows  *)
(* are those of the directory as it is now, with the hidden files shown or  *)
(* not as asked: no change of the disk, of the place or of the setting is   *)
(* ever missed, whatever scans were overtaken.                              *)
SettledListingIsCurrent ==
    (~remoteShown /\ ~local.loading /\ ~local.refreshDue /\ ~changed
        /\ local.path \in local.watched)
    => local.rows = scanDirectory(local.path, local.showHidden)

(* The rows of the remote listing are of the location it is set to, and     *)
(* once it has stopped loading on screen without an error they are all of   *)
(* them: no answer of a superseded scan gets onto the screen.  A scan that  *)
(* GIO says was cancelled, though the program has not cancelled it, leaves  *)
(* what it had shown, without an error, until the next one (cutOff).        *)
RemoteRowsAreOfTheLocation ==
    /\ far.rows.part # "none" => far.rows.of = far.uri
    /\ (remoteShown /\ ~far.loading /\ ~far.error)
          => far.cutOff \/ far.rows = [of |-> far.uri, part |-> "all"]

(* The listing on screen is of the location that the session is at, the one *)
(* that pasted and new files go to, unless that is a directory that has     *)
(* been removed: the history and the two backends never come apart          *)
(* otherwise, through any mix of navigation and recovery.                   *)
ScreenShowsThePlace == ShownPath = path \/ path \in everGone

(* After the sessions have recovered from an unmount, nothing in the        *)
(* history leads back into the file system until it is mounted again.       *)
NoWayBackIntoUnmounted ==
    (~mounted /\ ~unmountNotice)
    => \A i \in 1..Len(history) : history[i] \notin MountDirs

(* A session that is elsewhere when the file system goes keeps its place:   *)
(* the same current entry, and the same listing.                            *)
RecoveryKeepsPlace ==
    [][(unmountNotice /\ ~unmountNotice' /\ path \notin MountDirs)
        => /\ history'[historyIndex'] = history[historyIndex]
           /\ UNCHANGED <<local, far, remoteShown>>]_vars

(* While a listing is marked as being read, a scan whose result will be     *)
(* accepted is on its way: the label "READING..." never stays for nothing.  *)
ReadingHasAScan ==
    /\ local.loading => \E s \in local.scans : s.fresh /\ s.path = local.path
    /\ far.loading => \/ \E c \in far.contexts : c.current /\ c.fresh /\ ~c.superseded
                      \/ \E j \in far.sorts : j.fresh

(* What is on screen is true of where the session is: the listing and the   *)
(* place, the remote rows and their location, the label and a scan.         *)
ScreenTellsTheTruth ==
    SessionTypeOK /\ ScreenShowsThePlace /\ RemoteRowsAreOfTheLocation /\ ReadingHasAScan
=============================================================================

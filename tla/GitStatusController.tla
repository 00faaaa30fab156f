------------------------- MODULE GitStatusController -------------------------
(***************************************************************************)
(* The Git status of the folder on the screen                              *)
(* (src/src/git/GitStatusController.cpp): refreshes are debounced and run  *)
(* on pool threads, the watches are set when one has been applied, and the *)
(* folder may change at any time.                                          *)
(*                                                                         *)
(* A repository is its version, which every change of it moves on; what    *)
(* parsePorcelain makes of an output is what it says of a version.         *)
(* MaxChanges bounds the changes, MaxGenerations the refreshes and the     *)
(* changes of the folder.                                                  *)
(***************************************************************************)
EXTENDS Naturals, Sequences, FiniteSets

CONSTANTS
    Folders, NoFolder,  \* NoFolder: the path is empty, as for a remote location
    Repositories, NoRepository,
    RepositoryOf,       \* of each folder, or NoRepository
    MaxChanges, MaxGenerations

ASSUME StatusAssumption ==
    /\ NoFolder \notin Folders /\ NoRepository \notin Repositories
    /\ RepositoryOf \in [Folders -> Repositories \cup {NoRepository}]
    /\ {MaxChanges, MaxGenerations} \subseteq Nat

VARIABLES
    path, shown,
    refreshing,         \* m_loading
    statusGeneration,   \* m_generation
    debounce,           \* m_refreshDebounce is active
    watched,            \* the folder whose repository m_gitWatcher watches, or NoFolder
    refreshes,          \* the threads that were started
    results,            \* what they posted, to be applied
    version,            \* of each repository
    reported,           \* the watcher's report waits for the GUI thread
    due                 \* history: the version when a refresh was last called for

statusVars == <<path, shown, refreshing, statusGeneration, debounce, watched, refreshes,
                results, version, reported, due>>

(* A status shown or to be applied.  failed: with an error, or marked as    *)
(* truncated.  broken is history: its git was ended by a signal, and the    *)
(* status is what it had said by then.                                      *)
NoStatus == [of |-> NoFolder, version |-> 0, failed |-> FALSE, broken |-> FALSE]

StatusInit ==
    /\ path = NoFolder /\ shown = NoStatus
    /\ refreshing = FALSE /\ statusGeneration = 0
    /\ debounce = FALSE /\ watched = NoFolder /\ refreshes = <<>> /\ results = <<>>
    /\ version = [r \in Repositories |-> 0] /\ reported = FALSE /\ due = 0

RepositoryAt(folder) == IF folder = NoFolder THEN NoRepository ELSE RepositoryOf[folder]
VersionAt(folder) ==
    IF RepositoryAt(folder) = NoRepository THEN 0 ELSE version[RepositoryAt(folder)]
Ended == [step |-> "done", token |-> TRUE, path |-> NoFolder, generation |-> 0, version |-> 0]
TokensSet == [t \in DOMAIN refreshes |-> [refreshes[t] EXCEPT !.token = TRUE]]

-----------------------------------------------------------------------------
(* setPath, with clearVisibleState, which also takes the watches.           *)
setPath(folder) ==
    /\ path # folder /\ statusGeneration < MaxGenerations
    /\ path' = folder
    /\ statusGeneration' = statusGeneration + 1
    /\ refreshes' = TokensSet
    /\ shown' = NoStatus /\ refreshing' = FALSE /\ watched' = NoFolder /\ reported' = FALSE
    /\ debounce' = (folder # NoFolder)
    /\ due' = VersionAt(folder)
    /\ UNCHANGED <<results, version>>

(* refresh and scheduleRefresh.                                             *)
scheduleRefresh ==
    /\ path # NoFolder /\ debounce' = TRUE /\ due' = VersionAt(path)

requestRefresh ==
    /\ scheduleRefresh
    /\ UNCHANGED <<path, shown, refreshing, statusGeneration, watched, refreshes, results,
                   version, reported>>

(* QFileSystemWatcher's signals.                                            *)
Reported ==
    /\ reported /\ reported' = FALSE
    /\ scheduleRefresh
    /\ UNCHANGED <<path, shown, refreshing, statusGeneration, watched, refreshes, results,
                   version>>

(* startRefresh, when the debounce ends.                                    *)
startRefresh ==
    /\ debounce /\ statusGeneration < MaxGenerations
    /\ debounce' = FALSE
    /\ statusGeneration' = statusGeneration + 1
    /\ refreshes' = Append(TokensSet, [step |-> "start", token |-> FALSE, path |-> path,
                                     generation |-> statusGeneration + 1, version |-> 0])
    /\ refreshing' = TRUE
    /\ shown' = [shown EXCEPT !.failed = FALSE]
    /\ UNCHANGED <<path, watched, results, version, reported, due>>

(* collectStatus: git reads the repository at some time; a token that is    *)
(* set ends it without a word, and git may fail, run too long or say too    *)
(* much.  A git that a signal ended is no error: what it had said counts.   *)
ReadStatus(t) ==
    /\ refreshes[t].step = "start"
    /\ refreshes' = [refreshes EXCEPT ![t].step = "read",
                     ![t].version = VersionAt(refreshes[t].path)]
    /\ UNCHANGED <<path, shown, refreshing, statusGeneration, debounce, watched, results,
                   version, reported, due>>

collectStatus(t) ==
    /\ refreshes[t].step = "read"
    /\ refreshes' = [refreshes EXCEPT ![t] = Ended]
    /\ IF refreshes[t].token THEN UNCHANGED results
       ELSE \E outcome \in {"read", "failed", "broken"} :
              /\ outcome # "read" => RepositoryAt(refreshes[t].path) # NoRepository
              /\ results' = Append(results, [generation |-> refreshes[t].generation,
                    of |-> refreshes[t].path, version |-> refreshes[t].version,
                    failed |-> outcome = "failed", broken |-> outcome = "broken"])
    /\ UNCHANGED <<path, shown, refreshing, statusGeneration, debounce, watched, version,
                   reported, due>>

(* Mutant of applyResult: a result of the path is taken, whatever refresh   *)
(* it is from.                                                              *)
applyStatusOfPath(post) ==
    IF post.of # path
    THEN UNCHANGED <<shown, refreshing, watched, reported>>
    ELSE /\ shown' = [of |-> post.of, version |-> post.version, failed |-> post.failed,
                      broken |-> post.broken]
         /\ refreshing' = FALSE
         /\ watched' = IF RepositoryAt(path) = NoRepository THEN NoFolder ELSE path
         /\ reported' = FALSE

(* applyResult, with updateWatchPaths: all watches are set anew, and what   *)
(* the old ones had to report is lost.                                      *)
applyStatus(post) ==
    IF post.generation # statusGeneration \/ post.of # path
    THEN UNCHANGED <<shown, refreshing, watched, reported>>
    ELSE /\ shown' = [of |-> post.of, version |-> post.version, failed |-> post.failed,
                      broken |-> post.broken]
         /\ refreshing' = FALSE
         /\ watched' = IF RepositoryAt(path) = NoRepository THEN NoFolder ELSE path
         /\ reported' = FALSE

ApplyStatus ==
    /\ results # <<>>
    /\ results' = Tail(results)
    /\ applyStatus(Head(results))
    /\ UNCHANGED <<path, statusGeneration, debounce, refreshes, version, due>>

(* A repository changes; the watches see the folder's entries, HEAD and the *)
(* index, not what is written into a file or below.                         *)
Change(r, visible) ==
    /\ version[r] < MaxChanges
    /\ version' = [version EXCEPT ![r] = @ + 1]
    /\ reported' = (reported \/ (visible /\ RepositoryAt(watched) = r))
    /\ UNCHANGED <<path, shown, refreshing, statusGeneration, debounce, watched, refreshes,
                   results, due>>

StatusNext ==
    \/ \E folder \in Folders \cup {NoFolder} : setPath(folder)
    \/ requestRefresh \/ Reported \/ startRefresh \/ ApplyStatus
    \/ \E t \in DOMAIN refreshes : ReadStatus(t) \/ collectStatus(t)
    \/ \E r \in Repositories, visible \in BOOLEAN : Change(r, visible)

StatusSpec == StatusInit /\ [][StatusNext]_statusVars

-----------------------------------------------------------------------------
(* What is shown is of the folder on the screen, and once nothing is under  *)
(* way it is no older than the last call for a refresh: by the folder, the  *)
(* user, an operation that ended or the watcher (generation, refreshPath    *)
(* and the debounce).  It may still be the rest of a git that was killed,   *)
(* which is shown without an error; a refresh that ends well replaces it.   *)
Settled == ~refreshing /\ ~debounce /\ path # NoFolder

StatusIsOfTheFolder ==
    /\ shown # NoStatus => shown.of = path
    /\ Settled => /\ shown.of = path
                  /\ shown.failed \/ shown.broken \/ shown.version >= due

(* While it is loading, a thread goes on or its result waits.               *)
LoadingHasAThread ==
    refreshing => \/ \E t \in DOMAIN refreshes : refreshes[t].generation = statusGeneration
               \/ \E i \in DOMAIN results : results[i].generation = statusGeneration

(* Both, so that the chip neither shows another folder's status nor waits   *)
(* for one that will not come.                                              *)
StatusTellsTheTruth == StatusIsOfTheFolder /\ LoadingHasAThread
=============================================================================

--------------------------- MODULE PreviewLoader ---------------------------
(***************************************************************************)
(* The preview loaders (media, image, font and, with its page, PDF: they   *)
(* have one shape) over one lane of the scheduler.  A change of the        *)
(* selection withdraws the loader's request, clears what is shown and arms *)
(* a debounce timer; the timer submits a request whose callback carries    *)
(* the generation and the path it was made for.                            *)
(***************************************************************************)
EXTENDS PreviewScheduler

CONSTANTS
  Paths,       \* files that have a preview (isCandidate)
  NoPath,      \* no selection, or a file without a preview
  MaxChanges   \* bound: changes of all selections together
ASSUME NoPathAssumption == NoPath \notin Paths /\ MaxChanges \in Nat

VARIABLES
  path, active, generation,  \* m_path, m_active, m_generation
  debounce,                  \* m_debounce is running
  loading,                   \* m_loading
  result,                    \* the path whose preview or error is shown, or "busy"
  ticket                     \* per request: what its callback captured

loaderVars == <<path, active, generation, debounce, loading, result, ticket>>
allVars    == <<laneVars, loaderVars>>

Nothing == "nothing"
Busy    == "Preview queue is busy"

LoaderTypeOK ==
  /\ LaneTypeOK
  /\ path \in [Owners -> Paths \cup {NoPath}]
  /\ active \in [Owners -> BOOLEAN] /\ debounce \in [Owners -> BOOLEAN]
  /\ loading \in [Owners -> BOOLEAN]
  /\ generation \in [Owners -> Nat]
  /\ result \in [Owners -> Paths \cup {Nothing, Busy}]
  /\ ticket \in [Ids -> [generation : Nat, path : Paths \cup {NoPath}]]

LoaderInit ==
  /\ LaneInit
  /\ path = [o \in Owners |-> NoPath]
  /\ active \in [Owners -> BOOLEAN]   \* the views bind it as they are built
  /\ generation = [o \in Owners |-> 0]
  /\ debounce = [o \in Owners |-> FALSE]
  /\ loading = [o \in Owners |-> FALSE]
  /\ result = [o \in Owners |-> Nothing]
  /\ ticket = [i \in Ids |-> [generation |-> 0, path |-> NoPath]]

Changes == FoldFunction(+, 0, generation)

Wanted(o) == active[o] /\ path[o] # NoPath

\* Mutant of ScheduleLoad: what is shown stays until the new preview comes.
ScheduleLoadKeeping(o) ==
  /\ Changes < MaxChanges
  /\ generation' = [generation EXCEPT ![o] = @ + 1]
  /\ CancelOwner(o)
  /\ loading' = [loading EXCEPT ![o] = FALSE]
  /\ debounce' = [debounce EXCEPT ![o] = active'[o] /\ path'[o] # NoPath]
  /\ UNCHANGED <<result, ticket>>

(* scheduleLoad, after path or active has changed *)
ScheduleLoad(o) ==
  /\ Changes < MaxChanges
  /\ generation' = [generation EXCEPT ![o] = @ + 1]
  /\ CancelOwner(o)
  /\ loading' = [loading EXCEPT ![o] = FALSE]
  /\ result' = [result EXCEPT ![o] = Nothing]
  /\ debounce' = [debounce EXCEPT ![o] = active'[o] /\ path'[o] # NoPath]
  /\ UNCHANGED ticket

SetPath(o, p) ==
  /\ path[o] # p
  /\ path' = [path EXCEPT ![o] = p]
  /\ UNCHANGED active
  /\ ScheduleLoad(o)

SetActive(o) ==
  /\ active' = [active EXCEPT ![o] = ~@]
  /\ UNCHANGED path
  /\ ScheduleLoad(o)

(* setMetadataOnly: another request for the same file *)
SetMetadataOnly(o) ==
  /\ UNCHANGED <<path, active>>
  /\ ScheduleLoad(o)

\* Mutant of StartLoad: a refused loader goes on showing that it loads.
StartLoadSpinning(o) ==
  /\ debounce[o]
  /\ debounce' = [debounce EXCEPT ![o] = FALSE]
  /\ Wanted(o)
  /\ loading' = [loading EXCEPT ![o] = TRUE]
  /\ \/ /\ Submit(o)
        /\ ticket' = [i \in Ids |-> IF requests'[i] # requests[i]
                                      THEN [generation |-> generation[o], path |-> path[o]]
                                      ELSE ticket[i]]
        /\ UNCHANGED result
     \/ ~Admits /\ result' = [result EXCEPT ![o] = Busy] /\ UNCHANGED <<laneVars, ticket>>
  /\ UNCHANGED <<path, active, generation>>

(* startLoad, when the debounce timer fires; bound: an id is left *)
StartLoad(o) ==
  /\ debounce[o]
  /\ debounce' = [debounce EXCEPT ![o] = FALSE]
  /\ \/ ~Wanted(o) /\ UNCHANGED <<laneVars, loading, result, ticket>>
     \/ /\ Wanted(o)
        /\ Submit(o)
        /\ loading' = [loading EXCEPT ![o] = TRUE]
        /\ ticket' = [i \in Ids |-> IF requests'[i] # requests[i]
                                      THEN [generation |-> generation[o], path |-> path[o]]
                                      ELSE ticket[i]]
        /\ UNCHANGED result
     \/ /\ Wanted(o) /\ ~Admits
        /\ loading' = [loading EXCEPT ![o] = FALSE]
        /\ result' = [result EXCEPT ![o] = Busy]
        /\ UNCHANGED <<laneVars, ticket>>
  /\ UNCHANGED <<path, active, generation>>

(* The callbacks of the requests a signal has answered: each shows its preview
   or its error, unless the loader has moved on. *)
Callbacks ==
  LET answered == {i \in Ids : Waiting(i) /\ requests'[i].status \in {"ok", "failed"}}
      current(i) == LET o == requests[i].owner
                    IN ticket[i].generation = generation[o] /\ ticket[i].path = path[o] /\ active[o]
      delivered(o) == {i \in answered : requests[i].owner = o /\ current(i)}
  IN  /\ loading' = [o \in Owners |-> loading[o] /\ delivered(o) = {}]
      /\ result' = [o \in Owners |-> IF delivered(o) = {} THEN result[o]
                                     ELSE ticket[CHOOSE i \in delivered(o) : TRUE].path]

Deliver ==
  /\ Signals
  /\ Callbacks
  /\ UNCHANGED <<path, active, generation, debounce, ticket>>

LoaderNext ==
  \/ \E o \in Owners : \/ \E p \in Paths \cup {NoPath} : SetPath(o, p)
                       \/ SetActive(o) \/ SetMetadataOnly(o) \/ StartLoad(o)
  \/ Deliver
  \/ Helper /\ UNCHANGED loaderVars

LoaderSpec == LoaderInit /\ [][LoaderNext]_allVars

(* The event loop delivers what is due; a started process reports and a timer
   fires in the end.  Nothing is assumed of the helper. *)
FairLoaderSpec == LoaderSpec /\ WF_allVars(Deliver)

----------------------------------------------------------------------------
(* An old preview never stands for a newer selection, although answers of
   withdrawn and of retried requests are still under way. *)
PreviewMatchesSelection ==
  \A o \in Owners : result[o] # Nothing =>
    /\ active[o] /\ ~debounce[o]
    /\ result[o] \in {path[o], Busy}

(* The loading state is never left over: it is shown exactly while the
   scheduler holds a request of the loader for its current generation. *)
SpinnerHasWork ==
  \A o \in Owners :
    loading[o] <=> \E i \in Ids : /\ Waiting(i) /\ requests[i].owner = o
                                  /\ ticket[i].generation = generation[o]

(* Nobody waits in vain for a preview: a spinner has a request, a request has
   its place in the lane and a process or a timer that moves it on, and none
   keeps the lane to itself (NothingForgotten, TriedTwiceAtMost). *)
WaitingIsNotInVain ==
  LoaderTypeOK /\ SpinnerHasWork /\ NothingForgotten /\ TriedTwiceAtMost
=============================================================================

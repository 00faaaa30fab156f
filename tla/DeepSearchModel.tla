--------------------------- MODULE DeepSearchModel ---------------------------
(***************************************************************************)
(* Deep search (src/src/search/DeepSearchModel.cpp): every search runs on  *)
(* a pool thread, and what it posts is applied by the GUI thread in order, *)
(* while the user starts others, cancels and clears.                       *)
(*                                                                         *)
(* The tree does not change.  Below a root, Children gives the entries of  *)
(* a folder and Matching those whose name has the text of a query.         *)
(* MaxSearches bounds the searches that are started.                       *)
(***************************************************************************)
EXTENDS Naturals, Sequences, SequencesExt, FiniteSets

CONSTANTS
    Entries, Directories, Children, Queries, Matching,
    SearchRoots,    \* the folders that are searched; those not in Directories are gone
    BatchSize, MaxResults, MaxVisitedEntries, ProgressStride,
    MaxSearches

(* The entries below a folder, at any depth: those in every set that has    *)
(* its entries and, with a folder, the entries of that.                     *)
Below(folder) ==
    {e \in Entries :
        \A reached \in SUBSET Entries :
            /\ Children[folder] \subseteq reached
            /\ \A f \in reached \cap Directories : Children[f] \subseteq reached
            => e \in reached}

(* The directories are a tree, as far as the search follows it (symbolic    *)
(* links are not followed).                                                 *)
ASSUME SearchAssumption ==
    /\ IsFiniteSet(Entries) /\ "" \notin Directories
    /\ Children \in [Directories -> SUBSET Entries]
    /\ \A f, g \in Directories : f # g => Children[f] \cap Children[g] = {}
    /\ \A f \in Directories : f \notin Below(f)
    /\ Matching \in [Queries -> SUBSET Entries]
    /\ MaxResults \in Nat \ {0}
    /\ {BatchSize, MaxVisitedEntries, ProgressStride, MaxSearches} \subseteq Nat

VARIABLES
    search,             \* what the model shows; results are the rows
    searchGeneration,   \* m_generation
    runs,               \* the searches that were started, by generation
    searchPosts,        \* what waits for the GUI thread
    searchStopping      \* m_stopping

searchVars == <<search, searchGeneration, runs, searchPosts, searchStopping>>

NoSearch == [root |-> "", query |-> "", running |-> FALSE, cancelled |-> FALSE,
             truncated |-> FALSE, error |-> FALSE, visited |-> 0, results |-> {}]

SearchInit ==
    /\ search = NoSearch /\ searchGeneration = 0 /\ runs = <<>> /\ searchPosts = <<>>
    /\ searchStopping = FALSE

-----------------------------------------------------------------------------
(* The GUI thread.  A new generation sets the token of the one before.      *)
TokenSet == [g \in DOMAIN runs |-> [runs[g] EXCEPT !.token = TRUE]]

clear ==
    /\ ~searchStopping
    /\ search' = NoSearch
    /\ searchGeneration' = searchGeneration + 1
    /\ runs' = Append(TokenSet, [alive |-> FALSE, token |-> TRUE])
    /\ UNCHANGED <<searchPosts, searchStopping>>

(* start with a root that is remote or gone, after a clear.                 *)
startFailed(root, query) ==
    /\ root \notin Directories
    /\ search' = [NoSearch EXCEPT !.root = root, !.query = query, !.error = TRUE]
    /\ runs' = Append(TokenSet, [alive |-> FALSE, token |-> TRUE])

startRunning(root, query) ==
    /\ root \in Directories
    /\ search' = [NoSearch EXCEPT !.root = root, !.query = query, !.running = TRUE]
    /\ runs' = Append(TokenSet,
                 [alive |-> TRUE, token |-> FALSE, root |-> root, query |-> query,
                  pending |-> <<root>>, left |-> {}, batch |-> {}, found |-> 0,
                  visited |-> 0, lastProgress |-> 0, truncated |-> FALSE])

(* start; with an empty query it is clear.                                  *)
start(root, query) ==
    /\ ~searchStopping
    /\ searchGeneration' = searchGeneration + 1
    /\ startFailed(root, query) \/ startRunning(root, query)
    /\ UNCHANGED <<searchPosts, searchStopping>>

cancelSearch ==
    /\ ~searchStopping /\ search.running
    /\ search' = [search EXCEPT !.running = FALSE, !.cancelled = TRUE]
    /\ searchGeneration' = searchGeneration + 1
    /\ runs' = Append(TokenSet, [alive |-> FALSE, token |-> TRUE])
    /\ UNCHANGED <<searchPosts, searchStopping>>

(* appendBatch, publishProgress and finishSearch.                           *)
AtLeast(n, m) == IF n > m THEN n ELSE m

(* Mutant of appendBatch: batches of any search are appended.               *)
appendAnyBatch(post) ==
    search' = [search EXCEPT !.results = @ \cup post.batch, !.visited = AtLeast(post.visited, @)]

appendBatch(post) ==
    search' = IF post.generation # searchGeneration \/ post.batch = {} THEN search
              ELSE [search EXCEPT !.results = @ \cup post.batch,
                                  !.visited = AtLeast(post.visited, @)]

publishProgress(post) ==
    search' = IF post.generation # searchGeneration THEN search
              ELSE [search EXCEPT !.visited = AtLeast(post.visited, @)]

finishSearch(post) ==
    search' = IF post.generation # searchGeneration THEN search
              ELSE [search EXCEPT !.running = FALSE, !.cancelled = FALSE,
                                  !.truncated = post.truncated, !.visited = post.visited]

Deliver ==
    /\ ~searchStopping /\ searchPosts # <<>>
    /\ searchPosts' = Tail(searchPosts)
    /\ \/ Head(searchPosts).what = "batch" /\ appendBatch(Head(searchPosts))
       \/ Head(searchPosts).what = "progress" /\ publishProgress(Head(searchPosts))
       \/ Head(searchPosts).what = "finish" /\ finishSearch(Head(searchPosts))
    /\ UNCHANGED <<searchGeneration, runs, searchStopping>>

(* The destructor, which waits for the threads; what they post is lost.     *)
DestroySearch ==
    /\ ~searchStopping
    /\ searchStopping' = TRUE
    /\ runs' = TokenSet
    /\ UNCHANGED <<search, searchGeneration, searchPosts>>

-----------------------------------------------------------------------------
(* A thread.                                                                *)
Post(g, what, r) ==
    [what |-> what, generation |-> g, batch |-> r.batch, visited |-> r.visited,
     truncated |-> r.truncated]

Goes(g) == runs[g].alive /\ ~runs[g].token

NextFolder(g) ==
    /\ Goes(g)
    /\ runs[g].left = {} /\ runs[g].pending # <<>> /\ ~runs[g].truncated
    /\ runs' = [runs EXCEPT ![g].pending = Front(@), ![g].left = Children[Last(runs[g].pending)]]
    /\ UNCHANGED <<search, searchGeneration, searchPosts, searchStopping>>

(* What a visit makes of the search, before it posts.                       *)
VisitOf(r, e) ==
    LET match == e \in Matching[r.query]
        found == IF match THEN r.found + 1 ELSE r.found
        full == match /\ found >= MaxResults
        truncated == full \/ r.visited + 1 >= MaxVisitedEntries
    IN [r EXCEPT !.visited = @ + 1, !.found = found,
                 !.batch = IF match THEN @ \cup {e} ELSE @,
                 !.truncated = truncated, !.left = IF truncated THEN {} ELSE @ \ {e},
                 !.pending = IF ~full /\ e \in Directories THEN Append(@, e) ELSE @]

Flushed(r) == IF Cardinality(r.batch) >= BatchSize THEN [r EXCEPT !.batch = {}] ELSE r
ReportsProgress(r) == ~r.truncated /\ r.visited - r.lastProgress >= ProgressStride

Visit(g, e) ==
    LET r == VisitOf(runs[g], e)
    IN /\ Goes(g) /\ e \in runs[g].left
       /\ searchPosts' =
            searchPosts \o (IF Flushed(r) # r THEN <<Post(g, "batch", r)>> ELSE <<>>)
                        \o (IF ReportsProgress(r) THEN <<Post(g, "progress", r)>> ELSE <<>>)
       /\ runs' = [runs EXCEPT ![g] = IF ReportsProgress(r)
                                      THEN [Flushed(r) EXCEPT !.lastProgress = r.visited]
                                      ELSE Flushed(r)]
       /\ UNCHANGED <<search, searchGeneration, searchStopping>>

Finish(g) ==
    /\ Goes(g) /\ runs[g].left = {} /\ (runs[g].pending = <<>> \/ runs[g].truncated)
    /\ searchPosts' =
         searchPosts \o (IF runs[g].batch = {} THEN <<>> ELSE <<Post(g, "batch", runs[g])>>)
                     \o <<Post(g, "finish", runs[g])>>
    /\ runs' = [runs EXCEPT ![g] = [alive |-> FALSE, token |-> FALSE]]
    /\ UNCHANGED <<search, searchGeneration, searchStopping>>

(* It sees that it was cancelled.                                           *)
Stop(g) ==
    /\ runs[g].alive /\ runs[g].token
    /\ runs' = [runs EXCEPT ![g] = [alive |-> FALSE, token |-> TRUE]]
    /\ UNCHANGED <<search, searchGeneration, searchPosts, searchStopping>>

Searching(g) == NextFolder(g) \/ (\E e \in Entries : Visit(g, e)) \/ Finish(g) \/ Stop(g)

SearchNext ==
    \/ Len(runs) < MaxSearches
       /\ \/ clear \/ cancelSearch
          \/ \E root \in SearchRoots, query \in Queries : start(root, query)
    \/ Deliver
    \/ DestroySearch
    \/ \E g \in DOMAIN runs : Searching(g)

SearchSpec == SearchInit /\ [][SearchNext]_searchVars

-----------------------------------------------------------------------------
Matches ==
    IF search.root \in Directories THEN Below(search.root) \cap Matching[search.query] ELSE {}

(* The rows always belong to the search that is shown, whatever earlier     *)
(* threads still post; and when it has neither been cancelled nor truncated *)
(* and is no longer running, they are all its matches (generation, and the  *)
(* last batch before finishSearch).                                         *)
RowsAreTheSearchs ==
    /\ search.results \subseteq Matches
    /\ (~search.running /\ ~search.cancelled /\ ~search.truncated) => search.results = Matches
    /\ search.truncated => \/ Cardinality(search.results) >= MaxResults
                           \/ search.visited >= MaxVisitedEntries
    /\ Cardinality(search.results) <= MaxResults

(* A search that is shown as running has a thread that goes on, or its end  *)
(* waits to be delivered (m_running, the token and finishSearch).           *)
RunningSearchHasAThread ==
    search.running /\ ~searchStopping =>
        \/ Goes(searchGeneration)
        \/ \E i \in DOMAIN searchPosts :
             searchPosts[i].what = "finish" /\ searchPosts[i].generation = searchGeneration

(* Both, so that the panel neither shows what was not asked for nor         *)
(* searches for ever.                                                       *)
SearchTellsTheTruth == RowsAreTheSearchs /\ RunningSearchHasAThread
=============================================================================

------------------------ MODULE RemoteDirectoryModel ------------------------
(***************************************************************************)
(* The listing of one network location                                     *)
(* (src/src/locations/RemoteDirectoryModel.cpp).                           *)
(*                                                                         *)
(* A scan is a chain of GIO calls on one ScanContext, each answered on the *)
(* GUI thread: open the enumerator, fetch batches of 128 entries until one *)
(* is empty, close the enumerator; the entries are then sorted on a pool   *)
(* thread and applied.  The first batch is shown at once.  A scan that was *)
(* superseded keeps running until its next answer, and is thrown away.     *)
(*                                                                         *)
(* The model object is one record, `far`.  Of a scan's entries only the    *)
(* location and how much of it was read count.  `current` says that the    *)
(* context is m_scan, `fresh` that its generation is still m_generation.   *)
(***************************************************************************)
EXTENDS Naturals, FiniteSets

CONSTANTS Shares, NoShare

ASSUME SharesAssumption == NoShare \notin Shares

VARIABLE far    \* the RemoteDirectoryModel

-----------------------------------------------------------------------------
Parts == {"none", "first", "all"}

Entries == [of : Shares \cup {NoShare}, part : Parts]

NoEntries == [of |-> NoShare, part |-> "none"]

Contexts == [uri : Shares, fresh : BOOLEAN, current : BOOLEAN, superseded : BOOLEAN,
             published : BOOLEAN, stage : {"opening", "batches", "closing"},
             failed : BOOLEAN, cancelled : BOOLEAN]

Sorts == [entries : Entries, fresh : BOOLEAN, failed : BOOLEAN]

(* cutOff is history: the scan that is shown ended by a cancellation that   *)
(* the program has not asked for.                                           *)
RemoteStates == [uri : Shares \cup {NoShare}, loading : BOOLEAN, error : BOOLEAN,
                 rows : Entries, contexts : SUBSET Contexts, sorts : SUBSET Sorts,
                 cutOff : BOOLEAN]

NewRemoteModel ==
    [uri |-> NoShare, loading |-> FALSE, error |-> FALSE, rows |-> NoEntries,
     contexts |-> {}, sorts |-> {}, cutOff |-> FALSE]

(* ++m_generation.                                                          *)
NextGeneration(m) ==
    [m EXCEPT !.contexts = {[c EXCEPT !.fresh = FALSE] : c \in @},
              !.sorts = {[j EXCEPT !.fresh = FALSE] : j \in @}]

supersedeCurrentScan(m) ==
    [m EXCEPT !.contexts =
        {IF c.current THEN [c EXCEPT !.current = FALSE, !.superseded = TRUE] ELSE c : c \in @}]

startScan(m) ==
    LET n == NextGeneration(supersedeCurrentScan(m))
    IN  [n EXCEPT !.error = FALSE, !.loading = TRUE, !.cutOff = FALSE,
                  !.contexts = @ \cup
                      {[uri |-> n.uri, fresh |-> TRUE, current |-> TRUE, superseded |-> FALSE,
                        published |-> FALSE, stage |-> "opening",
                        failed |-> FALSE, cancelled |-> FALSE]}]

refreshRemote(m) == IF m.uri = NoShare THEN m ELSE startScan(m)

setUri(m, u) ==
    IF u = m.uri THEN refreshRemote(m)
    ELSE startScan([supersedeCurrentScan(m) EXCEPT !.uri = u, !.rows = NoEntries, !.error = FALSE])

(* Mutant of cancel: loading is reset only when a scan is there to cancel.  *)
MutCancelKeepsLoading(m) ==
    IF \E c \in m.contexts : c.current
    THEN [NextGeneration(supersedeCurrentScan(m)) EXCEPT !.loading = FALSE, !.cutOff = FALSE]
    ELSE NextGeneration(m)

cancel(m) ==
    [NextGeneration(supersedeCurrentScan(m)) EXCEPT !.loading = FALSE, !.cutOff = FALSE]

-----------------------------------------------------------------------------
(* The context's place in m's set of contexts.                              *)
With(m, c, d) == [m EXCEPT !.contexts = (@ \ {c}) \cup {d}]
Closed(m, c) == [m EXCEPT !.contexts = @ \ {c}]

(* finishAfterClose: the end of a context, which sorts its entries or drops *)
(* them.                                                                    *)
finishAfterClose(m, c) ==
    IF c.current /\ c.fresh /\ ~c.superseded
    THEN IF c.cancelled
         THEN [Closed(m, c) EXCEPT !.loading = FALSE, !.cutOff = TRUE]
         ELSE [Closed(m, c) EXCEPT !.sorts = @ \cup
                 {[entries |-> [of |-> c.uri,
                                part |-> IF ~c.failed THEN "all"
                                         ELSE IF c.published THEN "first" ELSE "none"],
                   fresh |-> TRUE, failed |-> c.failed]}]
    ELSE Closed(m, c)

(* finishEnumeration on an open enumerator: it is closed first.             *)
finishEnumeration(m, old, c, failed, cancelled) ==
    With(m, old, [c EXCEPT !.stage = "closing", !.failed = failed /\ ~c.superseded,
                           !.cancelled = cancelled \/ c.superseded])

requestNextBatch(m, old, c) ==
    IF c.current /\ c.fresh /\ ~c.superseded
    THEN With(m, old, [c EXCEPT !.stage = "batches"])
    ELSE finishEnumeration(m, old, [c EXCEPT !.superseded = TRUE], FALSE, TRUE)

(* Mutant of publishInitialEntries: the generation is not compared.         *)
MutPublishInitialEntriesStale(m, c) == [m EXCEPT !.rows = [of |-> c.uri, part |-> "first"]]

publishInitialEntries(m, c) ==
    IF c.fresh THEN [m EXCEPT !.rows = [of |-> c.uri, part |-> "first"]] ELSE m

-----------------------------------------------------------------------------
(* g_file_enumerate_children_async answers: the enumerator, or an error,    *)
(* which may be a cancellation, asked for by the program or by others (the  *)
(* text of an error counts only if it is none).                             *)
RemoteOpened(c) ==
    /\ c \in far.contexts /\ c.stage = "opening"
    /\ \/ far' = requestNextBatch(far, c, c)
       \/ \E cancelled \in BOOLEAN :
            LET d == [c EXCEPT !.failed = ~cancelled, !.cancelled = cancelled \/ c.superseded]
            IN  far' = finishAfterClose(With(far, c, d), d)

(* g_file_enumerator_next_files_async answers with entries.                 *)
RemoteBatch(c) ==
    /\ c \in far.contexts /\ c.stage = "batches"
    /\ LET shown == IF c.published THEN far ELSE publishInitialEntries(far, c)
       IN  far' = requestNextBatch(shown, c, [c EXCEPT !.published = TRUE])

(* ... with the end of the directory, or an error or a cancellation.        *)
RemoteEnd(c) ==
    /\ c \in far.contexts /\ c.stage = "batches"
    /\ \/ far' = finishEnumeration(far, c, c, FALSE, FALSE)
       \/ \E cancelled \in BOOLEAN : far' = finishEnumeration(far, c, c, ~cancelled, cancelled)

RemoteClosed(c) ==
    /\ c \in far.contexts /\ c.stage = "closing"
    /\ far' = finishAfterClose(far, c)

(* The sort has ended: the entries are applied if they are still wanted.    *)
RemoteSorted(j) ==
    /\ j \in far.sorts
    /\ far' = IF j.fresh
              THEN [far EXCEPT !.sorts = @ \ {j}, !.rows = j.entries,
                               !.error = j.failed, !.loading = FALSE]
              ELSE [far EXCEPT !.sorts = @ \ {j}]

=============================================================================

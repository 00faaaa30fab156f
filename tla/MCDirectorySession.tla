------------------------- MODULE MCDirectorySession -------------------------
(* The instance of DirectorySession for TLC: the shares are interchangeable, *)
(* and of a scan that was overtaken it only matters that it is still there   *)
(* and how far it is, since its answers are dropped (ScanFinished,           *)
(* publishInitialEntries, finishAfterClose, RemoteSorted).                   *)
EXTENDS DirectorySession, TLC

SharesAreAlike == Permutations(Shares)

Fresh(all) == {x \in all : x.fresh}

Finished(scans) == [f \in BOOLEAN |-> Cardinality({s \in scans : s.finished = f})]

Overtaken(contexts, stages) ==
    [s \in stages |-> Cardinality({c \in contexts \ Fresh(contexts) : c.stage = s})]

WhatMatters ==
    <<exists, content, changed, history, historyIndex, remoteShown, mounted,
      unmountNotice, everGone,
      [local EXCEPT !.scans = <<Fresh(@), Finished(@ \ Fresh(@))>>],
      [far EXCEPT !.contexts = <<Fresh(@), Overtaken(@, {"opening", "batches", "closing"})>>,
                  !.sorts = <<Fresh(@), Cardinality(@)>>]>>
=============================================================================

-------------------------------- MODULE Ranks --------------------------------
(***************************************************************************)
(* What a loop over a queue or a list keeps, in its order: the kept        *)
(* indices, counted from the first.                                        *)
(***************************************************************************)
EXTENDS Naturals, FiniteSets, Sequences

RankIn(indices, i) == Cardinality({j \in indices : j <= i})
KthOf(indices, k)  == CHOOSE i \in indices : RankIn(indices, i) = k

(* What stays of a sequence when some of its elements are left out.         *)
Without(s, dropped) ==
  LET kept == {i \in DOMAIN s : s[i] \notin dropped}
  IN  [k \in 1 .. Cardinality(kept) |-> s[KthOf(kept, k)]]
==============================================================================

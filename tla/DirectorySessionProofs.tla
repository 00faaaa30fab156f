----------------------- MODULE DirectorySessionProofs -----------------------
(***************************************************************************)
(* Proofs about DirectorySession and its two listings, for any number of   *)
(* directories, shares, scans, changes on disk and entries of the history. *)
(* SessionInv is inductive.  Of the local listing it says that a scan not  *)
(* overtaken is of the place and settings of the model and that what it    *)
(* will miss is announced by the watch or the timer; of the remote one     *)
(* that one answer at most is fresh, and loading has one.  Recovery is     *)
(* about ranks: KthOf enumerates the entries it keeps in their order.      *)
(***************************************************************************)
EXTENDS DirectorySession, FiniteSetTheorems, TLAPS

-----------------------------------------------------------------------------
(* The order of indices, with which recovery rewrites the history.          *)

LEMMA UpToIsFinite ==
    ASSUME NEW n \in Nat, NEW S \in SUBSET (1..n), NEW i \in Nat
    PROVE  IsFiniteSet(S) /\ IsFiniteSet({j \in S : j <= i})
<1>1. IsFiniteSet(1..n)
  BY FS_Interval
<1>2. IsFiniteSet(S)
  BY <1>1, FS_Subset
<1>3. {j \in S : j <= i} \in SUBSET S
  BY Zenon
<1> QED
  BY <1>2, <1>3, FS_Subset

LEMMA RankType ==
    ASSUME NEW n \in Nat, NEW S \in SUBSET (1..n), NEW i \in Nat
    PROVE  RankIn(S, i) \in 0..Cardinality(S) /\ Cardinality(S) \in 0..n
<1> DEFINE A == {j \in S : j <= i}
<1>1. IsFiniteSet(1..n) /\ Cardinality(1..n) = n
  BY FS_Interval
<1>2. IsFiniteSet(S) /\ Cardinality(S) <= n /\ Cardinality(S) \in Nat
  BY <1>1, FS_Subset, FS_CardinalityType
<1>3. A \in SUBSET S
  BY Zenon
<1>4. Cardinality(A) = RankIn(S, i)
  BY DEF RankIn
<1> HIDE DEF A
<1>5. Cardinality(A) \in Nat /\ Cardinality(A) <= Cardinality(S)
  BY <1>2, <1>3, FS_Subset, FS_CardinalityType
<1> QED
  BY <1>2, <1>4, <1>5

LEMMA RankIncreases ==
    ASSUME NEW n \in Nat, NEW S \in SUBSET (1..n), NEW i \in S, NEW j \in S, i < j
    PROVE  RankIn(S, i) < RankIn(S, j)
<1> DEFINE A == {l \in S : l <= i}  B == {l \in S : l <= j}
<1>0. i \in Nat /\ j \in Nat /\ \A l \in S : l \in Nat
  OBVIOUS
<1>1. A \in SUBSET B
  <2>1. ASSUME NEW l \in A PROVE l \in B
    BY <1>0, <2>1
  <2> QED  BY <2>1
<1>2. j \in B /\ j \notin A
  BY <1>0
<1>3. IsFiniteSet(A) /\ IsFiniteSet(B)
  BY <1>0, UpToIsFinite, Zenon
<1>4. RankIn(S, i) = Cardinality(A) /\ RankIn(S, j) = Cardinality(B)
  BY DEF RankIn
<1> HIDE DEF A, B
<1>5. Cardinality(A) \in Nat /\ Cardinality(B) \in Nat
  BY <1>3, FS_CardinalityType
<1>6. Cardinality(A) <= Cardinality(B) /\ Cardinality(A) # Cardinality(B)
  BY <1>1, <1>2, <1>3, FS_Subset
<1> QED
  BY <1>4, <1>5, <1>6

LEMMA RankIsPositive ==
    ASSUME NEW n \in Nat, NEW S \in SUBSET (1..n), NEW i \in 1..n, NEW j \in S, j <= i
    PROVE  RankIn(S, i) \in 1..Cardinality(S)
<1> DEFINE B == {l \in S : l <= i}
<1>0. i \in Nat
  OBVIOUS
<1>1. IsFiniteSet(B)
  BY <1>0, UpToIsFinite, Zenon
<1>2. B # {}
  OBVIOUS
<1>3. Cardinality(B) # 0 
  <2> HIDE DEF B
  <2> QED  BY <1>1, <1>2, FS_EmptySet
<1>4. RankIn(S, i) \in 0..Cardinality(S) /\ Cardinality(S) \in Nat
  BY <1>0, RankType
<1> QED
  BY <1>3, <1>4 DEF RankIn

(* Every rank is that of one index.                                         *)
LEMMA KthIsThere ==
    ASSUME NEW n \in Nat, NEW S \in SUBSET (1..n), NEW k \in 1..Cardinality(S)
    PROVE  KthOf(S, k) \in S /\ RankIn(S, KthOf(S, k)) = k
<1> DEFINE f == [i \in S |-> RankIn(S, i)]
<1>1. IsFiniteSet(S) /\ Cardinality(S) \in Nat
  <2> 0 \in Nat
    OBVIOUS
  <2> QED  BY UpToIsFinite, FS_CardinalityType
<1>2. IsFiniteSet(1..Cardinality(S)) /\ Cardinality(1..Cardinality(S)) = Cardinality(S)
  BY <1>1, FS_Interval
<1>3. f \in [S -> 1..Cardinality(S)]
  <2>1. ASSUME NEW i \in S PROVE RankIn(S, i) \in 1..Cardinality(S)
    BY RankIsPositive
  <2> QED  BY <2>1
<1>4. \A i, j \in S : f[i] = f[j] => i = j
  <2> TAKE i \in S
  <2> TAKE j \in S
  <2>0. i \in Nat /\ j \in Nat
    OBVIOUS
  <2>1. f[i] = RankIn(S, i) /\ f[j] = RankIn(S, j) /\ RankIn(S, i) \in Nat /\ RankIn(S, j) \in Nat
    BY <2>0, RankType
  <2>2. i < j => RankIn(S, i) < RankIn(S, j)
    BY RankIncreases
  <2>3. j < i => RankIn(S, j) < RankIn(S, i)
    BY RankIncreases
  <2> QED  BY <2>0, <2>1, <2>2, <2>3
<1>5. f \in Injection(S, 1..Cardinality(S))
  <2> HIDE DEF f
  <2> QED  BY <1>3, <1>4 DEF Injection, IsInjective
<1>6. f \in Surjection(S, 1..Cardinality(S))
  <2> HIDE DEF f
  <2> QED  BY <1>2, <1>5, FS_Injection
<1>7. PICK i \in S : f[i] = k
  <2> HIDE DEF f
  <2> QED  BY <1>6 DEF Surjection
<1>8. RankIn(S, i) = k
  BY <1>7
<1> QED
  BY <1>8 DEF KthOf

LEMMA KthOfRank ==
    ASSUME NEW n \in Nat, NEW S \in SUBSET (1..n), NEW i \in S
    PROVE  KthOf(S, RankIn(S, i)) = i
<1> DEFINE k == RankIn(S, i)  j == KthOf(S, k)
<1>1. k \in 1..Cardinality(S)
  BY RankIsPositive
<1>2. j \in S /\ RankIn(S, j) = k
  BY <1>1, KthIsThere
<1> HIDE DEF j
<1>3. i \in Nat /\ j \in Nat
  BY <1>2
<1>4. RankIn(S, i) \in Nat /\ RankIn(S, j) = RankIn(S, i)
  BY <1>2, <1>3, RankType
<1>5. i < j => RankIn(S, i) < RankIn(S, j)
  BY <1>2, RankIncreases
<1>6. j < i => RankIn(S, j) < RankIn(S, i)
  BY <1>2, RankIncreases
<1>7. j = i
  BY <1>3, <1>4, <1>5, <1>6
<1> QED
  BY <1>7 DEF j

-----------------------------------------------------------------------------
(* The local listing.  The scan that counts is the only fresh one; it is of *)
(* the place and the setting the model has now, and what it has read, or    *)
(* what is shown already, is the directory as it is as long as no signal    *)
(* of a change is on its way.                                               *)
Watches(m) ==
    /\ m.watched \subseteq {m.path} \cap exists
    /\ ~m.active => m.watched = {}

FreshScanIsOfThePlace(m) ==
    \A s \in m.scans : s.fresh =>
        m.active /\ m.loading /\ s.path = m.path /\ s.hidden = m.showHidden

OneFreshScan(m) == \A s, t \in m.scans : s.fresh /\ t.fresh => s = t

LoadingHasAScan(m) == m.loading => \E s \in m.scans : s.fresh

UpToDate(m) ==
    ~changed /\ ~m.refreshDue /\ m.path \in m.watched =>
        /\ \A s \in m.scans :
              s.fresh /\ s.finished => s.entries = scanDirectory(m.path, m.showHidden)
        /\ ~m.loading => m.rows = scanDirectory(m.path, m.showHidden)

GoodModel(m) ==
    /\ m \in ModelStates
    /\ Watches(m) /\ FreshScanIsOfThePlace(m) /\ OneFreshScan(m)
    /\ LoadingHasAScan(m) /\ UpToDate(m)

(* What a model must be for a scan to make it good.                         *)
ScanCanStart(m) ==
    /\ m \in ModelStates /\ Watches(m)
    /\ ~m.active => \A s \in m.scans : ~s.fresh

NewScan(m) == [path |-> m.path, hidden |-> m.showHidden, fresh |-> TRUE,
               finished |-> FALSE, entries |-> NoListing]

LEMMA StaleScans ==
    ASSUME NEW S \in SUBSET Scans
    PROVE  Stale(S) \in SUBSET Scans /\ \A s \in Stale(S) : ~s.fresh
<1>1. ASSUME NEW s \in S PROVE [s EXCEPT !.fresh = FALSE] \in Scans /\ ~[s EXCEPT !.fresh = FALSE].fresh
  BY DEF Scans
<1> QED
  BY <1>1 DEF Stale

LEMMA ScanWhenActive ==
    ASSUME NEW m \in ModelStates, m.active
    PROVE  /\ scan(m) = [m EXCEPT !.loading = TRUE, !.scans = Stale(m.scans) \cup {NewScan(m)}]
           /\ scan(m) \in ModelStates
<1>1. NewScan(m) \in Scans
  BY DEF NewScan, Scans, ModelStates, NoListing, Listings
<1>2. Stale(m.scans) \cup {NewScan(m)} \in SUBSET Scans
  BY <1>1, StaleScans DEF ModelStates
<1>3. scan(m) = [m EXCEPT !.loading = TRUE, !.scans = Stale(m.scans) \cup {NewScan(m)}]
  BY DEF scan, NewScan, ModelStates
<1> QED
  BY <1>2, <1>3 DEF ModelStates

LEMMA ScanMakesGood ==
    ASSUME NEW m, ScanCanStart(m)
    PROVE  GoodModel(scan(m)) /\ scan(m).active = m.active /\ scan(m).path = m.path
<1>1. CASE ~m.active
  <2>1. scan(m) = [m EXCEPT !.loading = FALSE]
    BY <1>1 DEF scan
  <2>2. scan(m) \in ModelStates
    BY <2>1 DEF ScanCanStart, ModelStates
  <2>3. \A s \in m.scans : ~s.fresh
    BY <1>1 DEF ScanCanStart
  <2>4. /\ scan(m).active = m.active /\ scan(m).path = m.path /\ scan(m).scans = m.scans
        /\ scan(m).watched = {} /\ ~scan(m).loading
    BY <1>1, <2>1 DEF ScanCanStart, ModelStates, Watches
  <2> QED
    BY <1>1, <2>2, <2>3, <2>4 DEF GoodModel, Watches, FreshScanIsOfThePlace, OneFreshScan,
         LoadingHasAScan, UpToDate
<1>2. CASE m.active
  <2> DEFINE n == scan(m)
  <2>1. n = [m EXCEPT !.loading = TRUE, !.scans = Stale(m.scans) \cup {NewScan(m)}] /\ n \in ModelStates
    BY <1>2, ScanWhenActive DEF ScanCanStart
  <2>2. /\ n.path = m.path /\ n.active = m.active /\ n.showHidden = m.showHidden
        /\ n.loading /\ n.watched = m.watched
        /\ n.scans = Stale(m.scans) \cup {NewScan(m)}
    BY <2>1 DEF ScanCanStart, ModelStates
  <2> HIDE DEF n
  <2>3. \A s \in n.scans : s.fresh => s = NewScan(m)
    BY <2>2, StaleScans DEF ScanCanStart, ModelStates
  <2>4. Watches(n)
    BY <2>2 DEF ScanCanStart, Watches
  <2>5. FreshScanIsOfThePlace(n)
    BY <1>2, <2>2, <2>3 DEF FreshScanIsOfThePlace, NewScan
  <2>6. OneFreshScan(n)
    BY <2>3 DEF OneFreshScan
  <2>7. LoadingHasAScan(n)
    <3>1. NewScan(m).fresh
      BY DEF NewScan
    <3> QED  BY <2>2, <3>1 DEF LoadingHasAScan
  <2>8. UpToDate(n)
    BY <2>2, <2>3 DEF UpToDate, NewScan
  <2> QED
    BY <2>1, <2>2, <2>4, <2>5, <2>6, <2>7, <2>8 DEF GoodModel, n
<1> QED
  BY <1>1, <1>2 DEF ScanCanStart, ModelStates

LEMMA GoodCanScan ==
    ASSUME NEW m, GoodModel(m)
    PROVE  ScanCanStart(m)
BY DEF GoodModel, ScanCanStart, FreshScanIsOfThePlace

LEMMA WatchingCanScan ==
    ASSUME NEW m \in ModelStates, ~m.active => \A s \in m.scans : ~s.fresh
    PROVE  /\ ScanCanStart(watchCurrentDirectory(m))
           /\ watchCurrentDirectory(m).active = m.active
           /\ watchCurrentDirectory(m).path = m.path
<1> DEFINE w == IF m.active /\ m.path \in exists THEN {m.path} ELSE {}
           n == [m EXCEPT !.watched = w]
<1>1. n = watchCurrentDirectory(m)
  BY DEF watchCurrentDirectory
<1>2. w \in SUBSET Dirs
  BY DEF ModelStates
<1>3. n \in ModelStates /\ n.watched = w /\ n.active = m.active /\ n.path = m.path /\ n.scans = m.scans
  <2> HIDE DEF w
  <2> QED  BY <1>2 DEF ModelStates
<1> HIDE DEF n
<1>4. Watches(n)
  BY <1>3 DEF Watches
<1> QED
  BY <1>1, <1>3, <1>4 DEF ScanCanStart

LEMMA SetPathKeepsGood ==
    ASSUME NEW m, GoodModel(m), NEW d \in Dirs
    PROVE  /\ GoodModel(setPath(m, d)) /\ setPath(m, d).active = m.active
           /\ d \in exists => setPath(m, d).path = d
<1>1. CASE d \notin exists \/ d = m.path
  BY <1>1 DEF setPath
<1>2. CASE d \in exists /\ d # m.path
  <2> DEFINE n == [m EXCEPT !.path = d]
  <2>1. /\ n \in ModelStates /\ n.path = d /\ n.active = m.active /\ n.scans = m.scans
        /\ n.watched = m.watched /\ n.loading = m.loading
    BY DEF GoodModel, ModelStates
  <2>2. setPath(m, d) = IF m.active THEN scan(watchCurrentDirectory(n)) ELSE n
    BY <1>2 DEF setPath
  <2> HIDE DEF n
  <2>3. CASE m.active
    BY <2>1, <2>2, <2>3, WatchingCanScan, ScanMakesGood
  <2>4. CASE ~m.active
    <3>1. m.watched = {} /\ \A s \in m.scans : ~s.fresh
      BY <2>4 DEF GoodModel, Watches, FreshScanIsOfThePlace
    <3>2. ~m.loading
      BY <3>1 DEF GoodModel, LoadingHasAScan
    <3>3. GoodModel(n)
      BY <2>1, <2>4, <3>1, <3>2 DEF GoodModel, Watches, FreshScanIsOfThePlace, OneFreshScan,
           LoadingHasAScan, UpToDate
    <3> QED
      BY <2>1, <2>2, <2>4, <3>3
  <2> QED
    BY <2>3, <2>4
<1> QED
  BY <1>1, <1>2

LEMMA SetActiveKeepsGood ==
    ASSUME NEW m, GoodModel(m), NEW on \in BOOLEAN
    PROVE  /\ GoodModel(setActive(m, on)) /\ setActive(m, on).active = on
           /\ setActive(m, on).path = m.path
<1>0. m \in ModelStates /\ m.active \in BOOLEAN
  BY DEF GoodModel, ModelStates
<1>1. CASE m.active = on
  BY <1>1 DEF setActive
<1>2. CASE ~m.active /\ on
  <2> DEFINE n == [m EXCEPT !.active = TRUE]
  <2>1. n \in ModelStates /\ n.path = m.path /\ n.active
    BY <1>0 DEF ModelStates
  <2>2. setActive(m, on) = scan(watchCurrentDirectory(n))
    BY <1>2 DEF setActive
  <2> HIDE DEF n
  <2> QED
    BY <1>2, <2>1, <2>2, WatchingCanScan, ScanMakesGood
<1>3. CASE m.active /\ ~on
  <2> DEFINE n == [m EXCEPT !.active = FALSE, !.refreshDue = FALSE, !.watched = {},
                            !.scans = Stale(m.scans), !.loading = FALSE]
  <2>1. setActive(m, on) = n
    BY <1>0, <1>3 DEF setActive
  <2>2. Stale(m.scans) \in SUBSET Scans /\ \A s \in Stale(m.scans) : ~s.fresh
    BY <1>0, StaleScans DEF ModelStates
  <2>3. n \in ModelStates
    BY <1>0, <2>2 DEF ModelStates
  <2>4. n.path = m.path /\ ~n.active /\ n.watched = {} /\ n.scans = Stale(m.scans) /\ ~n.loading
    BY <1>0 DEF ModelStates
  <2> HIDE DEF n
  <2>5. GoodModel(n)
    BY <2>2, <2>3, <2>4 DEF GoodModel, Watches, FreshScanIsOfThePlace, OneFreshScan,
         LoadingHasAScan, UpToDate
  <2>6. n.active = on
    BY <1>3, <2>3, <2>4 DEF ModelStates
  <2> QED
    BY <2>1, <2>4, <2>5, <2>6
<1> QED
  BY <1>0, <1>1, <1>2, <1>3

LEMMA SetShowHiddenKeepsGood ==
    ASSUME NEW m, GoodModel(m), NEW show \in BOOLEAN
    PROVE  /\ GoodModel(setShowHidden(m, show)) /\ setShowHidden(m, show).active = m.active
           /\ setShowHidden(m, show).path = m.path
<1>1. CASE m.showHidden = show
  BY <1>1 DEF setShowHidden
<1>2. CASE m.showHidden # show
  <2> DEFINE n == [m EXCEPT !.showHidden = show]
  <2>1. /\ n \in ModelStates /\ n.path = m.path /\ n.active = m.active /\ n.scans = m.scans
        /\ n.watched = m.watched
    BY DEF GoodModel, ModelStates
  <2>2. setShowHidden(m, show) = scan(n)
    BY <1>2 DEF setShowHidden
  <2> HIDE DEF n
  <2>3. ScanCanStart(n)
    BY <2>1, GoodCanScan DEF ScanCanStart, Watches
  <2> QED
    BY <2>1, <2>2, <2>3, ScanMakesGood
<1> QED
  BY <1>1, <1>2

LEMMA RefreshKeepsGood ==
    ASSUME NEW m, GoodModel(m)
    PROVE  GoodModel(refresh(m)) /\ refresh(m).active = m.active /\ refresh(m).path = m.path
BY GoodCanScan, ScanMakesGood DEF refresh

LocalInv == GoodModel(local)

LEMMA LocalCall ==
    ASSUME NEW m, GoodModel(m), local' = m, UNCHANGED <<exists, content, changed>>
    PROVE  LocalInv'
<1>1. m \in ModelStates /\ Watches(m) /\ FreshScanIsOfThePlace(m) /\ OneFreshScan(m)
      /\ LoadingHasAScan(m) /\ UpToDate(m)
  BY DEF GoodModel
<1>2. Watches(local)'
  BY <1>1 DEF Watches
<1>3. FreshScanIsOfThePlace(local)' /\ OneFreshScan(local)' /\ LoadingHasAScan(local)'
  BY <1>1 DEF FreshScanIsOfThePlace, OneFreshScan, LoadingHasAScan
<1>4. UpToDate(local)'
  BY <1>1 DEF UpToDate, scanDirectory
<1> QED
  BY <1>1, <1>2, <1>3, <1>4 DEF LocalInv, GoodModel, ModelStates

LEMMA ScanReadsKeepsLocal ==
    ASSUME LocalInv, content \in [Dirs -> Nat], NEW s, ScanReads(s)
    PROVE  LocalInv' /\ local'.active = local.active /\ local'.path = local.path
<1> DEFINE t == [s EXCEPT !.finished = TRUE, !.entries = scanDirectory(s.path, s.hidden)]
           n == [local EXCEPT !.scans = (local.scans \ {s}) \cup {t}]
<1>1. s \in Scans /\ s \in local.scans /\ local \in ModelStates
  BY DEF LocalInv, GoodModel, ModelStates, ScanReads
<1>2. scanDirectory(s.path, s.hidden) \in Listings
  BY <1>1 DEF scanDirectory, Scans, Listings
<1>3. t \in Scans /\ t.fresh = s.fresh /\ t.path = s.path /\ t.hidden = s.hidden
      /\ t.entries = scanDirectory(s.path, s.hidden)
  BY <1>1, <1>2 DEF Scans
<1>4. local' = n
  BY DEF ScanReads
<1> HIDE DEF t
<1>5. n \in ModelStates
  BY <1>1, <1>3 DEF ModelStates
<1>6. /\ n.path = local.path /\ n.active = local.active /\ n.showHidden = local.showHidden
      /\ n.loading = local.loading /\ n.watched = local.watched /\ n.rows = local.rows
      /\ n.refreshDue = local.refreshDue
      /\ n.scans = (local.scans \ {s}) \cup {t}
  BY <1>1 DEF ModelStates
<1> HIDE DEF n
<1>7. Watches(n)
  BY <1>6 DEF LocalInv, GoodModel, Watches
<1>8. FreshScanIsOfThePlace(n)
  BY <1>1, <1>3, <1>6 DEF LocalInv, GoodModel, FreshScanIsOfThePlace
<1>9. OneFreshScan(n)
  BY <1>1, <1>3, <1>6 DEF LocalInv, GoodModel, OneFreshScan
<1>10. LoadingHasAScan(n)
  BY <1>1, <1>3, <1>6 DEF LocalInv, GoodModel, LoadingHasAScan
<1>11. UpToDate(n)
  <2>1. t.fresh => t.entries = scanDirectory(local.path, local.showHidden)
    BY <1>1, <1>3 DEF LocalInv, GoodModel, FreshScanIsOfThePlace
  <2> QED
    BY <1>6, <2>1 DEF LocalInv, GoodModel, UpToDate
<1>12. GoodModel(n)
  BY <1>5, <1>7, <1>8, <1>9, <1>10, <1>11 DEF GoodModel
<1>13. UNCHANGED <<exists, content, changed>>
  BY DEF ScanReads
<1> QED
  BY <1>4, <1>6, <1>12, <1>13, LocalCall

LEMMA ScanFinishedKeepsLocal ==
    ASSUME LocalInv, NEW s, ScanFinished(s)
    PROVE  LocalInv' /\ local'.active = local.active /\ local'.path = local.path
<1>1. s \in Scans /\ s \in local.scans /\ s.finished /\ local \in ModelStates
  BY DEF LocalInv, GoodModel, ModelStates, ScanFinished
<1>2. UNCHANGED <<exists, content, changed>>
  BY DEF ScanFinished
<1>3. CASE s.fresh
  <2> DEFINE n == [local EXCEPT !.scans = local.scans \ {s}, !.rows = s.entries, !.loading = FALSE]
  <2>1. /\ local.active /\ s.path = local.path
        /\ \A t \in local.scans \ {s} : ~t.fresh
    BY <1>1, <1>3 DEF LocalInv, GoodModel, FreshScanIsOfThePlace, OneFreshScan
  <2>2. local' = n
    BY <1>3, <2>1 DEF ScanFinished
  <2>3. n \in ModelStates
    BY <1>1 DEF ModelStates, Scans
  <2>4. /\ n.path = local.path /\ n.active = local.active /\ n.showHidden = local.showHidden
        /\ ~n.loading /\ n.watched = local.watched /\ n.rows = s.entries
        /\ n.refreshDue = local.refreshDue /\ n.scans = local.scans \ {s}
    BY <1>1 DEF ModelStates
  <2> HIDE DEF n
  <2>5. Watches(n)
    BY <2>4 DEF LocalInv, GoodModel, Watches
  <2>6. FreshScanIsOfThePlace(n) /\ OneFreshScan(n) /\ LoadingHasAScan(n)
    BY <2>1, <2>4 DEF FreshScanIsOfThePlace, OneFreshScan, LoadingHasAScan
  <2>7. UpToDate(n)
    BY <1>1, <1>3, <2>1, <2>4 DEF LocalInv, GoodModel, UpToDate
  <2>8. GoodModel(n)
    BY <2>3, <2>5, <2>6, <2>7 DEF GoodModel
  <2> QED
    BY <1>2, <2>2, <2>4, <2>8, LocalCall
<1>4. CASE ~s.fresh
  <2> DEFINE n == [local EXCEPT !.scans = local.scans \ {s}]
  <2>1. local' = n
    BY <1>4 DEF ScanFinished
  <2>2. n \in ModelStates
    BY <1>1 DEF ModelStates
  <2>3. /\ n.path = local.path /\ n.active = local.active /\ n.showHidden = local.showHidden
        /\ n.loading = local.loading /\ n.watched = local.watched /\ n.rows = local.rows
        /\ n.refreshDue = local.refreshDue /\ n.scans = local.scans \ {s}
    BY <1>1 DEF ModelStates
  <2> HIDE DEF n
  <2>4. Watches(n)
    BY <2>3 DEF LocalInv, GoodModel, Watches
  <2>5. FreshScanIsOfThePlace(n) /\ OneFreshScan(n)
    BY <2>3 DEF LocalInv, GoodModel, FreshScanIsOfThePlace, OneFreshScan
  <2>6. LoadingHasAScan(n)
    BY <1>4, <2>3 DEF LocalInv, GoodModel, LoadingHasAScan
  <2>7. UpToDate(n)
    BY <2>3 DEF LocalInv, GoodModel, UpToDate
  <2>8. GoodModel(n)
    BY <2>2, <2>4, <2>5, <2>6, <2>7 DEF GoodModel
  <2> QED
    BY <1>2, <2>1, <2>3, <2>8, LocalCall
<1> QED
  BY <1>3, <1>4

LEMMA DirectoryChangedKeepsLocal ==
    ASSUME LocalInv, DirectoryChanged
    PROVE  LocalInv' /\ local'.active = local.active /\ local'.path = local.path
<1>1. local \in ModelStates
  BY DEF LocalInv, GoodModel
<1>2. local' \in ModelStates
  BY <1>1 DEF DirectoryChanged, ModelStates
<1>3. /\ local'.path = local.path /\ local'.active = local.active
      /\ local'.showHidden = local.showHidden /\ local'.loading = local.loading
      /\ local'.watched = local.watched /\ local'.rows = local.rows
      /\ local'.scans = local.scans
      /\ local.active => local'.refreshDue
  BY <1>1 DEF DirectoryChanged, ModelStates
<1>4. exists' = exists
  BY DEF DirectoryChanged, diskVars
<1>5. Watches(local)'
  BY <1>3, <1>4 DEF LocalInv, GoodModel, Watches
<1>6. FreshScanIsOfThePlace(local)' /\ OneFreshScan(local)'
  BY <1>3 DEF LocalInv, GoodModel, FreshScanIsOfThePlace, OneFreshScan
<1>7. LoadingHasAScan(local)'
  BY <1>3 DEF LocalInv, GoodModel, LoadingHasAScan
<1>8. UpToDate(local)'
  BY <1>3 DEF LocalInv, GoodModel, UpToDate, Watches
<1> QED
  BY <1>2, <1>3, <1>5, <1>6, <1>7, <1>8 DEF LocalInv, GoodModel, ModelStates

LEMMA RefreshTimeoutKeepsLocal ==
    ASSUME LocalInv, RefreshTimeout
    PROVE  LocalInv' /\ local'.active = local.active /\ local'.path = local.path
<1> DEFINE n == [local EXCEPT !.refreshDue = FALSE]
<1>1. /\ n \in ModelStates /\ n.path = local.path /\ n.active = local.active
      /\ n.scans = local.scans /\ n.watched = local.watched
  BY DEF LocalInv, GoodModel, ModelStates
<1>2. local' = scan(n) /\ UNCHANGED <<exists, content, changed>>
  BY DEF RefreshTimeout
<1> HIDE DEF n
<1>3. ScanCanStart(n)
  BY <1>1, GoodCanScan DEF LocalInv, ScanCanStart, Watches
<1> QED
  BY <1>1, <1>2, <1>3, ScanMakesGood, LocalCall

(* What other programs do to the disk.                                      *)
LEMMA DiskKeepsLocal ==
    ASSUME LocalInv,
           local' = [local EXCEPT !.watched = local.watched \cap exists'],
           changed' \in BOOLEAN,
           changed \/ ~(local.watched \subseteq exists') => changed',
           \A d \in local.watched \cap exists' : ~changed' => content'[d] = content[d]
    PROVE  LocalInv' /\ local'.active = local.active /\ local'.path = local.path
<1>1. local \in ModelStates
  BY DEF LocalInv, GoodModel
<1>2. local' \in ModelStates
  BY <1>1 DEF ModelStates
<1>3. /\ local'.path = local.path /\ local'.active = local.active
      /\ local'.showHidden = local.showHidden /\ local'.loading = local.loading
      /\ local'.watched = local.watched \cap exists' /\ local'.rows = local.rows
      /\ local'.scans = local.scans
      /\ local'.refreshDue = local.refreshDue
  BY <1>1 DEF ModelStates
<1>4. Watches(local)'
  BY <1>3 DEF LocalInv, GoodModel, Watches
<1>5. FreshScanIsOfThePlace(local)' /\ OneFreshScan(local)'
  BY <1>3 DEF LocalInv, GoodModel, FreshScanIsOfThePlace, OneFreshScan
<1>6. LoadingHasAScan(local)'
  BY <1>3 DEF LocalInv, GoodModel, LoadingHasAScan
<1>7. UpToDate(local)'
  <2> SUFFICES ASSUME ~changed', ~local.refreshDue, local.path \in local.watched, local.path \in exists'
               PROVE  /\ \A s \in local.scans : s.fresh /\ s.finished =>
                           s.entries = scanDirectory(local.path, local.showHidden)'
                      /\ ~local.loading => local.rows = scanDirectory(local.path, local.showHidden)'
    BY <1>3 DEF UpToDate
  <2>1. ~changed /\ local.path \in exists /\ content'[local.path] = content[local.path]
    BY DEF LocalInv, GoodModel, Watches
  <2>2. scanDirectory(local.path, local.showHidden)' = scanDirectory(local.path, local.showHidden)
    BY <1>3, <2>1 DEF scanDirectory
  <2> QED
    BY <2>1, <2>2 DEF LocalInv, GoodModel, UpToDate
<1> QED
  BY <1>2, <1>3, <1>4, <1>5, <1>6, <1>7 DEF LocalInv, GoodModel, ModelStates

-----------------------------------------------------------------------------
(* The remote listing.  At most one scan counts, as a context or as a sort, *)
(* and it is of the location the model is set to.                           *)
FreshContextIsOfTheUri(m) ==
    \A c \in m.contexts :
        /\ c.current = c.fresh
        /\ c.fresh => ~c.superseded /\ m.loading /\ c.uri = m.uri

FreshSortIsOfTheUri(m) ==
    \A j \in m.sorts : j.fresh =>
        /\ m.loading /\ j.entries.of = m.uri
        /\ ~j.failed => j.entries.part = "all"

OneFreshAnswer(m) ==
    /\ \A c, d \in m.contexts : c.fresh /\ d.fresh => c = d
    /\ \A j, k \in m.sorts : j.fresh /\ k.fresh => j = k
    /\ \A c \in m.contexts, j \in m.sorts : ~(c.fresh /\ j.fresh)

LoadingHasAnAnswer(m) ==
    m.loading => (\E c \in m.contexts : c.fresh) \/ (\E j \in m.sorts : j.fresh)

RowsAreOfTheUri(m) == m.rows.part # "none" => m.rows.of = m.uri

GoodRemote(m) ==
    /\ m \in RemoteStates
    /\ FreshContextIsOfTheUri(m) /\ FreshSortIsOfTheUri(m)
    /\ OneFreshAnswer(m) /\ LoadingHasAnAnswer(m) /\ RowsAreOfTheUri(m)

(* What the model is not loading and has no error for is all there, unless  *)
(* a cancellation that nobody asked for ended the scan.                     *)
Complete(m) ==
    ~m.loading /\ ~m.error => m.cutOff \/ m.rows = [of |-> m.uri, part |-> "all"]

LEMMA Superseding ==
    ASSUME NEW m \in RemoteStates
    PROVE  LET n == supersedeCurrentScan(m)
           IN  /\ n \in RemoteStates
               /\ \A c \in n.contexts : ~c.current
               /\ n.uri = m.uri /\ n.rows = m.rows /\ n.error = m.error
<1> DEFINE aside(c) == IF c.current THEN [c EXCEPT !.current = FALSE, !.superseded = TRUE] ELSE c
           S == {aside(c) : c \in m.contexts}
           n == [m EXCEPT !.contexts = S]
<1>1. ASSUME NEW c \in m.contexts
      PROVE  aside(c) \in Contexts /\ ~aside(c).current
  <2>1. c \in Contexts
    BY DEF RemoteStates
  <2>2. CASE c.current
    <3>1. aside(c) = [c EXCEPT !.current = FALSE, !.superseded = TRUE]
      BY <2>2
    <3> HIDE DEF aside
    <3> QED  BY <2>1, <3>1 DEF Contexts
  <2>3. CASE ~c.current
    <3>1. aside(c) = c
      BY <2>3
    <3> HIDE DEF aside
    <3> QED  BY <2>1, <2>3, <3>1
  <2> QED
    BY <2>2, <2>3
<1> HIDE DEF aside
<1>2. S \in SUBSET Contexts /\ \A c \in S : ~c.current
  BY <1>1
<1>3. n = supersedeCurrentScan(m)
  BY DEF supersedeCurrentScan, aside
<1> HIDE DEF S
<1>4. n \in RemoteStates /\ n.contexts = S /\ n.uri = m.uri /\ n.rows = m.rows /\ n.error = m.error
  BY <1>2 DEF RemoteStates
<1> HIDE DEF n
<1> QED
  BY <1>2, <1>3, <1>4

LEMMA Generations ==
    ASSUME NEW m \in RemoteStates, \A c \in m.contexts : ~c.current
    PROVE  LET n == NextGeneration(m)
           IN  /\ n \in RemoteStates
               /\ \A c \in n.contexts : ~c.current /\ ~c.fresh
               /\ \A j \in n.sorts : ~j.fresh
               /\ n.uri = m.uri /\ n.rows = m.rows /\ n.error = m.error
<1> DEFINE old(c) == [c EXCEPT !.fresh = FALSE]
           S == {old(c) : c \in m.contexts}
           T == {old(j) : j \in m.sorts}
           n == [m EXCEPT !.contexts = S, !.sorts = T]
<1>1. ASSUME NEW c \in m.contexts
      PROVE  old(c) \in Contexts /\ ~old(c).current /\ ~old(c).fresh
  <2>1. c \in Contexts /\ ~c.current
    BY DEF RemoteStates
  <2> QED
    BY <2>1 DEF Contexts
<1>2. ASSUME NEW j \in m.sorts PROVE old(j) \in Sorts /\ ~old(j).fresh
  BY DEF RemoteStates, Sorts
<1> HIDE DEF old
<1>3. S \in SUBSET Contexts /\ \A c \in S : ~c.current /\ ~c.fresh
  BY <1>1
<1>4. T \in SUBSET Sorts /\ \A j \in T : ~j.fresh
  BY <1>2
<1>5. n = NextGeneration(m)
  BY DEF NextGeneration, old
<1> HIDE DEF S, T
<1>6. /\ n \in RemoteStates /\ n.contexts = S /\ n.sorts = T
      /\ n.uri = m.uri /\ n.rows = m.rows /\ n.error = m.error
  BY <1>3, <1>4 DEF RemoteStates
<1> HIDE DEF n
<1> QED
  BY <1>3, <1>4, <1>5, <1>6

NewContext(u) == [uri |-> u, fresh |-> TRUE, current |-> TRUE, superseded |-> FALSE,
                  published |-> FALSE, stage |-> "opening",
                  failed |-> FALSE, cancelled |-> FALSE]

LEMMA StartMakesGood ==
    ASSUME NEW m \in RemoteStates, m.uri \in Shares, RowsAreOfTheUri(m)
    PROVE  LET n == startScan(m)
           IN  GoodRemote(n) /\ Complete(n) /\ n.uri = m.uri
<1> DEFINE q == NextGeneration(supersedeCurrentScan(m))
           n == [q EXCEPT !.error = FALSE, !.loading = TRUE, !.cutOff = FALSE,
                          !.contexts = q.contexts \cup {NewContext(q.uri)}]
<1>1. /\ q \in RemoteStates
      /\ \A c \in q.contexts : ~c.current /\ ~c.fresh
      /\ \A j \in q.sorts : ~j.fresh
      /\ q.uri = m.uri /\ q.rows = m.rows
  BY Superseding, Generations
<1>2. n = startScan(m)
  <2>1. q \in RemoteStates
    BY <1>1
  <2> QED
    BY <2>1 DEF startScan, NewContext, RemoteStates
<1> HIDE DEF q
<1>3. NewContext(q.uri) \in Contexts
  BY <1>1 DEF NewContext, Contexts
<1>4. n \in RemoteStates
  BY <1>1, <1>3 DEF RemoteStates
<1>5. /\ n.contexts = q.contexts \cup {NewContext(m.uri)} /\ n.sorts = q.sorts
      /\ n.uri = m.uri /\ n.rows = m.rows /\ n.loading
  BY <1>1 DEF RemoteStates
<1>6. LET c == NewContext(m.uri)
      IN /\ c.fresh /\ c.current /\ ~c.superseded /\ ~c.cancelled /\ c.uri = m.uri
         /\ c.current = c.fresh
  BY DEF NewContext
<1> HIDE DEF n
<1>8. FreshContextIsOfTheUri(n)
  <2>1. ASSUME NEW c \in q.contexts PROVE c.current = c.fresh /\ ~c.fresh
    BY <1>1 DEF RemoteStates, Contexts
  <2> QED
    BY <1>5, <1>6, <2>1 DEF FreshContextIsOfTheUri
<1>9. FreshSortIsOfTheUri(n)
  BY <1>1, <1>5 DEF FreshSortIsOfTheUri
<1>10. OneFreshAnswer(n)
  BY <1>1, <1>5 DEF OneFreshAnswer
<1>11. LoadingHasAnAnswer(n)
  BY <1>5, <1>6 DEF LoadingHasAnAnswer
<1>12. RowsAreOfTheUri(n) /\ Complete(n)
  BY <1>5 DEF RowsAreOfTheUri, Complete
<1> QED
  BY <1>2, <1>4, <1>5, <1>8, <1>9, <1>10, <1>11, <1>12 DEF GoodRemote

LEMMA SetUriMakesGood ==
    ASSUME NEW m, GoodRemote(m), NEW u \in Shares
    PROVE  LET n == setUri(m, u)
           IN  GoodRemote(n) /\ Complete(n) /\ n.uri = u
<1>1. u # NoShare
  BY SharesAssumption
<1>2. CASE u = m.uri
  BY <1>1, <1>2, StartMakesGood DEF setUri, refreshRemote, GoodRemote
<1>3. CASE u # m.uri
  <2> DEFINE q == supersedeCurrentScan(m)
             n == [q EXCEPT !.uri = u, !.rows = NoEntries, !.error = FALSE]
  <2>1. q \in RemoteStates
    BY Superseding DEF GoodRemote
  <2>2. setUri(m, u) = startScan(n)
    BY <1>3 DEF setUri
  <2> HIDE DEF q
  <2>3. n \in RemoteStates /\ n.contexts = q.contexts /\ n.uri = u /\ n.rows = NoEntries
    BY <2>1 DEF RemoteStates, NoEntries, Entries, Parts
  <2> HIDE DEF n
  <2>4. RowsAreOfTheUri(n)
    BY <2>3 DEF RowsAreOfTheUri, NoEntries
  <2> QED
    BY <2>2, <2>3, <2>4, StartMakesGood
<1> QED
  BY <1>2, <1>3

LEMMA RefreshRemoteKeepsGood ==
    ASSUME NEW m, GoodRemote(m), m.uri \in Shares
    PROVE  LET n == refreshRemote(m)
           IN  GoodRemote(n) /\ Complete(n) /\ n.uri = m.uri
<1>1. m.uri # NoShare
  BY SharesAssumption
<1> QED
  BY <1>1, StartMakesGood DEF refreshRemote, GoodRemote

LEMMA CancelKeepsGood ==
    ASSUME NEW m, GoodRemote(m)
    PROVE  GoodRemote(cancel(m))
<1> DEFINE q == NextGeneration(supersedeCurrentScan(m))
           n == [q EXCEPT !.loading = FALSE, !.cutOff = FALSE]
<1>1. /\ q \in RemoteStates
      /\ \A c \in q.contexts : ~c.current /\ ~c.fresh
      /\ \A j \in q.sorts : ~j.fresh
      /\ q.uri = m.uri /\ q.rows = m.rows
  BY Superseding, Generations DEF GoodRemote
<1>2. n = cancel(m)
  BY DEF cancel
<1> HIDE DEF q
<1>3. /\ n \in RemoteStates /\ n.contexts = q.contexts /\ n.sorts = q.sorts
      /\ n.uri = m.uri /\ n.rows = m.rows /\ ~n.loading
  BY <1>1 DEF RemoteStates
<1> HIDE DEF n
<1>4. FreshContextIsOfTheUri(n)
  <2>1. ASSUME NEW c \in q.contexts PROVE c.current = c.fresh /\ ~c.fresh
    BY <1>1 DEF RemoteStates, Contexts
  <2> QED
    BY <1>3, <2>1 DEF FreshContextIsOfTheUri
<1> QED
  BY <1>1, <1>2, <1>3, <1>4 DEF GoodRemote, FreshSortIsOfTheUri, OneFreshAnswer,
       LoadingHasAnAnswer, RowsAreOfTheUri

(* An answer to a scan leaves the scan's context, somewhat changed, ...     *)
SameScan(c, d) ==
    /\ d \in Contexts
    /\ d.fresh = c.fresh /\ d.current = c.current /\ d.uri = c.uri
    /\ d.fresh => ~d.superseded

SameShown(m, n) ==
    /\ n.uri = m.uri /\ n.rows = m.rows
    /\ n.loading = m.loading /\ n.error = m.error /\ n.cutOff = m.cutOff

LEMMA WithKeepsGood ==
    ASSUME NEW m, GoodRemote(m), NEW c \in m.contexts, NEW d, SameScan(c, d)
    PROVE  GoodRemote(With(m, c, d)) /\ SameShown(m, With(m, c, d)) /\ d \in With(m, c, d).contexts
<1> DEFINE n == [m EXCEPT !.contexts = (m.contexts \ {c}) \cup {d}]
<1>1. n = With(m, c, d)
  BY DEF With
<1>2. /\ n \in RemoteStates /\ n.contexts = (m.contexts \ {c}) \cup {d} /\ n.sorts = m.sorts
      /\ SameShown(m, n)
  BY DEF GoodRemote, RemoteStates, SameScan, SameShown
<1> HIDE DEF n
<1>3. c.current = c.fresh /\ (c.fresh => m.loading /\ c.uri = m.uri)
  BY DEF GoodRemote, FreshContextIsOfTheUri
<1>5. FreshContextIsOfTheUri(n)
  BY <1>2, <1>3 DEF GoodRemote, FreshContextIsOfTheUri, SameScan, SameShown
<1>6. FreshSortIsOfTheUri(n)
  BY <1>2 DEF GoodRemote, FreshSortIsOfTheUri, SameShown
<1>7. OneFreshAnswer(n)
  BY <1>2 DEF GoodRemote, OneFreshAnswer, SameScan
<1>8. LoadingHasAnAnswer(n)
  BY <1>2 DEF GoodRemote, LoadingHasAnAnswer, SameScan, SameShown
<1>9. RowsAreOfTheUri(n)
  BY <1>2 DEF GoodRemote, RowsAreOfTheUri, SameShown
<1> QED
  BY <1>1, <1>2, <1>5, <1>6, <1>7, <1>8, <1>9 DEF GoodRemote

LEMMA FinishEnumerationKeepsGood ==
    ASSUME NEW m, GoodRemote(m), NEW c \in m.contexts, NEW d, SameScan(c, d),
           NEW failed \in BOOLEAN, NEW cancelled \in BOOLEAN
    PROVE  LET n == finishEnumeration(m, c, d, failed, cancelled)
           IN  GoodRemote(n) /\ SameShown(m, n)
<1> DEFINE e == [d EXCEPT !.stage = "closing", !.failed = failed /\ ~d.superseded,
                          !.cancelled = cancelled \/ d.superseded]
<1>1. SameScan(c, e)
  BY DEF SameScan, Contexts
<1>2. finishEnumeration(m, c, d, failed, cancelled) = With(m, c, e)
  BY DEF finishEnumeration
<1> HIDE DEF e
<1> QED
  BY <1>1, <1>2, WithKeepsGood

LEMMA RequestNextBatchKeepsGood ==
    ASSUME NEW m, GoodRemote(m), NEW c \in m.contexts, NEW d, SameScan(c, d)
    PROVE  LET n == requestNextBatch(m, c, d)
           IN  GoodRemote(n) /\ SameShown(m, n)
<1>1. CASE d.current /\ d.fresh /\ ~d.superseded
  <2> DEFINE e == [d EXCEPT !.stage = "batches"]
  <2>1. SameScan(c, e)
    BY DEF SameScan, Contexts
  <2>2. requestNextBatch(m, c, d) = With(m, c, e)
    BY <1>1 DEF requestNextBatch
  <2> HIDE DEF e
  <2> QED
    BY <2>1, <2>2, WithKeepsGood
<1>2. CASE ~(d.current /\ d.fresh /\ ~d.superseded)
  <2> DEFINE e == [d EXCEPT !.superseded = TRUE]
  <2>1. ~d.fresh
    BY <1>2 DEF GoodRemote, FreshContextIsOfTheUri, SameScan
  <2>2. SameScan(c, e) /\ e.superseded
    BY <2>1 DEF SameScan, Contexts
  <2>3. requestNextBatch(m, c, d) = finishEnumeration(m, c, e, FALSE, TRUE)
    BY <1>2 DEF requestNextBatch
  <2> HIDE DEF e
  <2> QED
    BY <2>2, <2>3, FinishEnumerationKeepsGood
<1> QED
  BY <1>1, <1>2

(* ... or ends it: its place is taken by the sort of its entries, unless the *)
(* scan was cancelled.                                                      *)
LEMMA FinishAfterCloseKeepsGood ==
    ASSUME NEW m, GoodRemote(m), NEW c \in m.contexts
    PROVE  LET n == finishAfterClose(m, c)
           IN  GoodRemote(n) /\ n.uri = m.uri /\ (Complete(m) => Complete(n))
<1>1. /\ c \in Contexts /\ m \in RemoteStates /\ c.current = c.fresh
      /\ c.fresh => ~c.superseded /\ m.loading /\ c.uri = m.uri
  BY DEF GoodRemote, RemoteStates, FreshContextIsOfTheUri
<1>2. CASE ~c.fresh
  <2> DEFINE n == [m EXCEPT !.contexts = m.contexts \ {c}]
  <2>1. finishAfterClose(m, c) = n
    BY <1>2 DEF finishAfterClose, Closed
  <2>2. /\ n \in RemoteStates /\ n.contexts = m.contexts \ {c} /\ n.sorts = m.sorts
        /\ SameShown(m, n)
    BY <1>1 DEF RemoteStates, SameShown
  <2> HIDE DEF n
  <2>3. FreshContextIsOfTheUri(n) /\ FreshSortIsOfTheUri(n)
    BY <2>2 DEF GoodRemote, FreshContextIsOfTheUri, FreshSortIsOfTheUri, SameShown
  <2>4. OneFreshAnswer(n)
    BY <2>2 DEF GoodRemote, OneFreshAnswer
  <2>5. LoadingHasAnAnswer(n) /\ RowsAreOfTheUri(n)
    BY <1>2, <2>2 DEF GoodRemote, LoadingHasAnAnswer, RowsAreOfTheUri, SameShown
  <2> QED
    BY <2>1, <2>2, <2>3, <2>4, <2>5 DEF GoodRemote, SameShown, Complete
<1>3. CASE c.fresh /\ c.cancelled
  <2> DEFINE n == [m EXCEPT !.contexts = m.contexts \ {c}, !.loading = FALSE, !.cutOff = TRUE]
  <2>1. finishAfterClose(m, c) = n
    BY <1>1, <1>3 DEF finishAfterClose, Closed, RemoteStates
  <2>2. /\ n \in RemoteStates /\ n.contexts = m.contexts \ {c} /\ n.sorts = m.sorts
        /\ n.uri = m.uri /\ n.rows = m.rows /\ ~n.loading /\ n.cutOff
    BY <1>1 DEF RemoteStates
  <2> HIDE DEF n
  <2>3. (\A d \in n.contexts : ~d.fresh) /\ \A k \in n.sorts : ~k.fresh
    BY <1>3, <2>2 DEF GoodRemote, OneFreshAnswer
  <2>4. FreshContextIsOfTheUri(n) /\ FreshSortIsOfTheUri(n)
    BY <2>2, <2>3 DEF GoodRemote, FreshContextIsOfTheUri, FreshSortIsOfTheUri
  <2>5. OneFreshAnswer(n) /\ LoadingHasAnAnswer(n)
    BY <2>2, <2>3 DEF OneFreshAnswer, LoadingHasAnAnswer
  <2>6. RowsAreOfTheUri(n) /\ Complete(n)
    BY <2>2 DEF GoodRemote, RowsAreOfTheUri, Complete
  <2> QED
    BY <2>1, <2>2, <2>4, <2>5, <2>6 DEF GoodRemote
<1>4. CASE c.fresh /\ ~c.cancelled
  <2> DEFINE j == [entries |-> [of |-> c.uri,
                                part |-> IF ~c.failed THEN "all"
                                         ELSE IF c.published THEN "first" ELSE "none"],
                   fresh |-> TRUE, failed |-> c.failed]
             n == [m EXCEPT !.contexts = m.contexts \ {c}, !.sorts = m.sorts \cup {j}]
  <2>1. finishAfterClose(m, c) = n
    BY <1>1, <1>4 DEF finishAfterClose, Closed, RemoteStates
  <2>2. j \in Sorts /\ j.fresh /\ j.entries.of = c.uri /\ (~j.failed => j.entries.part = "all")
    BY <1>1 DEF Sorts, Entries, Parts, Contexts
  <2> HIDE DEF j
  <2>3. /\ n \in RemoteStates /\ n.contexts = m.contexts \ {c} /\ n.sorts = m.sorts \cup {j}
        /\ SameShown(m, n)
    BY <1>1, <2>2 DEF RemoteStates, SameShown
  <2> HIDE DEF n
  <2>4. FreshContextIsOfTheUri(n)
    BY <2>3 DEF GoodRemote, FreshContextIsOfTheUri, SameShown
  <2>5. FreshSortIsOfTheUri(n)
    BY <1>1, <1>4, <2>2, <2>3 DEF GoodRemote, FreshSortIsOfTheUri, SameShown
  <2>6. /\ \A d \in n.contexts : ~d.fresh
        /\ \A k \in n.sorts : k.fresh => k = j
    BY <1>4, <2>3 DEF GoodRemote, OneFreshAnswer
  <2>7. OneFreshAnswer(n)
    BY <2>6 DEF OneFreshAnswer
  <2>8. LoadingHasAnAnswer(n)
    BY <2>2, <2>3 DEF LoadingHasAnAnswer
  <2>9. RowsAreOfTheUri(n)
    BY <2>3 DEF GoodRemote, RowsAreOfTheUri, SameShown
  <2> QED
    BY <2>1, <2>3, <2>4, <2>5, <2>7, <2>8, <2>9 DEF GoodRemote, SameShown, Complete
<1> QED
  BY <1>2, <1>3, <1>4

FarInv == GoodRemote(far)

LEMMA FarCall ==
    ASSUME NEW m, GoodRemote(m), far' = m
    PROVE  FarInv'
<1>1. FarInv' <=> GoodRemote(m)
  BY DEF FarInv, GoodRemote, FreshContextIsOfTheUri, FreshSortIsOfTheUri,
       OneFreshAnswer, LoadingHasAnAnswer, RowsAreOfTheUri
<1> QED
  BY <1>1

LEMMA SameContext ==
    ASSUME FarInv, NEW c \in far.contexts
    PROVE  SameScan(c, c)
BY DEF FarInv, GoodRemote, RemoteStates, FreshContextIsOfTheUri, SameScan

LEMMA FarStaysComplete ==
    ASSUME FarInv, NEW m, SameShown(far, m), far' = m, Complete(far)
    PROVE  far'.uri = far.uri /\ Complete(far')
BY DEF SameShown, Complete

LEMMA RemoteOpenedKeepsFar ==
    ASSUME FarInv, NEW c, RemoteOpened(c)
    PROVE  FarInv' /\ far'.uri = far.uri /\ (Complete(far) => Complete(far'))
<1>1. c \in far.contexts /\ SameScan(c, c)
  BY SameContext DEF RemoteOpened
<1>2. CASE far' = requestNextBatch(far, c, c)
  BY <1>1, <1>2, RequestNextBatchKeepsGood, FarCall DEF FarInv, SameShown, Complete
<1>3. ASSUME NEW cancelled \in BOOLEAN,
             LET d == [c EXCEPT !.failed = ~cancelled, !.cancelled = cancelled \/ c.superseded]
             IN  far' = finishAfterClose(With(far, c, d), d)
      PROVE  FarInv' /\ far'.uri = far.uri /\ (Complete(far) => Complete(far'))
  <2> DEFINE d == [c EXCEPT !.failed = ~cancelled, !.cancelled = cancelled \/ c.superseded]
             n == With(far, c, d)
  <2>1. SameScan(c, d)
    BY <1>1 DEF SameScan, Contexts
  <2>2. far' = finishAfterClose(n, d)
    BY <1>3
  <2> HIDE DEF d
  <2>3. GoodRemote(n) /\ SameShown(far, n) /\ d \in n.contexts
    BY <1>1, <2>1, WithKeepsGood DEF FarInv
  <2> HIDE DEF n
  <2>4. GoodRemote(far') /\ far'.uri = n.uri /\ (Complete(n) => Complete(far'))
    BY <2>2, <2>3, FinishAfterCloseKeepsGood
  <2> QED
    BY <2>3, <2>4, FarCall DEF SameShown, Complete
<1> QED
  BY <1>2, <1>3 DEF RemoteOpened

LEMMA RemoteBatchKeepsFar ==
    ASSUME FarInv, NEW c, RemoteBatch(c)
    PROVE  FarInv' /\ far'.uri = far.uri /\ (Complete(far) => Complete(far'))
<1> DEFINE m == IF c.published THEN far ELSE publishInitialEntries(far, c)
           d == [c EXCEPT !.published = TRUE]
<1>1. c \in far.contexts /\ SameScan(c, c) /\ far \in RemoteStates
  BY SameContext DEF RemoteBatch, FarInv, GoodRemote
<1>2. SameScan(c, d)
  BY <1>1 DEF SameScan, Contexts
<1>3. far' = requestNextBatch(m, c, d)
  BY DEF RemoteBatch
<1> HIDE DEF d
<1>4. /\ GoodRemote(m) /\ c \in m.contexts /\ m.uri = far.uri
      /\ Complete(far) => Complete(m)
  <2>1. CASE m = far
    BY <1>1, <2>1 DEF FarInv
  <2>2. CASE m # far
    <3> DEFINE n == [far EXCEPT !.rows = [of |-> c.uri, part |-> "first"]]
    <3>1. c.fresh /\ m = n
      BY <2>2 DEF publishInitialEntries
    <3>2. c.uri = far.uri /\ far.loading /\ c.uri \in Shares
      BY <1>1, <3>1 DEF FarInv, GoodRemote, FreshContextIsOfTheUri, SameScan, Contexts
    <3>3. /\ n \in RemoteStates /\ n.uri = far.uri /\ n.contexts = far.contexts /\ n.sorts = far.sorts
          /\ n.loading /\ n.rows.of = far.uri
      BY <1>1, <3>2 DEF RemoteStates, Entries, Parts
    <3> HIDE DEF m, n
    <3>4. GoodRemote(n)
      BY <3>2, <3>3 DEF FarInv, GoodRemote, FreshContextIsOfTheUri,
           FreshSortIsOfTheUri, OneFreshAnswer, LoadingHasAnAnswer, RowsAreOfTheUri
    <3> QED
      BY <1>1, <3>1, <3>3, <3>4 DEF Complete
  <2> QED
    BY <2>1, <2>2
<1> HIDE DEF m
<1>5. GoodRemote(far') /\ SameShown(m, far')
  BY <1>2, <1>3, <1>4, RequestNextBatchKeepsGood
<1> QED
  BY <1>4, <1>5, FarCall DEF SameShown, Complete

LEMMA RemoteEndKeepsFar ==
    ASSUME FarInv, NEW c, RemoteEnd(c)
    PROVE  FarInv' /\ far'.uri = far.uri /\ (Complete(far) => Complete(far'))
<1>1. c \in far.contexts /\ SameScan(c, c)
  BY SameContext DEF RemoteEnd
<1>2. PICK failed \in BOOLEAN, cancelled \in BOOLEAN :
             far' = finishEnumeration(far, c, c, failed, cancelled)
  BY DEF RemoteEnd
<1>3. GoodRemote(far') /\ SameShown(far, far')
  BY <1>1, <1>2, FinishEnumerationKeepsGood DEF FarInv
<1> QED
  BY <1>3, FarCall DEF SameShown, Complete

LEMMA RemoteClosedKeepsFar ==
    ASSUME FarInv, NEW c, RemoteClosed(c)
    PROVE  FarInv' /\ far'.uri = far.uri /\ (Complete(far) => Complete(far'))
<1>1. GoodRemote(far') /\ far'.uri = far.uri /\ (Complete(far) => Complete(far'))
  BY FinishAfterCloseKeepsGood DEF FarInv, RemoteClosed
<1> QED
  BY <1>1, FarCall

LEMMA RemoteSortedKeepsFar ==
    ASSUME FarInv, NEW j, RemoteSorted(j)
    PROVE  FarInv' /\ far'.uri = far.uri /\ (Complete(far) => Complete(far'))
<1>1. j \in far.sorts /\ j \in Sorts /\ far \in RemoteStates
  BY DEF RemoteSorted, FarInv, GoodRemote, RemoteStates
<1>2. CASE ~j.fresh
  <2> DEFINE n == [far EXCEPT !.sorts = far.sorts \ {j}]
  <2>1. far' = n
    BY <1>2 DEF RemoteSorted
  <2>2. /\ n \in RemoteStates /\ n.contexts = far.contexts /\ n.sorts = far.sorts \ {j}
        /\ SameShown(far, n)
    BY <1>1 DEF RemoteStates, SameShown
  <2> HIDE DEF n
  <2>3. FreshContextIsOfTheUri(n) /\ FreshSortIsOfTheUri(n)
    BY <2>2 DEF FarInv, GoodRemote, FreshContextIsOfTheUri,
         FreshSortIsOfTheUri, SameShown
  <2>4. OneFreshAnswer(n)
    BY <2>2 DEF FarInv, GoodRemote, OneFreshAnswer
  <2>5. LoadingHasAnAnswer(n) /\ RowsAreOfTheUri(n)
    BY <1>2, <2>2 DEF FarInv, GoodRemote, LoadingHasAnAnswer, RowsAreOfTheUri, SameShown
  <2>6. GoodRemote(n)
    BY <2>2, <2>3, <2>4, <2>5 DEF GoodRemote
  <2> QED
    BY <2>1, <2>2, <2>6, FarCall DEF SameShown, Complete
<1>3. CASE j.fresh
  <2> DEFINE n == [far EXCEPT !.sorts = far.sorts \ {j}, !.rows = j.entries,
                              !.error = j.failed, !.loading = FALSE]
  <2>1. far' = n
    BY <1>3 DEF RemoteSorted
  <2>2. /\ n \in RemoteStates /\ n.contexts = far.contexts /\ n.sorts = far.sorts \ {j}
        /\ n.uri = far.uri /\ n.rows = j.entries /\ n.error = j.failed /\ ~n.loading
    BY <1>1 DEF RemoteStates, Sorts
  <2> HIDE DEF n
  <2>3. j.entries.of = far.uri /\ (~j.failed => j.entries.part = "all") /\ j.entries \in Entries
    BY <1>1, <1>3 DEF FarInv, GoodRemote, FreshSortIsOfTheUri, Sorts
  <2>4. (\A c \in n.contexts : ~c.fresh) /\ \A k \in n.sorts : ~k.fresh
    BY <1>1, <1>3, <2>2 DEF FarInv, GoodRemote, OneFreshAnswer
  <2>5. FreshContextIsOfTheUri(n) /\ FreshSortIsOfTheUri(n)
    BY <2>2, <2>4 DEF FarInv, GoodRemote, FreshContextIsOfTheUri,
         FreshSortIsOfTheUri
  <2>6. OneFreshAnswer(n) /\ LoadingHasAnAnswer(n) /\ RowsAreOfTheUri(n)
    BY <2>2, <2>3, <2>4 DEF OneFreshAnswer, LoadingHasAnAnswer, RowsAreOfTheUri
  <2>7. GoodRemote(n)
    BY <2>2, <2>5, <2>6 DEF GoodRemote
  <2>8. Complete(n)
    <3>1. ~j.failed => j.entries = [of |-> far.uri, part |-> "all"]
      BY <2>3 DEF Entries
    <3> QED  BY <2>2, <3>1 DEF Complete
  <2> QED
    BY <2>1, <2>2, <2>7, <2>8, FarCall
<1> QED
  BY <1>2, <1>3

-----------------------------------------------------------------------------
(* The history, and what it has to do with the listings.                    *)
DiskTypeOK ==
    /\ exists \subseteq Dirs /\ Home \in exists
    /\ content \in [Dirs -> Nat] /\ changed \in BOOLEAN
    /\ mounted \in BOOLEAN /\ unmountNotice \in BOOLEAN

HistoryTypeOK ==
    /\ history \in Seq(Locations) /\ Len(history) \in 1..MaxHistory
    /\ historyIndex \in 1..Len(history)

(* What is not on disk was removed at some time, and nothing of a file      *)
(* system is on disk while it is not mounted.                               *)
DiskIsRemembered ==
    /\ Dirs \subseteq exists \cup everGone
    /\ ~mounted => MountDirs \cap exists = {}

OneBackendIsShown ==
    /\ remoteShown = (path \in Shares)
    /\ local.active = ~remoteShown
    /\ remoteShown => far.uri = path /\ Complete(far)
    /\ ~remoteShown => local.path = path \/ path \in everGone

SessionInv ==
    /\ LocalInv /\ FarInv
    /\ DiskTypeOK /\ HistoryTypeOK /\ DiskIsRemembered
    /\ OneBackendIsShown /\ NoWayBackIntoUnmounted

LEMMA Applying ==
    ASSUME LocalInv, FarInv, DiskIsRemembered, NEW p \in Locations,
           applyBackendForLocation(p), UNCHANGED <<exists, content, changed, everGone>>
    PROVE  /\ LocalInv' /\ FarInv'
           /\ remoteShown' = (p \in Shares)
           /\ local'.active = ~remoteShown'
           /\ remoteShown' => far'.uri = p /\ Complete(far')
           /\ ~remoteShown' => local'.path = p \/ p \in everGone'
<1>1. CASE p \in Shares
  <2>1. local' = setActive(local, FALSE) /\ far' = setUri(far, p) /\ remoteShown' = TRUE
    BY <1>1 DEF applyBackendForLocation
  <2>2. GoodModel(setActive(local, FALSE)) /\ setActive(local, FALSE).active = FALSE
    BY SetActiveKeepsGood DEF LocalInv
  <2>3. GoodRemote(setUri(far, p)) /\ setUri(far, p).uri = p /\ Complete(setUri(far, p))
    BY <1>1, SetUriMakesGood DEF FarInv
  <2>4. LocalInv' /\ FarInv'
    BY <2>1, <2>2, <2>3, LocalCall, FarCall
  <2> QED
    BY <1>1, <2>1, <2>2, <2>3, <2>4
<1>2. CASE p \notin Shares
  <2> DEFINE m == setPath(local, p)
  <2>1. far' = cancel(far) /\ local' = setActive(m, TRUE) /\ remoteShown' = FALSE
    BY <1>2 DEF applyBackendForLocation
  <2>2. p \in Dirs
    BY <1>2 DEF Locations
  <2>3. GoodModel(m) /\ (p \in exists => m.path = p)
    BY <2>2, SetPathKeepsGood DEF LocalInv
  <2> HIDE DEF m
  <2>4. GoodModel(setActive(m, TRUE)) /\ setActive(m, TRUE).active = TRUE /\ setActive(m, TRUE).path = m.path
    BY <2>3, SetActiveKeepsGood
  <2>5. GoodRemote(cancel(far))
    BY CancelKeepsGood DEF FarInv
  <2>6. LocalInv' /\ FarInv'
    BY <2>1, <2>4, <2>5, LocalCall, FarCall
  <2>7. p \in exists \/ p \in everGone
    BY <2>2 DEF DiskIsRemembered
  <2>8. local'.active = ~remoteShown' /\ remoteShown' = (p \in Shares)
    <3>1. local'.active = TRUE /\ remoteShown' = FALSE
      BY <2>1, <2>4
    <3>2. (p \in Shares) = FALSE
      BY <1>2
    <3> QED  BY <3>1, <3>2
  <2>9. local'.path = p \/ p \in everGone'
    BY <2>1, <2>3, <2>4, <2>7
  <2> QED
    BY <2>1, <2>6, <2>8, <2>9
<1> QED
  BY <1>1, <1>2

LEMMA FallbackIsOutside ==
    ASSUME DiskTypeOK, NEW root \in {MountDirs, Shares}
    PROVE  Fallback(root) \in Dirs \ (MountDirs \cup Shares)
BY MountAssumption, DirsAssumption DEF Fallback, DiskTypeOK

(* What recovery makes of the history: the entries outside the root and     *)
(* perhaps the fallback, and the current one of those if it is outside.     *)
LEMMA Rewriting ==
    ASSUME DiskTypeOK, HistoryTypeOK, NEW root \in {MountDirs, Shares}
    PROVE  LET new == rewritten(root)
           IN  /\ new.history \in Seq(Locations)
               /\ Len(new.history) \in 1..Len(history)
               /\ new.index \in 1..Len(new.history)
               /\ \A k \in 1..Len(new.history) :
                    \/ new.history[k] = Fallback(root)
                    \/ \E i \in 1..Len(history) :
                          new.history[k] = history[i] /\ history[i] \notin root
               /\ path \notin root => new.history[new.index] = path
<1> DEFINE n == Len(history)
           K == Kept(root)
           new == rewritten(root)
           entry(k) == IF KthOf(K, k) \in Outside(root) THEN history[KthOf(K, k)] ELSE Fallback(root)
<1>1. n \in Nat /\ DOMAIN history = 1..n /\ historyIndex \in 1..n
  BY DEF HistoryTypeOK
<1>2. Outside(root) = {i \in 1..n : history[i] \notin root}
  BY <1>1 DEF Outside, Inside
<1>3. K \in SUBSET (1..n) /\ Outside(root) \subseteq K
  BY <1>1, <1>2 DEF Kept
<1>4. \E j \in K : j <= historyIndex
  <2>1. CASE historyIndex \in K
    BY <1>1, <2>1
  <2>2. CASE historyIndex \notin K
    <3>1. {i \in Outside(root) : i < historyIndex} # {}
      BY <2>2 DEF Kept
    <3>2. PICK i \in Outside(root) : i < historyIndex
      BY <3>1
    <3> QED
      BY <1>1, <1>2, <1>3, <3>2
  <2> QED
    BY <2>1, <2>2
<1>5. new.history = [k \in 1..Cardinality(K) |-> entry(k)] /\ new.index = RankIn(K, historyIndex)
  BY DEF rewritten
<1> HIDE DEF K, n
<1>6. Cardinality(K) \in 0..n /\ RankIn(K, historyIndex) \in 1..Cardinality(K)
  BY <1>1, <1>3, <1>4, RankType, RankIsPositive
<1>7. Fallback(root) \in Locations
  BY FallbackIsOutside DEF Locations
<1>8. ASSUME NEW k \in 1..Cardinality(K)
      PROVE  /\ entry(k) \in Locations
             /\ \/ entry(k) = Fallback(root)
                \/ \E i \in 1..n : entry(k) = history[i] /\ history[i] \notin root
  <2>1. KthOf(K, k) \in 1..n
    BY <1>1, <1>3, KthIsThere
  <2>2. history[KthOf(K, k)] \in Locations
    BY <2>1 DEF HistoryTypeOK, n
  <2> QED
    BY <1>2, <1>7, <2>1, <2>2
<1>9. ASSUME path \notin root PROVE entry(new.index) = path
  <2>1. historyIndex \in Outside(root) /\ historyIndex \in K
    BY <1>1, <1>2, <1>3, <1>9 DEF path
  <2>2. KthOf(K, RankIn(K, historyIndex)) = historyIndex
    BY <1>1, <1>3, <2>1, KthOfRank
  <2> QED
    BY <1>5, <2>1, <2>2 DEF path
<1> HIDE DEF entry, new
<1>10. new.history \in [1..Cardinality(K) -> Locations]
  BY <1>5, <1>8
<1>11. new.history \in Seq(Locations) /\ Len(new.history) = Cardinality(K)
  BY <1>6, <1>10
<1>12. \A k \in 1..Cardinality(K) : new.history[k] = entry(k)
  BY <1>5
<1>13. Len(new.history) \in 1..Len(history) /\ new.index \in 1..Len(new.history)
  BY <1>1, <1>5, <1>6, <1>11 DEF n
<1>14. path \notin root => new.history[new.index] = path
  BY <1>9, <1>11, <1>12, <1>13
<1>15. \A k \in 1..Len(new.history) :
          \/ new.history[k] = Fallback(root)
          \/ \E i \in 1..Len(history) : new.history[k] = history[i] /\ history[i] \notin root
  BY <1>8, <1>11, <1>12 DEF n
<1> QED
  BY <1>11, <1>13, <1>14, <1>15 DEF new

LEMMA InitSession == Init => SessionInv
<1> SUFFICES ASSUME Init PROVE SessionInv
  OBVIOUS
<1>1. GoodModel(NewModel) /\ NewModel \in ModelStates /\ NewModel.path = Home
  <2>1. NewModel \in ModelStates
    BY DirsAssumption DEF NewModel, ModelStates, Listings, NoListing
  <2>2. ~NewModel.active /\ ~NewModel.loading /\ NewModel.scans = {} /\ NewModel.watched = {}
        /\ NewModel.path = Home
    BY DEF NewModel
  <2> QED
    BY <2>1, <2>2 DEF GoodModel, Watches, FreshScanIsOfThePlace, OneFreshScan, LoadingHasAScan, UpToDate
<1>2. GoodRemote(NewRemoteModel)
  <2>1. NewRemoteModel \in RemoteStates
    BY DEF NewRemoteModel, RemoteStates, Entries, Parts, NoEntries
  <2>2. /\ ~NewRemoteModel.loading /\ NewRemoteModel.contexts = {} /\ NewRemoteModel.sorts = {}
        /\ NewRemoteModel.rows.part = "none"
    BY DEF NewRemoteModel, NoEntries
  <2> QED
    BY <2>1, <2>2 DEF GoodRemote, FreshContextIsOfTheUri, FreshSortIsOfTheUri,
         OneFreshAnswer, LoadingHasAnAnswer, RowsAreOfTheUri
<1>3. PICK start \in {Home} \cup Shares :
         /\ history = <<start>>
         /\ remoteShown = (start \in Shares)
         /\ local = IF start \in Shares THEN setActive(NewModel, FALSE)
                    ELSE setActive(setPath(NewModel, start), TRUE)
         /\ far = IF start \in Shares THEN setUri(NewRemoteModel, start)
                  ELSE cancel(NewRemoteModel)
  BY DEF Init
<1>4. path = start /\ history \in Seq(Locations) /\ Len(history) = 1 /\ historyIndex = 1
  BY <1>3, DirsAssumption DEF Init, path, Locations
<1>5. DiskTypeOK /\ DiskIsRemembered
  BY DirsAssumption DEF Init, DiskTypeOK, DiskIsRemembered
<1>6. HistoryTypeOK
  BY <1>4, MountAssumption DEF HistoryTypeOK
<1>7. CASE start \in Shares
  <2>1. local = setActive(NewModel, FALSE) /\ far = setUri(NewRemoteModel, start) /\ remoteShown = TRUE
    BY <1>3, <1>7
  <2>2. LocalInv /\ local.active = FALSE
    BY <1>1, <2>1, SetActiveKeepsGood DEF LocalInv
  <2>3. FarInv /\ far.uri = start /\ Complete(far)
    BY <1>2, <1>7, <2>1, SetUriMakesGood DEF FarInv
  <2>4. OneBackendIsShown
    BY <1>3, <1>4, <1>7, <2>1, <2>2, <2>3 DEF OneBackendIsShown
  <2> QED
    BY <1>5, <1>6, <2>2, <2>3, <2>4 DEF SessionInv, NoWayBackIntoUnmounted, Init
<1>8. CASE start \notin Shares
  <2>1. local = setActive(setPath(NewModel, Home), TRUE) /\ far = cancel(NewRemoteModel) /\ remoteShown = FALSE
        /\ start = Home
    <3>1. (start \in Shares) = FALSE /\ start = Home
      BY <1>8
    <3> QED  BY <1>3, <3>1
  <2>2. GoodModel(setPath(NewModel, Home)) /\ setPath(NewModel, Home).path = Home
    BY <1>1, SetPathKeepsGood, DirsAssumption DEF Init
  <2>3. LocalInv /\ local.active = TRUE /\ local.path = Home
    BY <2>1, <2>2, SetActiveKeepsGood DEF LocalInv
  <2>4. FarInv
    BY <1>2, <2>1, CancelKeepsGood DEF FarInv
  <2>5. OneBackendIsShown
    BY <1>3, <1>4, <1>8, <2>1, <2>3 DEF OneBackendIsShown
  <2> QED
    BY <1>5, <1>6, <2>3, <2>4, <2>5 DEF SessionInv, NoWayBackIntoUnmounted, Init
<1> QED
  BY <1>7, <1>8

(* A step that applies a location and has it as the current entry.          *)
LEMMA AppliedIsShown ==
    ASSUME SessionInv, NEW p \in Locations, applyBackendForLocation(p), path' = p,
           UNCHANGED <<exists, content, changed, everGone>>
    PROVE  LocalInv' /\ FarInv' /\ OneBackendIsShown'
BY Applying DEF SessionInv, OneBackendIsShown

LEMMA NavigateKeepsSession ==
    ASSUME SessionInv, NEW p \in Locations, navigate(p)
    PROVE  SessionInv'
<1>1. /\ history \in Seq(Locations) /\ historyIndex \in 1..Len(history) /\ historyIndex < MaxHistory
      /\ MaxHistory \in Nat
  BY MountAssumption DEF SessionInv, HistoryTypeOK, navigate
<1> DEFINE before == SubSeq(history, 1, historyIndex)
<1>2. before \in Seq(Locations) /\ Len(before) = historyIndex
  BY <1>1
<1>3. \A i \in 1..historyIndex : before[i] = history[i]
  BY <1>1
<1>4. history' = Append(before, p) /\ historyIndex' = historyIndex + 1
  BY DEF navigate
<1> HIDE DEF before
<1>5. /\ history' \in Seq(Locations) /\ Len(history') = historyIndex + 1
      /\ \A i \in 1..Len(history') : history'[i] = IF i = historyIndex + 1 THEN p ELSE before[i]
  BY <1>1, <1>2, <1>4
<1>6. HistoryTypeOK' /\ path' = p
  BY <1>1, <1>4, <1>5 DEF HistoryTypeOK, path
<1>7. UNCHANGED <<exists, content, changed, mounted, unmountNotice, everGone>>
  BY DEF navigate, environment
<1>8. LocalInv' /\ FarInv' /\ OneBackendIsShown'
  BY <1>6, <1>7, AppliedIsShown DEF navigate
<1>9. DiskTypeOK' /\ DiskIsRemembered'
  BY <1>7 DEF SessionInv, DiskTypeOK, DiskIsRemembered
<1>10. NoWayBackIntoUnmounted'
  <2> SUFFICES ASSUME ~mounted, ~unmountNotice, NEW i \in 1..Len(history') PROVE history'[i] \notin MountDirs
    BY <1>7 DEF NoWayBackIntoUnmounted
  <2>1. CASE i = historyIndex + 1
    BY <1>5, <2>1, MountAssumption DEF navigate, SessionInv, DiskIsRemembered
  <2>2. CASE i # historyIndex + 1
    <3>1. i \in 1..historyIndex /\ i \in 1..Len(history)
      BY <1>1, <1>5, <2>2
    <3> QED
      BY <1>3, <1>5, <2>2, <3>1 DEF SessionInv, NoWayBackIntoUnmounted
  <2> QED
    BY <2>1, <2>2
<1> QED
  BY <1>6, <1>8, <1>9, <1>10 DEF SessionInv

LEMMA GoToKeepsSession ==
    ASSUME SessionInv, NEW i, goTo(i)
    PROVE  SessionInv'
<1>1. /\ i \in 1..Len(history) /\ historyIndex' = i /\ history' = history
      /\ applyBackendForLocation(history[i])
      /\ UNCHANGED <<exists, content, changed, mounted, unmountNotice, everGone>>
  BY DEF goTo, environment
<1>2. HistoryTypeOK' /\ path' = history[i] /\ history[i] \in Locations
  BY <1>1 DEF SessionInv, HistoryTypeOK, path
<1>3. LocalInv' /\ FarInv' /\ OneBackendIsShown'
  BY <1>1, <1>2, AppliedIsShown
<1>4. DiskTypeOK' /\ DiskIsRemembered' /\ NoWayBackIntoUnmounted'
  BY <1>1 DEF SessionInv, DiskTypeOK, DiskIsRemembered, NoWayBackIntoUnmounted
<1> QED
  BY <1>2, <1>3, <1>4 DEF SessionInv

LEMMA RefreshKeepsSession ==
    ASSUME SessionInv, refreshShown
    PROVE  SessionInv'
<1>1. UNCHANGED <<exists, content, changed, history, historyIndex, remoteShown, mounted,
                  unmountNotice, everGone>>
  BY DEF refreshShown, placeVars, environment
<1>2. HistoryTypeOK' /\ path' = path /\ DiskTypeOK' /\ DiskIsRemembered' /\ NoWayBackIntoUnmounted'
  BY <1>1 DEF SessionInv, HistoryTypeOK, path, DiskTypeOK, DiskIsRemembered, NoWayBackIntoUnmounted
<1>3. CASE remoteShown
  <2>1. far' = refreshRemote(far) /\ local' = local
    BY <1>3 DEF refreshShown
  <2>2. far.uri \in Shares
    BY <1>3 DEF SessionInv, OneBackendIsShown
  <2>3. GoodRemote(refreshRemote(far)) /\ Complete(refreshRemote(far)) /\ refreshRemote(far).uri = far.uri
    BY <2>2, RefreshRemoteKeepsGood DEF SessionInv, FarInv
  <2>4. FarInv' /\ LocalInv'
    BY <1>1, <2>1, <2>3, FarCall, LocalCall DEF SessionInv, LocalInv
  <2>5. OneBackendIsShown'
    BY <1>1, <1>2, <1>3, <2>1, <2>3 DEF SessionInv, OneBackendIsShown
  <2> QED
    BY <1>2, <2>4, <2>5 DEF SessionInv
<1>4. CASE ~remoteShown
  <2>1. local' = refresh(local) /\ far' = far
    BY <1>4 DEF refreshShown
  <2>2. GoodModel(refresh(local)) /\ refresh(local).active = local.active /\ refresh(local).path = local.path
    BY RefreshKeepsGood DEF SessionInv, LocalInv
  <2>3. FarInv' /\ LocalInv'
    BY <1>1, <2>1, <2>2, FarCall, LocalCall DEF SessionInv, FarInv
  <2>4. OneBackendIsShown'
    BY <1>1, <1>2, <1>4, <2>1, <2>2 DEF SessionInv, OneBackendIsShown
  <2> QED
    BY <1>2, <2>3, <2>4 DEF SessionInv
<1> QED
  BY <1>3, <1>4

LEMMA ToggleKeepsSession ==
    ASSUME SessionInv, toggleHidden
    PROVE  SessionInv'
<1>1. UNCHANGED <<exists, content, changed, far, history, historyIndex, remoteShown, mounted,
                  unmountNotice, everGone>>
      /\ local' = setShowHidden(local, TRUE)
  BY DEF toggleHidden, placeVars, environment
<1>2. HistoryTypeOK' /\ path' = path /\ DiskTypeOK' /\ DiskIsRemembered' /\ NoWayBackIntoUnmounted'
  BY <1>1 DEF SessionInv, HistoryTypeOK, path, DiskTypeOK, DiskIsRemembered, NoWayBackIntoUnmounted
<1>3. /\ GoodModel(setShowHidden(local, TRUE)) /\ setShowHidden(local, TRUE).active = local.active
      /\ setShowHidden(local, TRUE).path = local.path
  BY SetShowHiddenKeepsGood DEF SessionInv, LocalInv
<1>4. FarInv' /\ LocalInv'
  BY <1>1, <1>3, FarCall, LocalCall DEF SessionInv, FarInv
<1>5. OneBackendIsShown'
  BY <1>1, <1>2, <1>3 DEF SessionInv, OneBackendIsShown
<1> QED
  BY <1>2, <1>4, <1>5 DEF SessionInv

LEMMA RecoverKeepsSession ==
    ASSUME SessionInv, NEW root \in {MountDirs, Shares}, recoverFrom(root),
           unmountNotice' \in BOOLEAN,
           ~mounted /\ ~unmountNotice' => ~unmountNotice \/ root = MountDirs
    PROVE  /\ SessionInv'
           /\ path \notin root => path' = path /\ UNCHANGED <<local, far, remoteShown>>
<1> DEFINE new == rewritten(root)
           affected == \E i \in 1..Len(history) : history[i] \in root
<1>1. /\ UNCHANGED <<exists, content, changed, mounted, everGone>>
      /\ DiskTypeOK /\ HistoryTypeOK
  BY DEF recoverFrom, SessionInv
<1>2. DiskTypeOK' /\ DiskIsRemembered'
  BY <1>1 DEF SessionInv, DiskTypeOK, DiskIsRemembered
<1>3. CASE ~affected
  <2>1. UNCHANGED <<local, far, history, historyIndex, remoteShown>>
    BY <1>3 DEF recoverFrom, Inside, placeVars
  <2>2. HistoryTypeOK' /\ path' = path
    BY <1>1, <2>1 DEF HistoryTypeOK, path
  <2>3. LocalInv' /\ FarInv'
    BY <1>1, <2>1, LocalCall, FarCall DEF SessionInv, LocalInv, FarInv
  <2>4. OneBackendIsShown'
    BY <1>1, <2>1, <2>2 DEF SessionInv, OneBackendIsShown
  <2>5. NoWayBackIntoUnmounted'
    BY <1>1, <1>3, <2>1 DEF SessionInv, NoWayBackIntoUnmounted
  <2> QED
    BY <1>2, <2>1, <2>2, <2>3, <2>4, <2>5 DEF SessionInv
<1>4. CASE affected
  <2>1. history' = new.history /\ historyIndex' = new.index
    BY <1>4 DEF recoverFrom, Inside
  <2>2. /\ new.history \in Seq(Locations)
        /\ Len(new.history) \in 1..Len(history)
        /\ new.index \in 1..Len(new.history)
        /\ \A k \in 1..Len(new.history) :
             \/ new.history[k] = Fallback(root)
             \/ \E i \in 1..Len(history) :
                   new.history[k] = history[i] /\ history[i] \notin root
        /\ path \notin root => new.history[new.index] = path
    BY <1>1, Rewriting
  <2>3. IF path \in root THEN applyBackendForLocation(new.history[new.index])
        ELSE UNCHANGED <<local, far, remoteShown>>
    BY <1>4 DEF recoverFrom, Inside
  <2> HIDE DEF new
  <2>4. HistoryTypeOK'
    BY <1>1, <2>1, <2>2, MountAssumption DEF HistoryTypeOK
  <2>5. path' = new.history[new.index] /\ new.history[new.index] \in Locations
    BY <2>1, <2>2 DEF path
  <2>6. LocalInv' /\ FarInv' /\ OneBackendIsShown'
    <3>1. CASE path \in root
      BY <1>1, <2>3, <2>5, <3>1, AppliedIsShown
    <3>2. CASE path \notin root
      <4>1. path' = path /\ UNCHANGED <<local, far, remoteShown>>
        BY <2>2, <2>3, <2>5, <3>2
      <4>2. LocalInv' /\ FarInv'
        BY <1>1, <4>1, LocalCall, FarCall DEF SessionInv, LocalInv, FarInv
      <4> QED
        BY <1>1, <4>1, <4>2 DEF SessionInv, OneBackendIsShown
    <3> QED
      BY <3>1, <3>2
  <2>7. NoWayBackIntoUnmounted'
    <3> SUFFICES ASSUME ~mounted, ~unmountNotice', NEW k \in 1..Len(new.history)
                 PROVE  new.history[k] \notin MountDirs
      BY <1>1, <2>1 DEF NoWayBackIntoUnmounted
    <3>1. Fallback(root) \notin MountDirs
      BY <1>1, FallbackIsOutside
    <3>2. CASE root = MountDirs
      BY <2>2, <3>1, <3>2
    <3>3. CASE root # MountDirs
      <4>1. \A i \in 1..Len(history) : history[i] \notin MountDirs
        BY <3>3 DEF SessionInv, NoWayBackIntoUnmounted
      <4> QED
        BY <2>2, <3>1, <4>1
    <3> QED
      BY <3>2, <3>3
  <2> QED
    BY <1>2, <2>2, <2>3, <2>4, <2>5, <2>6, <2>7 DEF SessionInv
<1> QED
  BY <1>3, <1>4

LEMMA UnmountedKeepsSession ==
    ASSUME SessionInv, Unmounted
    PROVE  /\ SessionInv'
           /\ path \notin MountDirs => path' = path /\ UNCHANGED <<local, far, remoteShown>>
BY RecoverKeepsSession DEF Unmounted

LEMMA NetworkUnmountedKeepsSession ==
    ASSUME SessionInv, NetworkUnmounted
    PROVE  SessionInv'
<1>1. unmountNotice' = unmountNotice /\ unmountNotice \in BOOLEAN
  BY DEF NetworkUnmounted, SessionInv, DiskTypeOK
<1> QED
  BY <1>1, RecoverKeepsSession DEF NetworkUnmounted

-----------------------------------------------------------------------------
(* The disk changes: no step of these touches the place.                    *)
LEMMA DiskStepKeepsSession ==
    ASSUME SessionInv, LocalInv', far' = far, UNCHANGED <<history, historyIndex, remoteShown>>,
           local'.active = local.active, local'.path = local.path, everGone \subseteq everGone',
           DiskTypeOK', DiskIsRemembered', NoWayBackIntoUnmounted'
    PROVE  SessionInv'
<1>1. HistoryTypeOK' /\ path' = path
  BY DEF SessionInv, HistoryTypeOK, path
<1>2. FarInv'
  BY FarCall DEF SessionInv, FarInv
<1>3. OneBackendIsShown'
  BY <1>1 DEF SessionInv, OneBackendIsShown
<1> QED
  BY <1>1, <1>2, <1>3 DEF SessionInv

LEMMA VanishKeepsLocal ==
    ASSUME SessionInv, NEW gone \in SUBSET Dirs, DirsVanish(gone)
    PROVE  LocalInv' /\ local'.active = local.active /\ local'.path = local.path /\ changed' \in BOOLEAN
<1>1. local \in ModelStates /\ local.watched \subseteq exists /\ changed \in BOOLEAN
  BY DEF SessionInv, LocalInv, GoodModel, Watches, DiskTypeOK
<1>2. local.watched \ gone = local.watched \cap exists'
  BY <1>1 DEF DirsVanish
<1>3. local' = [local EXCEPT !.watched = local.watched \cap exists']
  BY <1>1, <1>2 DEF DirsVanish, ModelStates
<1>4. changed' \in BOOLEAN /\ (changed \/ ~(local.watched \subseteq exists') => changed')
  BY <1>1 DEF DirsVanish
<1>5. content' = content
  BY DEF DirsVanish
<1> QED
  BY <1>3, <1>4, <1>5, DiskKeepsLocal DEF SessionInv

LEMMA AppearKeepsLocal ==
    ASSUME SessionInv, NEW back \in SUBSET Dirs, back \cap exists = {}, DirsAppear(back)
    PROVE  LocalInv' /\ local'.active = local.active /\ local'.path = local.path
<1>1. local \in ModelStates /\ local.watched \subseteq exists /\ changed \in BOOLEAN
      /\ local.watched \subseteq Dirs
  BY DEF SessionInv, LocalInv, GoodModel, Watches, DiskTypeOK, ModelStates
<1>2. exists' = exists \cup back /\ changed' = changed /\ local' = local
      /\ content' = [d \in Dirs |-> IF d \in back THEN content[d] + 1 ELSE content[d]]
  BY DEF DirsAppear
<1>3. local.watched = local.watched \cap exists' /\ local.watched \subseteq exists'
  BY <1>1, <1>2
<1>4. local' = [local EXCEPT !.watched = local.watched \cap exists']
  BY <1>1, <1>2, <1>3 DEF ModelStates
<1>5. \A d \in local.watched : content'[d] = content[d]
  BY <1>1, <1>2
<1> QED
  BY <1>1, <1>2, <1>3, <1>4, <1>5, DiskKeepsLocal DEF SessionInv

LEMMA UnmountKeepsSession ==
    ASSUME SessionInv, Unmount
    PROVE  SessionInv'
<1>1. /\ DirsVanish(MountDirs) /\ ~mounted' /\ unmountNotice' /\ everGone' = everGone \cup MountDirs
      /\ mounted' = FALSE /\ unmountNotice' = TRUE
      /\ far' = far /\ UNCHANGED <<history, historyIndex, remoteShown>>
  BY DEF Unmount, placeVars
<1>2. LocalInv' /\ local'.active = local.active /\ local'.path = local.path /\ changed' \in BOOLEAN
  BY <1>1, MountAssumption, VanishKeepsLocal
<1>3. exists' = exists \ MountDirs /\ content' = content
  BY <1>1 DEF DirsVanish
<1>4. DiskTypeOK' /\ DiskIsRemembered' /\ NoWayBackIntoUnmounted'
  BY <1>1, <1>2, <1>3, MountAssumption DEF SessionInv, DiskTypeOK, DiskIsRemembered, NoWayBackIntoUnmounted
<1> QED
  BY <1>1, <1>2, <1>4, DiskStepKeepsSession

LEMMA MountKeepsSession ==
    ASSUME SessionInv, Mount
    PROVE  SessionInv'
<1>1. /\ ~mounted /\ DirsAppear(MountDirs) /\ mounted' = TRUE
      /\ far' = far /\ UNCHANGED <<history, historyIndex, remoteShown, unmountNotice, everGone>>
  BY DEF Mount, placeVars
<1>2. LocalInv' /\ local'.active = local.active /\ local'.path = local.path
  BY <1>1, MountAssumption, AppearKeepsLocal DEF SessionInv, DiskIsRemembered
<1>3. exists' = exists \cup MountDirs /\ changed' = changed
      /\ content' = [d \in Dirs |-> IF d \in MountDirs THEN content[d] + 1 ELSE content[d]]
  BY <1>1 DEF DirsAppear
<1>4. DiskTypeOK' /\ DiskIsRemembered' /\ NoWayBackIntoUnmounted'
  BY <1>1, <1>3, MountAssumption DEF SessionInv, DiskTypeOK, DiskIsRemembered, NoWayBackIntoUnmounted
<1> QED
  BY <1>1, <1>2, <1>4, DiskStepKeepsSession

LEMMA RemoveKeepsSession ==
    ASSUME SessionInv, NEW d \in Dirs, Remove(d)
    PROVE  SessionInv'
<1>1. /\ d # Home /\ DirsVanish({d}) /\ everGone' = everGone \cup {d}
      /\ far' = far /\ UNCHANGED <<history, historyIndex, remoteShown, mounted, unmountNotice>>
  BY DEF Remove, placeVars
<1>2. LocalInv' /\ local'.active = local.active /\ local'.path = local.path /\ changed' \in BOOLEAN
  BY <1>1, VanishKeepsLocal
<1>3. exists' = exists \ {d} /\ content' = content
  BY <1>1 DEF DirsVanish
<1>4. DiskTypeOK' /\ DiskIsRemembered' /\ NoWayBackIntoUnmounted'
  BY <1>1, <1>2, <1>3 DEF SessionInv, DiskTypeOK, DiskIsRemembered, NoWayBackIntoUnmounted
<1> QED
  BY <1>1, <1>2, <1>4, DiskStepKeepsSession

LEMMA RecreateKeepsSession ==
    ASSUME SessionInv, NEW d \in Dirs, Recreate(d)
    PROVE  SessionInv'
<1>1. /\ d \notin exists /\ (d \in MountDirs => mounted) /\ DirsAppear({d})
      /\ far' = far
      /\ UNCHANGED <<history, historyIndex, remoteShown, mounted, unmountNotice, everGone>>
  BY DEF Recreate, placeVars, environment
<1>2. LocalInv' /\ local'.active = local.active /\ local'.path = local.path
  BY <1>1, AppearKeepsLocal
<1>3. exists' = exists \cup {d} /\ changed' = changed
      /\ content' = [e \in Dirs |-> IF e \in {d} THEN content[e] + 1 ELSE content[e]]
  BY <1>1 DEF DirsAppear
<1>4. DiskTypeOK' /\ DiskIsRemembered' /\ NoWayBackIntoUnmounted'
  BY <1>1, <1>3 DEF SessionInv, DiskTypeOK, DiskIsRemembered, NoWayBackIntoUnmounted
<1> QED
  BY <1>1, <1>2, <1>4, DiskStepKeepsSession

LEMMA ContentKeepsSession ==
    ASSUME SessionInv, NEW d \in Dirs, ContentChanges(d), far' = far, RestUnchanged
    PROVE  SessionInv'
<1>1. /\ exists' = exists /\ local' = local /\ changed' = (changed \/ d \in local.watched)
      /\ content' = [content EXCEPT ![d] = content[d] + 1]
      /\ UNCHANGED <<history, historyIndex, remoteShown, mounted, unmountNotice, everGone>>
  BY DEF ContentChanges, RestUnchanged, placeVars, environment
<1>2. local \in ModelStates /\ local.watched \subseteq exists /\ changed \in BOOLEAN
      /\ content \in [Dirs -> Nat]
  BY DEF SessionInv, LocalInv, GoodModel, Watches, DiskTypeOK
<1>3. local.watched = local.watched \cap exists' /\ local.watched \subseteq exists'
  BY <1>1, <1>2
<1>4. local' = [local EXCEPT !.watched = local.watched \cap exists']
  BY <1>1, <1>2, <1>3 DEF ModelStates
<1>5. ~changed' => \A e \in local.watched : content'[e] = content[e]
  <2>1. d \in local.watched => changed'
    BY <1>1
  <2>2. \A e \in Dirs : e # d => content'[e] = content[e]
    BY <1>1, <1>2
  <2>3. local.watched \subseteq Dirs
    BY <1>2 DEF ModelStates
  <2> QED  BY <2>1, <2>2, <2>3
<1>6. LocalInv' /\ local'.active = local.active /\ local'.path = local.path
  BY <1>1, <1>2, <1>3, <1>4, <1>5, DiskKeepsLocal DEF SessionInv
<1>7. DiskTypeOK' /\ DiskIsRemembered' /\ NoWayBackIntoUnmounted'
  BY <1>1, <1>2 DEF SessionInv, DiskTypeOK, DiskIsRemembered, NoWayBackIntoUnmounted
<1> QED
  BY <1>1, <1>6, <1>7, DiskStepKeepsSession

LEMMA LocalStepKeepsSession ==
    ASSUME SessionInv, LocalStep, far' = far, RestUnchanged
    PROVE  SessionInv'
<1>1. UNCHANGED <<history, historyIndex, remoteShown, mounted, unmountNotice, everGone>>
  BY DEF RestUnchanged, placeVars, environment
<1>2. LocalInv /\ content \in [Dirs -> Nat] /\ changed \in BOOLEAN
  BY DEF SessionInv, DiskTypeOK
<1> DEFINE KeptLocal == /\ LocalInv' /\ local'.active = local.active /\ local'.path = local.path
                        /\ exists' = exists /\ content' = content /\ changed' \in BOOLEAN
<1>3. KeptLocal
  <2>1. ASSUME NEW s \in local.scans, ScanReads(s) PROVE KeptLocal
    BY <1>2, <2>1, ScanReadsKeepsLocal DEF ScanReads
  <2>2. ASSUME NEW s \in local.scans, ScanFinished(s) PROVE KeptLocal
    BY <1>2, <2>2, ScanFinishedKeepsLocal DEF ScanFinished
  <2>3. CASE DirectoryChanged
    BY <1>2, <2>3, DirectoryChangedKeepsLocal DEF DirectoryChanged, diskVars
  <2>4. CASE RefreshTimeout
    BY <1>2, <2>4, RefreshTimeoutKeepsLocal DEF RefreshTimeout
  <2> QED
    BY <2>1, <2>2, <2>3, <2>4 DEF LocalStep
<1>4. DiskTypeOK' /\ DiskIsRemembered' /\ NoWayBackIntoUnmounted'
  BY <1>1, <1>3 DEF SessionInv, DiskTypeOK, DiskIsRemembered, NoWayBackIntoUnmounted
<1> QED
  BY <1>1, <1>3, <1>4, DiskStepKeepsSession

LEMMA RemoteStepKeepsSession ==
    ASSUME SessionInv, RemoteStep, UNCHANGED <<exists, content, changed, local>>, RestUnchanged
    PROVE  SessionInv'
<1>1. UNCHANGED <<history, historyIndex, remoteShown, mounted, unmountNotice, everGone>>
  BY DEF RestUnchanged, placeVars, environment
<1> DEFINE KeptFar == FarInv' /\ far'.uri = far.uri /\ (Complete(far) => Complete(far'))
<1>2. KeptFar
  <2>1. ASSUME NEW c \in far.contexts, RemoteOpened(c) PROVE KeptFar
    BY <2>1, RemoteOpenedKeepsFar DEF SessionInv
  <2>2. ASSUME NEW c \in far.contexts, RemoteBatch(c) PROVE KeptFar
    BY <2>2, RemoteBatchKeepsFar DEF SessionInv
  <2>3. ASSUME NEW c \in far.contexts, RemoteEnd(c) PROVE KeptFar
    BY <2>3, RemoteEndKeepsFar DEF SessionInv
  <2>4. ASSUME NEW c \in far.contexts, RemoteClosed(c) PROVE KeptFar
    BY <2>4, RemoteClosedKeepsFar DEF SessionInv
  <2>5. ASSUME NEW j \in far.sorts, RemoteSorted(j) PROVE KeptFar
    BY <2>5, RemoteSortedKeepsFar DEF SessionInv
  <2> QED
    BY <2>1, <2>2, <2>3, <2>4, <2>5 DEF RemoteStep
<1>3. HistoryTypeOK' /\ path' = path /\ DiskTypeOK' /\ DiskIsRemembered' /\ NoWayBackIntoUnmounted'
  BY <1>1 DEF SessionInv, HistoryTypeOK, path, DiskTypeOK, DiskIsRemembered, NoWayBackIntoUnmounted
<1>4. LocalInv'
  BY LocalCall DEF SessionInv, LocalInv
<1>5. OneBackendIsShown'
  BY <1>1, <1>2, <1>3 DEF SessionInv, OneBackendIsShown
<1> QED
  BY <1>2, <1>3, <1>4, <1>5 DEF SessionInv

LEMMA StutterKeepsSession ==
    ASSUME SessionInv, UNCHANGED vars
    PROVE  SessionInv'
<1>1. UNCHANGED <<exists, content, changed, local, far, history, historyIndex, remoteShown, mounted,
                  unmountNotice, everGone>>
  BY DEF vars
<1>2. LocalInv'
  BY <1>1, LocalCall DEF SessionInv, LocalInv
<1>3. DiskTypeOK' /\ DiskIsRemembered' /\ NoWayBackIntoUnmounted'
  BY <1>1 DEF SessionInv, DiskTypeOK, DiskIsRemembered, NoWayBackIntoUnmounted
<1> QED
  BY <1>1, <1>2, <1>3, DiskStepKeepsSession

LEMMA NextKeepsSession == SessionInv /\ [Next]_vars => SessionInv'
<1> SUFFICES ASSUME SessionInv, [Next]_vars PROVE SessionInv'
  OBVIOUS
<1>1. ASSUME NEW p \in Locations, navigate(p) PROVE SessionInv'
  BY <1>1, NavigateKeepsSession
<1>2. ASSUME NEW i \in 1..MaxHistory, goTo(i) PROVE SessionInv'
  BY <1>2, GoToKeepsSession
<1>3. CASE refreshShown
  BY <1>3, RefreshKeepsSession
<1>4. CASE toggleHidden
  BY <1>4, ToggleKeepsSession
<1>5. CASE Unmount
  BY <1>5, UnmountKeepsSession
<1>6. CASE Mount
  BY <1>6, MountKeepsSession
<1>7. CASE NetworkUnmounted
  BY <1>7, NetworkUnmountedKeepsSession
<1>8. ASSUME NEW d \in Dirs, Remove(d) \/ Recreate(d) PROVE SessionInv'
  BY <1>8, RemoveKeepsSession, RecreateKeepsSession
<1>9. CASE Unmounted
  BY <1>9, UnmountedKeepsSession
<1>10. CASE LocalStep /\ UNCHANGED far /\ RestUnchanged
  BY <1>10, LocalStepKeepsSession
<1>11. ASSUME NEW d \in Dirs, ContentChanges(d) /\ UNCHANGED far /\ RestUnchanged PROVE SessionInv'
  BY <1>11, ContentKeepsSession
<1>12. CASE RemoteStep /\ UNCHANGED <<exists, content, changed, local>> /\ RestUnchanged
  BY <1>12, RemoteStepKeepsSession
<1>13. CASE UNCHANGED vars
  BY <1>13, StutterKeepsSession
<1> QED
  BY <1>1, <1>2, <1>3, <1>4, <1>5, <1>6, <1>7, <1>8, <1>9, <1>10, <1>11, <1>12, <1>13
  DEF Next, UserStep

LEMMA SessionInvariance == Spec => []SessionInv
BY InitSession, NextKeepsSession, PTL DEF Spec

-----------------------------------------------------------------------------
(* The local listing that is on screen, watched and settled is that of its  *)
(* directory as it is, for any number of directories, changes and overtaken *)
(* scans (DirectoryModel's generation, watcher and debounce timer).         *)
THEOREM ListingIsCurrent == Spec => []SettledListingIsCurrent
<1>1. SessionInv => SettledListingIsCurrent
  BY DEF SessionInv, LocalInv, GoodModel, UpToDate, SettledListingIsCurrent
<1> QED
  BY <1>1, SessionInvariance, PTL

(* What is on screen is of the place where pasted and new files go, the     *)
(* remote rows are of their location and complete once loading has ended    *)
(* without an error, unless GIO cancelled the scan by itself, which         *)
(* finishAfterClose takes for the program's own cancellation (cutOff); and  *)
(* a label that says READING stands for a scan that will be accepted        *)
(* (applyBackendForLocation and both models).                               *)
THEOREM ScreenIsTrue == Spec => []ScreenTellsTheTruth
<1>1. SessionInv => SessionTypeOK
  BY DEF SessionInv, DiskTypeOK, HistoryTypeOK, LocalInv, GoodModel, FarInv, GoodRemote,
         OneBackendIsShown, SessionTypeOK
<1>2. SessionInv => ScreenShowsThePlace
  BY DEF SessionInv, OneBackendIsShown, ScreenShowsThePlace, ShownPath
<1>3. SessionInv => RemoteRowsAreOfTheLocation
  BY DEF SessionInv, FarInv, GoodRemote, RowsAreOfTheUri, OneBackendIsShown, Complete,
         RemoteRowsAreOfTheLocation
<1>4. SessionInv => ReadingHasAScan
  <2> SUFFICES ASSUME SessionInv PROVE ReadingHasAScan
    OBVIOUS
  <2>1. local.loading => \E s \in local.scans : s.fresh /\ s.path = local.path
    BY DEF SessionInv, LocalInv, GoodModel, LoadingHasAScan, FreshScanIsOfThePlace
  <2>2. \A c \in far.contexts : c.fresh => c.current /\ ~c.superseded
    BY DEF SessionInv, FarInv, GoodRemote, FreshContextIsOfTheUri
  <2>3. far.loading => (\E c \in far.contexts : c.fresh) \/ (\E j \in far.sorts : j.fresh)
    BY DEF SessionInv, FarInv, GoodRemote, LoadingHasAnAnswer
  <2> QED
    BY <2>1, <2>2, <2>3 DEF ReadingHasAScan
<1>5. SessionInv => ScreenTellsTheTruth
  BY <1>1, <1>2, <1>3, <1>4 DEF ScreenTellsTheTruth
<1> QED
  BY <1>5, SessionInvariance, PTL

(* Once the sessions have recovered from an unmount, no entry of any        *)
(* history leads back (recoverFromUnmount), whatever is visited before it   *)
(* is mounted again.                                                        *)
THEOREM NothingLeadsBack == Spec => []NoWayBackIntoUnmounted
BY SessionInvariance, PTL DEF SessionInv

(* A session that is elsewhere keeps its current entry and its listing when *)
(* a file system goes, however its history is rewritten around it.          *)
THEOREM RecoveryIsLocal == Spec => RecoveryKeepsPlace
<1> DEFINE Recovered == unmountNotice /\ ~unmountNotice' /\ path \notin MountDirs
                        => /\ history'[historyIndex'] = history[historyIndex]
                           /\ UNCHANGED <<local, far, remoteShown>>
<1>1. SessionInv /\ [Next]_vars => Recovered
  <2> SUFFICES ASSUME SessionInv, [Next]_vars, unmountNotice, ~unmountNotice'
               PROVE  Recovered
    OBVIOUS
  <2>1. Unmounted
    BY DEF Next, UserStep, LocalStep, vars, RestUnchanged, environment, navigate, goTo, refreshShown,
           toggleHidden, Unmount, Mount, NetworkUnmounted, Remove, Recreate
  <2> QED
    BY <2>1, UnmountedKeepsSession DEF path
<1>2. SessionInv /\ [Next]_vars => [Recovered]_vars
  BY <1>1
<1> HIDE DEF Recovered
<1>3. Spec => [][Recovered]_vars
  BY <1>2, SessionInvariance, PTL DEF Spec
<1> QED
  BY <1>3 DEF RecoveryKeepsPlace, Recovered
=============================================================================

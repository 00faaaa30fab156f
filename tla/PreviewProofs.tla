--------------------------- MODULE PreviewProofs ---------------------------
(***************************************************************************)
(* A lane of the preview scheduler and the loaders that share it, for any  *)
(* loaders, files, limit of the lane and numbers of requests, of changes   *)
(* and of the helper's stray lines.                                        *)
(***************************************************************************)
EXTENDS PreviewLoader, FiniteSetTheorems, TLAPS

(* What the handlers of the lane keep of it.  A process that is ended on
   purpose is being killed, so an active request is never lost when the
   process ends.                                                            *)
Held(l) == Range(l.pending) \cup ({l.active} \ {None})

Steady(l) ==
  /\ l \in Lanes
  /\ IsInjective(l.pending) /\ l.active \notin Range(l.pending)
  /\ l.active # None => l.process = "Running" /\ ~l.stopping /\ l.requestTimer
  /\ l.process = "NotRunning" => ~l.stopping
  /\ l.intentional => l.stopping

OnItsWay(l) == l.pending # <<>> => l.process # "NotRunning"

(* How often each request was handed to a helper.                           *)
RunsCounted ==
  \A i \in Ids :
    /\ requests[i].status = "new" => runs[i] = 0 /\ requests[i].retries = 0
    /\ i \in Range(lane.pending) => runs[i] = requests[i].retries
    /\ i = lane.active => runs[i] = requests[i].retries + 1
    /\ runs[i] <= requests[i].retries + 1

LaneInv ==
  /\ LaneTypeOK /\ RunsCounted
  /\ Steady(lane) /\ OnItsWay(lane) /\ Admitted(lane) <= Capacity
  /\ {i \in Ids : Waiting(i)} = Held(lane)

(* What a loader knows of its request, and what it shows.                   *)
RequestIsCurrent ==
  \A i \in Ids : Waiting(i) =>
    LET o == requests[i].owner
    IN  /\ ticket[i] = [generation |-> generation[o], path |-> path[o]]
        /\ active[o] /\ path[o] # NoPath /\ ~debounce[o] /\ loading[o]

OneRequestEach ==
  \A i, k \in Ids : Waiting(i) /\ Waiting(k) /\ requests[i].owner = requests[k].owner => i = k

SpinnerIsServed ==
  \A o \in Owners : loading[o] => \E i \in Ids : Waiting(i) /\ requests[i].owner = o

IInv ==
  /\ LaneInv /\ LoaderTypeOK
  /\ RequestIsCurrent /\ OneRequestEach /\ SpinnerIsServed
  /\ PreviewMatchesSelection

-----------------------------------------------------------------------------
(* The queue: taking the first, adding one at an end, taking some out.      *)

LEMMA HeadFacts ==
  ASSUME NEW q \in Seq(Ids), q # <<>>, IsInjective(q)
  PROVE  /\ Head(q) \in Ids /\ Tail(q) \in Seq(Ids) /\ Len(Tail(q)) = Len(q) - 1
         /\ Head(q) \in Range(q) /\ Range(Tail(q)) = Range(q) \ {Head(q)}
         /\ IsInjective(Tail(q))
<1> DEFINE t == Tail(q)
<1>1. /\ Len(q) \in Nat \ {0} /\ t \in Seq(Ids) /\ Len(t) = Len(q) - 1
      /\ DOMAIN q = 1 .. Len(q) /\ DOMAIN t = 1 .. Len(t)
      /\ Head(q) = q[1] /\ \A n \in 1 .. Len(t) : t[n] = q[n + 1]
  OBVIOUS
<1> HIDE DEF t
<1>2. \A m, n \in 1 .. Len(q) : q[m] = q[n] => m = n
  BY <1>1 DEF IsInjective
<1>3. 1 \in 1 .. Len(q) /\ q[1] \in Ids
  BY <1>1
<1>4. Range(t) \subseteq Range(q) \ {q[1]}
  <2> SUFFICES ASSUME NEW n \in 1 .. Len(t) PROVE t[n] \in Range(q) /\ t[n] # q[1]
    BY <1>1 DEF Range
  <2>1. n + 1 \in 1 .. Len(q) /\ n + 1 # 1 /\ t[n] = q[n + 1]
    BY <1>1
  <2> QED
    BY <1>1, <1>2, <1>3, <2>1 DEF Range
<1>5. Range(q) \ {q[1]} \subseteq Range(t)
  <2> SUFFICES ASSUME NEW n \in 1 .. Len(q), q[n] # q[1] PROVE q[n] \in Range(t)
    BY <1>1 DEF Range
  <2>1. n - 1 \in 1 .. Len(t) /\ (n - 1) + 1 = n
    BY <1>1
  <2>2. t[n - 1] = q[n]
    BY <1>1, <2>1
  <2> QED
    BY <1>1, <2>1, <2>2 DEF Range
<1>6. IsInjective(t)
  <2> SUFFICES ASSUME NEW m \in 1 .. Len(t), NEW n \in 1 .. Len(t), t[m] = t[n] PROVE m = n
    BY <1>1 DEF IsInjective
  <2>1. m + 1 \in 1 .. Len(q) /\ n + 1 \in 1 .. Len(q) /\ q[m + 1] = q[n + 1]
    BY <1>1
  <2> QED
    BY <1>2, <2>1
<1>7. Range(t) = Range(q) \ {q[1]}
  BY <1>4, <1>5
<1>8. q[1] \in Range(q)
  BY <1>1, <1>3 DEF Range
<1> QED
  BY <1>1, <1>3, <1>6, <1>7, <1>8 DEF t

LEMMA AppendFacts ==
  ASSUME NEW q \in Seq(Ids), NEW i \in Ids, IsInjective(q), i \notin Range(q)
  PROVE  /\ Append(q, i) \in Seq(Ids) /\ Len(Append(q, i)) = Len(q) + 1
         /\ Range(Append(q, i)) = Range(q) \cup {i} /\ IsInjective(Append(q, i))
<1> DEFINE a == Append(q, i)
<1>1. /\ Len(q) \in Nat /\ a \in Seq(Ids) /\ Len(a) = Len(q) + 1
      /\ DOMAIN q = 1 .. Len(q) /\ DOMAIN a = 1 .. Len(a)
      /\ a[Len(q) + 1] = i /\ \A n \in 1 .. Len(q) : a[n] = q[n]
  OBVIOUS
<1> HIDE DEF a
<1>2. \A n \in 1 .. Len(a) : n \in 1 .. Len(q) \/ n = Len(q) + 1
  BY <1>1
<1>3. Len(q) + 1 \in 1 .. Len(a) /\ \A n \in 1 .. Len(q) : n \in 1 .. Len(a)
  BY <1>1
<1>4. Range(a) = Range(q) \cup {i}
  BY <1>1, <1>2, <1>3 DEF Range
<1>5. IsInjective(a)
  BY <1>1, <1>2, <1>3 DEF Range, IsInjective
<1> QED
  BY <1>1, <1>4, <1>5 DEF a

LEMMA PrependFacts ==
  ASSUME NEW q \in Seq(Ids), NEW i \in Ids, IsInjective(q), i \notin Range(q)
  PROVE  /\ <<i>> \o q \in Seq(Ids) /\ Len(<<i>> \o q) = Len(q) + 1
         /\ Range(<<i>> \o q) = Range(q) \cup {i} /\ IsInjective(<<i>> \o q)
<1> DEFINE a == <<i>> \o q
<1>1. /\ Len(q) \in Nat /\ a \in Seq(Ids) /\ Len(a) = Len(q) + 1
      /\ DOMAIN q = 1 .. Len(q) /\ DOMAIN a = 1 .. Len(a)
      /\ a[1] = i /\ \A n \in 2 .. Len(a) : a[n] = q[n - 1]
  OBVIOUS
<1> HIDE DEF a
<1>2. \A n \in 1 .. Len(a) : n = 1 \/ (n \in 2 .. Len(a) /\ n - 1 \in 1 .. Len(q))
  BY <1>1
<1>3. 1 \in 1 .. Len(a) /\ \A n \in 1 .. Len(q) : n + 1 \in 2 .. Len(a) /\ (n + 1) - 1 = n
  BY <1>1
<1>4. Range(a) = Range(q) \cup {i}
  <2>1. Range(a) \subseteq Range(q) \cup {i}
    BY <1>1, <1>2 DEF Range
  <2>2. ASSUME NEW n \in 1 .. Len(q) PROVE q[n] \in Range(a)
    <3>1. n + 1 \in 1 .. Len(a) /\ a[n + 1] = q[n]
      BY <1>1, <1>3
    <3> QED
      BY <1>1, <3>1 DEF Range
  <2>3. i \in Range(a)
    BY <1>1, <1>3 DEF Range
  <2>4. \A e \in Range(q) : e \in Range(a)
    BY <1>1, <2>2 DEF Range
  <2> QED
    BY <2>1, <2>3, <2>4
<1>5. IsInjective(a)
  <2> SUFFICES ASSUME NEW m \in 1 .. Len(a), NEW n \in 1 .. Len(a), a[m] = a[n] PROVE m = n
    BY <1>1 DEF IsInjective
  <2>1. \A k \in 1 .. Len(q) : q[k] # i
    BY <1>1 DEF Range
  <2>2. CASE m = 1 \/ n = 1
    BY <1>1, <1>2, <2>1, <2>2
  <2>3. CASE m # 1 /\ n # 1
    <3>1. m - 1 \in 1 .. Len(q) /\ n - 1 \in 1 .. Len(q) /\ q[m - 1] = q[n - 1]
      BY <1>1, <1>2, <2>3
    <3>2. m - 1 = n - 1
      BY <1>1, <3>1 DEF IsInjective
    <3> QED
      BY <3>2
  <2> QED
    BY <2>2, <2>3
<1> QED
  BY <1>1, <1>4, <1>5 DEF a

(* KthOf enumerates the positions that stay, in their order.                *)
LEMMA UpToIsFinite ==
    ASSUME NEW n \in Nat, NEW S \in SUBSET (1..n), NEW i \in Nat
    PROVE  IsFiniteSet(S) /\ IsFiniteSet({j \in S : j <= i})
<1>1. IsFiniteSet(1..n)
  BY FS_Interval
<1>2. IsFiniteSet(S)
  BY <1>1, FS_Subset
<1>3. {j \in S : j <= i} \in SUBSET S
  BY Zenon
<1> QED
  BY <1>2, <1>3, FS_Subset

LEMMA RankType ==
    ASSUME NEW n \in Nat, NEW S \in SUBSET (1..n), NEW i \in Nat
    PROVE  RankIn(S, i) \in 0..Cardinality(S) /\ Cardinality(S) \in 0..n
<1> DEFINE A == {j \in S : j <= i}
<1>1. IsFiniteSet(1..n) /\ Cardinality(1..n) = n
  BY FS_Interval
<1>2. IsFiniteSet(S) /\ Cardinality(S) <= n /\ Cardinality(S) \in Nat
  BY <1>1, FS_Subset, FS_CardinalityType
<1>3. A \in SUBSET S
  BY Zenon
<1>4. Cardinality(A) = RankIn(S, i)
  BY DEF RankIn
<1> HIDE DEF A
<1>5. Cardinality(A) \in Nat /\ Cardinality(A) <= Cardinality(S)
  BY <1>2, <1>3, FS_Subset, FS_CardinalityType
<1> QED
  BY <1>2, <1>4, <1>5

LEMMA RankIncreases ==
    ASSUME NEW n \in Nat, NEW S \in SUBSET (1..n), NEW i \in S, NEW j \in S, i < j
    PROVE  RankIn(S, i) < RankIn(S, j)
<1> DEFINE A == {l \in S : l <= i}  B == {l \in S : l <= j}
<1>0. i \in Nat /\ j \in Nat /\ \A l \in S : l \in Nat
  OBVIOUS
<1>1. A \in SUBSET B
  <2>1. ASSUME NEW l \in A PROVE l \in B
    BY <1>0, <2>1
  <2> QED  BY <2>1
<1>2. j \in B /\ j \notin A
  BY <1>0
<1>3. IsFiniteSet(A) /\ IsFiniteSet(B)
  BY <1>0, UpToIsFinite, Zenon
<1>4. RankIn(S, i) = Cardinality(A) /\ RankIn(S, j) = Cardinality(B)
  BY DEF RankIn
<1> HIDE DEF A, B
<1>5. Cardinality(A) \in Nat /\ Cardinality(B) \in Nat
  BY <1>3, FS_CardinalityType
<1>6. Cardinality(A) <= Cardinality(B) /\ Cardinality(A) # Cardinality(B)
  BY <1>1, <1>2, <1>3, FS_Subset
<1> QED
  BY <1>4, <1>5, <1>6

LEMMA RankIsPositive ==
    ASSUME NEW n \in Nat, NEW S \in SUBSET (1..n), NEW i \in 1..n, NEW j \in S, j <= i
    PROVE  RankIn(S, i) \in 1..Cardinality(S)
<1> DEFINE B == {l \in S : l <= i}
<1>0. i \in Nat
  OBVIOUS
<1>1. IsFiniteSet(B)
  BY <1>0, UpToIsFinite, Zenon
<1>2. B # {}
  OBVIOUS
<1>3. Cardinality(B) # 0 
  <2> HIDE DEF B
  <2> QED  BY <1>1, <1>2, FS_EmptySet
<1>4. RankIn(S, i) \in 0..Cardinality(S) /\ Cardinality(S) \in Nat
  BY <1>0, RankType
<1> QED
  BY <1>3, <1>4 DEF RankIn

(* Every rank is that of one index.                                         *)
LEMMA KthIsThere ==
    ASSUME NEW n \in Nat, NEW S \in SUBSET (1..n), NEW k \in 1..Cardinality(S)
    PROVE  KthOf(S, k) \in S /\ RankIn(S, KthOf(S, k)) = k
<1> DEFINE f == [i \in S |-> RankIn(S, i)]
<1>1. IsFiniteSet(S) /\ Cardinality(S) \in Nat
  <2> 0 \in Nat
    OBVIOUS
  <2> QED  BY UpToIsFinite, FS_CardinalityType
<1>2. IsFiniteSet(1..Cardinality(S)) /\ Cardinality(1..Cardinality(S)) = Cardinality(S)
  BY <1>1, FS_Interval
<1>3. f \in [S -> 1..Cardinality(S)]
  <2>1. ASSUME NEW i \in S PROVE RankIn(S, i) \in 1..Cardinality(S)
    BY RankIsPositive
  <2> QED  BY <2>1
<1>4. \A i, j \in S : f[i] = f[j] => i = j
  <2> TAKE i \in S
  <2> TAKE j \in S
  <2>0. i \in Nat /\ j \in Nat
    OBVIOUS
  <2>1. f[i] = RankIn(S, i) /\ f[j] = RankIn(S, j) /\ RankIn(S, i) \in Nat /\ RankIn(S, j) \in Nat
    BY <2>0, RankType
  <2>2. i < j => RankIn(S, i) < RankIn(S, j)
    BY RankIncreases
  <2>3. j < i => RankIn(S, j) < RankIn(S, i)
    BY RankIncreases
  <2> QED  BY <2>0, <2>1, <2>2, <2>3
<1>5. f \in Injection(S, 1..Cardinality(S))
  <2> HIDE DEF f
  <2> QED  BY <1>3, <1>4 DEF Injection, IsInjective
<1>6. f \in Surjection(S, 1..Cardinality(S))
  <2> HIDE DEF f
  <2> QED  BY <1>2, <1>5, FS_Injection
<1>7. PICK i \in S : f[i] = k
  <2> HIDE DEF f
  <2> QED  BY <1>6 DEF Surjection
<1>8. RankIn(S, i) = k
  BY <1>7
<1> QED
  BY <1>8 DEF KthOf

LEMMA KthOfRank ==
    ASSUME NEW n \in Nat, NEW S \in SUBSET (1..n), NEW i \in S
    PROVE  KthOf(S, RankIn(S, i)) = i
<1> DEFINE k == RankIn(S, i)  j == KthOf(S, k)
<1>1. k \in 1..Cardinality(S)
  BY RankIsPositive
<1>2. j \in S /\ RankIn(S, j) = k
  BY <1>1, KthIsThere
<1> HIDE DEF j
<1>3. i \in Nat /\ j \in Nat
  BY <1>2
<1>4. RankIn(S, i) \in Nat /\ RankIn(S, j) = RankIn(S, i)
  BY <1>2, <1>3, RankType
<1>5. i < j => RankIn(S, i) < RankIn(S, j)
  BY <1>2, RankIncreases
<1>6. j < i => RankIn(S, j) < RankIn(S, i)
  BY <1>2, RankIncreases
<1>7. j = i
  BY <1>3, <1>4, <1>5, <1>6
<1> QED
  BY <1>7 DEF j

LEMMA WithoutFacts ==
  ASSUME NEW q \in Seq(Ids), IsInjective(q), NEW out
  PROVE  /\ Without(q, out) \in Seq(Ids) /\ Len(Without(q, out)) <= Len(q)
         /\ Range(Without(q, out)) = Range(q) \ out /\ IsInjective(Without(q, out))
<1> DEFINE S == {k \in DOMAIN q : q[k] \notin out}
           c == Cardinality(S)
           w == [n \in 1 .. c |-> q[KthOf(S, n)]]
<1>1. Len(q) \in Nat /\ DOMAIN q = 1 .. Len(q) /\ S \in SUBSET (1 .. Len(q))
  OBVIOUS
<1>2. \A k \in S : q[k] \in Range(q) \ out /\ q[k] \in Ids
  BY <1>1 DEF Range
<1>3. \A e \in Range(q) \ out : \E k \in S : e = q[k]
  BY <1>1 DEF Range
<1>4. Without(q, out) = w
  BY DEF Without
<1>5. \A m, n \in S : q[m] = q[n] => m = n
  BY <1>1 DEF IsInjective
<1> HIDE DEF S
<1>6. c \in 0 .. Len(q)
  <2>1. 0 \in Nat
    OBVIOUS
  <2> QED
    BY <1>1, <2>1, RankType
<1>7. \A n \in 1 .. c : KthOf(S, n) \in S /\ RankIn(S, KthOf(S, n)) = n
  BY <1>1, KthIsThere
<1>8. \A k \in S : RankIn(S, k) \in 1 .. c /\ KthOf(S, RankIn(S, k)) = k
  <2> SUFFICES ASSUME NEW k \in S PROVE RankIn(S, k) \in 1 .. c /\ KthOf(S, RankIn(S, k)) = k
    OBVIOUS
  <2>1. k \in 1 .. Len(q) /\ k <= k
    BY <1>1
  <2>2. RankIn(S, k) \in 1 .. c
    BY <1>1, <2>1, RankIsPositive
  <2> QED
    BY <1>1, <2>2, KthOfRank
<1> HIDE DEF c
<1>9. w \in Seq(Ids) /\ Len(w) = c /\ DOMAIN w = 1 .. c
  BY <1>2, <1>6, <1>7
<1>10. Range(w) = Range(q) \ out
  <2>1. \A n \in 1 .. c : w[n] \in Range(q) \ out
    BY <1>2, <1>7
  <2>2. \A k \in S : q[k] \in Range(w)
    <3> SUFFICES ASSUME NEW k \in S PROVE q[k] \in Range(w)
      OBVIOUS
    <3>1. w[RankIn(S, k)] = q[k]
      BY <1>8
    <3> QED
      BY <1>8, <1>9, <3>1 DEF Range
  <2> QED
    BY <1>3, <1>9, <2>1, <2>2 DEF Range
<1>11. IsInjective(w)
  <2> SUFFICES ASSUME NEW m \in 1 .. c, NEW n \in 1 .. c, w[m] = w[n] PROVE m = n
    BY <1>9 DEF IsInjective
  <2>1. KthOf(S, m) = KthOf(S, n)
    BY <1>5, <1>7
  <2> QED
    BY <1>7, <2>1
<1> HIDE DEF w
<1> QED
  BY <1>1, <1>4, <1>6, <1>9, <1>10, <1>11


-----------------------------------------------------------------------------
(* What the helpers of the handlers keep of a lane.                         *)

LEMMA HeldFacts ==
  ASSUME NEW l, Steady(l)
  PROVE  /\ l.pending \in Seq(Ids) /\ Range(l.pending) \subseteq Ids
         /\ l.active \in Ids \cup {None} /\ None \notin Ids
         /\ Held(l) \subseteq Ids /\ Len(l.pending) \in Nat
         /\ l.active # None => l.active \in Held(l)
<1>1. l.pending \in Seq(Ids) /\ l.active \in Ids \cup {None}
  BY DEF Steady, Lanes
<1>2. Range(l.pending) \subseteq Ids /\ Len(l.pending) \in Nat
  BY <1>1 DEF Range
<1>3. None \notin Ids
  BY BoundsAssumption DEF None, Ids
<1> QED
  BY <1>1, <1>2, <1>3 DEF Held

LEMMA AdmittedIs ==
  ASSUME NEW l, Len(l.pending) \in Nat
  PROVE  /\ l.active = None => Admitted(l) = Len(l.pending)
         /\ l.active # None => Admitted(l) = Len(l.pending) + 1
         /\ Admitted(l) \in Nat
<1>1. CASE l.active = None
  BY <1>1 DEF Admitted
<1>2. CASE l.active # None
  BY <1>2 DEF Admitted
<1> QED
  BY <1>1, <1>2

LEMMA EnsureKeeps ==
  ASSUME NEW l, Steady(l)
  PROVE  /\ Steady(Ensure(l)) /\ OnItsWay(Ensure(l))
         /\ Ensure(l).pending = l.pending /\ Ensure(l).active = l.active
<1>1. l \in Lanes
  BY DEF Steady
<1>2. CASE l.stopping \/ l.process # "NotRunning" \/ l.pending = <<>>
  BY <1>2 DEF Ensure, Steady, OnItsWay
<1>3. CASE ~(l.stopping \/ l.process # "NotRunning" \/ l.pending = <<>>)
  <2> DEFINE e == [l EXCEPT !.intentional = FALSE, !.process = "Starting"]
  <2>1. Ensure(l) = e
    BY <1>3 DEF Ensure
  <2>2. /\ e \in Lanes /\ e.pending = l.pending /\ e.active = l.active
        /\ e.process = "Starting" /\ e.intentional = FALSE
    BY <1>1 DEF Lanes
  <2>3. l.active = None
    BY <1>3 DEF Steady
  <2> HIDE DEF e
  <2> QED
    BY <2>1, <2>2, <2>3 DEF Steady, OnItsWay
<1> QED
  BY <1>2, <1>3

LEMMA DispatchKeeps ==
  ASSUME NEW l, Steady(l)
  PROVE  /\ Steady(Dispatch(l)) /\ OnItsWay(Dispatch(l))
         /\ Held(Dispatch(l)) = Held(l) /\ Admitted(Dispatch(l)) = Admitted(l)
         /\ Range(Dispatch(l).pending) \subseteq Range(l.pending)
         /\ \/ Dispatch(l).active = l.active
            \/ l.active = None /\ Dispatch(l).active \in Range(l.pending)
<1>1. l \in Lanes
  BY DEF Steady
<1>2. CASE l.stopping \/ l.active # None \/ l.pending = <<>>
  BY <1>2 DEF Dispatch, Steady, OnItsWay
<1>3. CASE ~(l.stopping \/ l.active # None \/ l.pending = <<>>) /\ l.process # "Running"
  <2>1. Dispatch(l) = Ensure(l)
    BY <1>3 DEF Dispatch
  <2> QED
    BY <2>1, EnsureKeeps DEF Held, Admitted
<1>4. CASE ~(l.stopping \/ l.active # None \/ l.pending = <<>>) /\ l.process = "Running"
  <2> DEFINE d == [l EXCEPT !.active = Head(l.pending), !.pending = Tail(l.pending),
                            !.requestTimer = TRUE]
             q == l.pending
  <2>1. Dispatch(l) = d
    BY <1>4 DEF Dispatch
  <2>2. q \in Seq(Ids) /\ q # <<>> /\ IsInjective(q) /\ Len(q) \in Nat
    BY <1>1, <1>4 DEF Steady, Lanes
  <2>3. /\ Head(q) \in Ids /\ Tail(q) \in Seq(Ids) /\ Len(Tail(q)) = Len(q) - 1
        /\ Head(q) \in Range(q) /\ Range(Tail(q)) = Range(q) \ {Head(q)}
        /\ IsInjective(Tail(q))
    BY <2>2, HeadFacts
  <2>4. /\ d \in Lanes /\ d.active = Head(q) /\ d.pending = Tail(q) /\ d.requestTimer = TRUE
        /\ d.process = l.process /\ d.stopping = l.stopping /\ d.intentional = l.intentional
    BY <1>1, <2>3 DEF Lanes
  <2>5. Head(q) # None
    BY <2>3, BoundsAssumption DEF None, Ids
  <2> HIDE DEF d
  <2>6. Steady(d)
    BY <1>4, <2>3, <2>4 DEF Steady
  <2>7. Held(d) = Held(l)
    BY <1>4, <2>3, <2>4, <2>5 DEF Held
  <2>8. Admitted(d) = Admitted(l)
    <3>1. Admitted(d) = (Len(q) - 1) + 1
      BY <2>3, <2>4, <2>5 DEF Admitted
    <3>2. Admitted(l) = Len(q) + 0
      BY <1>4 DEF Admitted
    <3> QED
      BY <2>2, <3>1, <3>2
  <2> QED
    BY <1>4, <2>1, <2>3, <2>4, <2>6, <2>7, <2>8 DEF OnItsWay
<1> QED
  BY <1>2, <1>3, <1>4

LEMMA StopKeeps ==
  ASSUME NEW l, Steady(l), l.active = None, NEW b \in BOOLEAN
  PROVE  /\ Steady(Stop(l, b)) /\ OnItsWay(Stop(l, b))
         /\ Stop(l, b).pending = l.pending /\ Stop(l, b).active = None
<1> DEFINE quiet == [l EXCEPT !.idleTimer = FALSE, !.requestTimer = FALSE]
           ended == [quiet EXCEPT !.stopping = FALSE, !.intentional = FALSE]
           killed == [quiet EXCEPT !.stopping = TRUE, !.intentional = b]
<1>1. l \in Lanes
  BY DEF Steady
<1>2. /\ ended \in Lanes /\ ended.pending = l.pending /\ ended.active = l.active
      /\ ended.process = l.process /\ ended.stopping = FALSE /\ ended.intentional = FALSE
  BY <1>1 DEF Lanes
<1>3. /\ killed \in Lanes /\ killed.pending = l.pending /\ killed.active = l.active
      /\ killed.process = l.process /\ killed.stopping = TRUE
  BY <1>1 DEF Lanes
<1>4. Stop(l, b) = IF l.process = "NotRunning" THEN Ensure(ended) ELSE killed
  BY <1>1 DEF Stop, Lanes
<1> HIDE DEF quiet, ended, killed
<1>5. Steady(ended)
  BY <1>2 DEF Steady
<1>6. CASE l.process = "NotRunning"
  BY <1>2, <1>4, <1>5, <1>6, EnsureKeeps
<1>7. CASE l.process # "NotRunning"
  BY <1>3, <1>4, <1>7 DEF Steady, OnItsWay
<1> QED
  BY <1>6, <1>7

LEMMA IdleExitKeeps ==
  ASSUME NEW l, Steady(l), OnItsWay(l)
  PROVE  /\ Steady(ScheduleIdleExit(l)) /\ OnItsWay(ScheduleIdleExit(l))
         /\ ScheduleIdleExit(l).pending = l.pending /\ ScheduleIdleExit(l).active = l.active
<1> DEFINE e == [l EXCEPT !.idleTimer = TRUE]
<1>1. l \in Lanes
  BY DEF Steady
<1>2. /\ e \in Lanes /\ e.pending = l.pending /\ e.active = l.active
      /\ e.process = l.process /\ e.stopping = l.stopping /\ e.intentional = l.intentional
      /\ e.requestTimer = l.requestTimer
  BY <1>1 DEF Lanes
<1>3. ScheduleIdleExit(l) = e \/ ScheduleIdleExit(l) = l
  BY DEF ScheduleIdleExit
<1> HIDE DEF e
<1> QED
  BY <1>2, <1>3 DEF Steady, OnItsWay


-----------------------------------------------------------------------------
(* The handlers of the lane keep its invariant.                             *)

Helpers  == [alive : BOOLEAN, input : Seq(Ids), output : Seq(Ids \cup {None})]
Requests == [Ids -> [owner : Owners, retries : 0 .. 1, status : Statuses]]

(* A request keeps its owner, and one that does not wait never waits again. *)
NoneReturns ==
  \A i \in Ids : /\ requests'[i].owner = requests[i].owner
                 /\ Waiting(i)' => Waiting(i)

LEMMA BecomeTypes ==
  ASSUME LaneInv, NEW l, Steady(l), NEW h \in Helpers, Become(l, h)
  PROVE  /\ helper' \in Helpers /\ runs' \in [Ids -> Nat] /\ lane' = l
         /\ \A i \in Ids : runs'[i] = IF i = l.active /\ l.active # lane.active
                                         THEN runs[i] + 1 ELSE runs[i]
<1>1. /\ l.active \in Ids \cup {None} /\ None \notin Ids /\ runs \in [Ids -> Nat]
  BY HeldFacts DEF LaneInv, LaneTypeOK
<1>2. /\ runs' \in [Ids -> Nat] /\ lane' = l
      /\ \A i \in Ids : runs'[i] = IF i = l.active /\ l.active # lane.active
                                      THEN runs[i] + 1 ELSE runs[i]
  BY <1>1 DEF Become
<1>3. helper' \in Helpers
  <2>1. <<>> \in Seq(Ids) /\ <<>> \in Seq(Ids \cup {None})
    OBVIOUS
  <2>2. l.active # None => Append(h.input, l.active) \in Seq(Ids)
    BY <1>1 DEF Helpers
  <2>3. \/ helper' = [alive |-> FALSE, input |-> <<>>, output |-> <<>>]
        \/ helper' = [alive |-> TRUE, input |-> <<>>, output |-> <<>>]
        \/ helper' = [h EXCEPT !.alive = FALSE]
        \/ l.active # None /\ helper' = [h EXCEPT !.input = Append(@, l.active)]
        \/ helper' = h
    BY DEF Become
  <2>4. CASE l.active # None /\ helper' = [h EXCEPT !.input = Append(@, l.active)]
    <3> DEFINE written == Append(h.input, l.active)
    <3>1. written \in Seq(Ids) /\ helper' = [h EXCEPT !.input = written]
      BY <2>2, <2>4
    <3> HIDE DEF written
    <3> QED
      BY <3>1 DEF Helpers
  <2>5. CASE helper' = [h EXCEPT !.alive = FALSE]
    BY <2>5 DEF Helpers
  <2>6. ASSUME NEW b \in BOOLEAN, helper' = [alive |-> b, input |-> <<>>, output |-> <<>>]
        PROVE  helper' \in Helpers
    BY <2>1, <2>6 DEF Helpers
  <2> QED
    BY <2>3, <2>4, <2>5, <2>6
<1> QED
  BY <1>2, <1>3

(* What has to be shown of a handler that makes l of the lane and retries
   nothing.                                                                 *)
LEMMA LaneStep ==
  ASSUME LaneInv, NEW l, NEW h \in Helpers, Steady(l), OnItsWay(l), Admitted(l) <= Capacity,
         Become(l, h), junk' \in 0 .. MaxJunk, requests' \in Requests,
         {i \in Ids : Waiting(i)'} = Held(l),
         \A i \in Ids : /\ requests'[i].retries = requests[i].retries
                        /\ requests'[i].status = "new" => requests[i].status = "new",
         \A i \in Range(l.pending) \cup ({l.active} \ {lane.active, None}) :
           i \in Range(lane.pending) \/ requests[i].status = "new"
  PROVE  LaneInv'
<1>1. /\ helper' \in Helpers /\ runs' \in [Ids -> Nat] /\ lane' = l
      /\ \A i \in Ids : runs'[i] = IF i = l.active /\ l.active # lane.active
                                      THEN runs[i] + 1 ELSE runs[i]
  BY BecomeTypes
<1>2. LaneTypeOK'
  BY <1>1 DEF LaneTypeOK, Steady, Helpers, Requests
<1>3. /\ Range(l.pending) \subseteq Ids /\ l.active \in Ids \cup {None} /\ None \notin Ids
      /\ l.active # None => l.active \in Held(l)
      /\ l.active \notin Range(l.pending)
  BY HeldFacts DEF Steady
<1>4. RunsCounted'
  <2> SUFFICES ASSUME NEW i \in Ids
               PROVE  /\ requests'[i].status = "new" => runs'[i] = 0 /\ requests'[i].retries = 0
                      /\ i \in Range(l.pending) => runs'[i] = requests'[i].retries
                      /\ i = l.active => runs'[i] = requests'[i].retries + 1
                      /\ runs'[i] <= requests'[i].retries + 1
    BY <1>1 DEF RunsCounted
  <2>1. /\ requests[i].status = "new" => runs[i] = 0 /\ requests[i].retries = 0
        /\ i \in Range(lane.pending) => runs[i] = requests[i].retries
        /\ i = lane.active => runs[i] = requests[i].retries + 1
        /\ runs[i] <= requests[i].retries + 1
        /\ runs[i] \in Nat /\ requests[i].retries \in Nat
    BY DEF LaneInv, RunsCounted, LaneTypeOK
  <2>2. requests'[i].retries = requests[i].retries
    OBVIOUS
  <2>3. requests'[i].status = "new" => requests[i].status = "new"
    OBVIOUS
  <2>4. i = l.active => requests'[i].status = "waiting"
    BY <1>3 DEF Waiting
  <2>5. i \in Range(l.pending) \/ (i = l.active /\ i # lane.active) => runs[i] = requests[i].retries
    BY <1>3, <2>1
  <2>6. runs'[i] = IF i = l.active /\ l.active # lane.active THEN runs[i] + 1 ELSE runs[i]
    BY <1>1
  <2>7. CASE i = l.active /\ l.active # lane.active
    BY <1>3, <2>1, <2>2, <2>4, <2>5, <2>6, <2>7
  <2>8. CASE ~(i = l.active /\ l.active # lane.active)
    BY <1>3, <2>1, <2>2, <2>3, <2>5, <2>6, <2>8
  <2> QED
    BY <2>7, <2>8
<1> QED
  BY <1>1, <1>2, <1>4 DEF LaneInv, Waiting

(* Answering some of the held requests.                                     *)
LEMMA AnswerFacts ==
  ASSUME LaneInv, NEW ids, NEW s \in Statuses \ {"new", "waiting"},
         requests' = Answer(ids, s)
  PROVE  /\ requests' \in Requests /\ NoneReturns
         /\ {i \in Ids : Waiting(i)'} = {i \in Ids : Waiting(i)} \ ids
         /\ \A i \in Ids : /\ requests'[i].retries = requests[i].retries
                           /\ requests'[i].status = "new" => requests[i].status = "new"
                           /\ requests'[i].status = IF i \in ids THEN s ELSE requests[i].status
<1>1. requests \in Requests
  BY DEF LaneInv, LaneTypeOK, Requests
<1>2. \A i \in Ids : /\ requests'[i] \in [owner : Owners, retries : 0 .. 1, status : Statuses]
                     /\ requests'[i].owner = requests[i].owner
                     /\ requests'[i].retries = requests[i].retries
                     /\ requests'[i].status = IF i \in ids THEN s ELSE requests[i].status
  BY <1>1 DEF Answer, Requests
<1>3. requests' \in Requests
  BY <1>2 DEF Requests, Answer
<1>4. \A i \in Ids : Waiting(i)' <=> Waiting(i) /\ i \notin ids
  BY <1>2 DEF Waiting
<1> QED
  BY <1>2, <1>3, <1>4 DEF NoneReturns


LEMMA LaneFacts ==
  ASSUME LaneInv
  PROVE  /\ lane \in Lanes /\ helper \in Helpers /\ requests \in Requests /\ junk \in 0 .. MaxJunk
         /\ Steady(lane) /\ OnItsWay(lane) /\ Admitted(lane) <= Capacity
         /\ lane.pending \in Seq(Ids) /\ Range(lane.pending) \subseteq Ids
         /\ Len(lane.pending) \in Nat
         /\ lane.active \in Ids \cup {None} /\ None \notin Ids
         /\ \A i \in Ids : Waiting(i) <=> i \in Range(lane.pending) \/ i = lane.active
BY HeldFacts DEF LaneInv, LaneTypeOK, Helpers, Requests, Held

(* What the loaders see of a signal.                                        *)
Told == NoneReturns /\ \A i \in Ids : Waiting(i) => requests'[i].status \in {"waiting", "ok", "failed"}

LEMMA SubmitStep ==
  ASSUME LaneInv, NEW o \in Owners, Submit(o)
  PROVE  /\ LaneInv'
         /\ \E i \in Ids : /\ ~Waiting(i) /\ Waiting(i)' /\ requests'[i].owner = o
                           /\ requests'[i] # requests[i]
                           /\ \A k \in Ids \ {i} : requests'[k] = requests[k]
<1>1. PICK i \in Ids :
        /\ \A k \in 1 .. i : requests[k].status = "new" <=> k = i
        /\ requests' = [requests EXCEPT ![i] = [owner |-> o, retries |-> 0, status |-> "waiting"]]
        /\ Become(Dispatch(Ensure([lane EXCEPT !.pending = Append(@, i), !.idleTimer = FALSE])),
                  helper)
  BY DEF Submit
<1> DEFINE q == Append(lane.pending, i)
           a == [lane EXCEPT !.pending = q, !.idleTimer = FALSE]
           l == Dispatch(Ensure(a))
<1>2. requests[i].status = "new"
  BY <1>1 DEF Ids
<1>3. i \notin Range(lane.pending) /\ i # lane.active /\ ~Waiting(i)
  BY <1>2, LaneFacts DEF Waiting
<1>4. /\ q \in Seq(Ids) /\ Len(q) = Len(lane.pending) + 1
      /\ Range(q) = Range(lane.pending) \cup {i} /\ IsInjective(q)
  BY <1>3, LaneFacts, AppendFacts DEF Steady
<1> HIDE DEF q
<1>5. /\ a \in Lanes /\ a.pending = q /\ a.active = lane.active /\ a.process = lane.process
      /\ a.stopping = lane.stopping /\ a.intentional = lane.intentional
      /\ a.requestTimer = lane.requestTimer
  BY <1>4, LaneFacts DEF Lanes
<1>6. Become(l, helper)
  BY <1>1 DEF q
<1> HIDE DEF a
<1>7. Steady(a)
  BY <1>3, <1>4, <1>5, LaneFacts DEF Steady
<1>8. /\ Held(a) = Held(lane) \cup {i} /\ Admitted(a) = Admitted(lane) + 1
      /\ Admitted(lane) \in Nat /\ Admitted(lane) < Capacity
  <2>1. Held(a) = Held(lane) \cup {i}
    BY <1>4, <1>5 DEF Held
  <2>2. Admitted(lane) \in Nat
    BY LaneFacts, AdmittedIs
  <2>3. Admitted(lane) < Capacity
    BY DEF Submit, Admits
  <2>4. Admitted(a) = Admitted(lane) + 1
    <3>1. Len(lane.pending) \in Nat /\ Len(q) = Len(lane.pending) + 1 /\ Len(q) \in Nat
      BY <1>4, LaneFacts
    <3> QED
      BY <1>5, <3>1, AdmittedIs
  <2> QED
    BY <2>1, <2>2, <2>3, <2>4
<1>9. /\ Steady(Ensure(a)) /\ Ensure(a).pending = q /\ Ensure(a).active = lane.active
      /\ Held(Ensure(a)) = Held(a) /\ Admitted(Ensure(a)) = Admitted(a)
  BY <1>5, <1>7, EnsureKeeps DEF Held, Admitted
<1>10. /\ Steady(l) /\ OnItsWay(l) /\ Held(l) = Held(lane) \cup {i}
       /\ Admitted(l) = Admitted(lane) + 1
       /\ Range(l.pending) \subseteq Range(q)
       /\ l.active = lane.active \/ l.active \in Range(q)
  BY <1>8, <1>9, DispatchKeeps
<1> HIDE DEF l
<1>11. /\ requests' \in Requests /\ Waiting(i)' /\ requests'[i].owner = o
       /\ requests'[i].status = "waiting" /\ requests'[i].retries = 0
       /\ \A k \in Ids \ {i} : requests'[k] = requests[k]
  BY <1>1, LaneFacts DEF Requests, Waiting, Statuses
<1>12. \A k \in Ids : /\ requests'[k].retries = requests[k].retries
                      /\ requests'[k].status = "new" => requests[k].status = "new"
  BY <1>2, <1>11 DEF LaneInv, RunsCounted
<1>13. {k \in Ids : Waiting(k)'} = Held(l)
  <2>1. \A k \in Ids : Waiting(k)' <=> Waiting(k) \/ k = i
    BY <1>11 DEF Waiting
  <2> QED
    BY <1>10, <2>1 DEF LaneInv
<1>14. \A k \in Range(l.pending) \cup ({l.active} \ {lane.active, None}) :
         k \in Range(lane.pending) \/ requests[k].status = "new"
  BY <1>2, <1>4, <1>10
<1>15. Admitted(l) <= Capacity /\ junk' \in 0 .. MaxJunk /\ helper \in Helpers
  BY <1>8, <1>10, CapacityAssumption, LaneFacts DEF Submit
<1>16. LaneInv'
  BY <1>6, <1>10, <1>11, <1>12, <1>13, <1>14, <1>15, LaneStep
<1> QED
  BY <1>2, <1>3, <1>11, <1>16

LEMMA CancelStep ==
  ASSUME LaneInv, NEW o \in Owners, CancelOwner(o)
  PROVE  /\ LaneInv'
         /\ \A i \in Ids : /\ requests'[i].owner = requests[i].owner
                           /\ Waiting(i)' <=> Waiting(i) /\ requests[i].owner # o
<1> DEFINE mine == {i \in Ids : /\ i \in Range(lane.pending) \/ i = lane.active
                                /\ requests[i].owner = o}
           q == Without(lane.pending, mine)
           a == [lane EXCEPT !.pending = q]
           b == [a EXCEPT !.active = None]
           l == IF lane.active \in mine THEN Stop(b, TRUE)
                ELSE IF Idle(a) THEN ScheduleIdleExit(a) ELSE a
<1>1. requests' = Answer(mine, "cancelled") /\ Become(l, helper) /\ junk' = junk
  BY DEF CancelOwner
<1>2. \A i \in Ids : i \in mine <=> Waiting(i) /\ requests[i].owner = o
  BY LaneFacts
<1>3. mine \subseteq Ids
  OBVIOUS
<1> HIDE DEF mine
<1>4. /\ q \in Seq(Ids) /\ Len(q) <= Len(lane.pending) /\ Len(q) \in Nat
      /\ Range(q) = Range(lane.pending) \ mine /\ IsInjective(q)
  BY LaneFacts, WithoutFacts DEF Steady
<1> HIDE DEF q
<1>5. /\ a \in Lanes /\ a.pending = q /\ a.active = lane.active /\ a.process = lane.process
      /\ a.stopping = lane.stopping /\ a.intentional = lane.intentional
      /\ a.requestTimer = lane.requestTimer
  BY <1>4, LaneFacts DEF Lanes
<1>6. /\ b \in Lanes /\ b.pending = q /\ b.active = None /\ b.process = lane.process
      /\ b.stopping = lane.stopping /\ b.intentional = lane.intentional
  BY <1>5 DEF Lanes
<1> HIDE DEF a, b
<1>7. Steady(a) /\ OnItsWay(a)
  <2>1. q # <<>> => lane.pending # <<>>
    BY <1>4, LaneFacts
  <2> QED
    BY <1>4, <1>5, <2>1, LaneFacts DEF Steady, OnItsWay
<1>8. Steady(b)
  <2>1. None \notin Range(q)
    BY <1>4, LaneFacts
  <2> QED
    BY <1>4, <1>6, <2>1, LaneFacts DEF Steady
<1>9. /\ Steady(l) /\ OnItsWay(l) /\ l.pending = q
      /\ l.active = IF lane.active \in mine THEN None ELSE lane.active
  <2>1. CASE lane.active \in mine
    BY <1>6, <1>8, <2>1, StopKeeps
  <2>2. CASE lane.active \notin mine
    BY <1>5, <1>7, <2>2, IdleExitKeeps
  <2> QED
    BY <2>1, <2>2
<1> HIDE DEF l
<1>10. Held(l) = Held(lane) \ mine
  BY <1>3, <1>4, <1>9, LaneFacts DEF Held
<1>11. Admitted(l) <= Capacity
  <2>1. l.active # None => lane.active # None
    BY <1>9
  <2>2. Len(l.pending) <= Len(lane.pending) /\ Len(l.pending) \in Nat /\ Len(lane.pending) \in Nat
    BY <1>4, <1>9, LaneFacts
  <2>3. Admitted(lane) <= Capacity /\ Capacity \in Nat
    BY LaneFacts, CapacityAssumption
  <2> QED
    BY <2>1, <2>2, <2>3, AdmittedIs
<1>12. "cancelled" \in Statuses \ {"new", "waiting"}
  BY DEF Statuses
<1>13. /\ requests' \in Requests /\ NoneReturns
       /\ {i \in Ids : Waiting(i)'} = {i \in Ids : Waiting(i)} \ mine
  BY <1>1, <1>12, AnswerFacts
<1>14. \A i \in Ids : /\ requests'[i].retries = requests[i].retries
                      /\ requests'[i].status = "new" => requests[i].status = "new"
  BY <1>1, <1>12, AnswerFacts
<1>15. \A i \in Range(l.pending) \cup ({l.active} \ {lane.active, None}) :
         i \in Range(lane.pending) \/ requests[i].status = "new"
  BY <1>4, <1>9
<1>16. {i \in Ids : Waiting(i)'} = Held(l)
  BY <1>10, <1>13 DEF LaneInv
<1>17. LaneInv'
  <2>1. junk' \in 0 .. MaxJunk /\ helper \in Helpers
    BY <1>1, LaneFacts
  <2> QED
    <3>1. Steady(l) /\ OnItsWay(l) /\ Become(l, helper) /\ requests' \in Requests
      BY <1>1, <1>9, <1>13
    <3>2. \A i \in Ids : /\ requests'[i].retries = requests[i].retries
                         /\ requests'[i].status = "new" => requests[i].status = "new"
      BY <1>14
    <3> QED
      BY <1>11, <1>15, <1>16, <2>1, <3>1, <3>2, LaneStep
<1>18. \A i \in Ids : Waiting(i)' <=> Waiting(i) /\ i \notin mine
  BY <1>13
<1> QED
  BY <1>2, <1>13, <1>17, <1>18 DEF NoneReturns

(* A signal that answers the requests ids, or none, and makes l of the lane. *)
LEMMA AnsweringStep ==
  ASSUME LaneInv, NEW ids, NEW s \in {"ok", "failed"}, requests' = Answer(ids, s),
         NEW l, NEW h \in Helpers, Become(l, h), UNCHANGED junk,
         Steady(l), OnItsWay(l), Admitted(l) <= Capacity,
         Held(l) = Held(lane) \ ids,
         Range(l.pending) \subseteq Range(lane.pending),
         l.active \in Range(lane.pending) \cup {lane.active, None}
  PROVE  LaneInv' /\ Told
<1>1. s \in Statuses \ {"new", "waiting"}
  BY DEF Statuses
<1>2. /\ requests' \in Requests /\ NoneReturns
      /\ {i \in Ids : Waiting(i)'} = {i \in Ids : Waiting(i)} \ ids
  BY <1>1, AnswerFacts
<1>3. \A i \in Ids : /\ requests'[i].retries = requests[i].retries
                     /\ requests'[i].status = "new" => requests[i].status = "new"
                     /\ requests'[i].status = IF i \in ids THEN s ELSE requests[i].status
  BY <1>1, AnswerFacts
<1>4. {i \in Ids : Waiting(i)'} = Held(l)
  BY <1>2 DEF LaneInv
<1>5. \A i \in Range(l.pending) \cup ({l.active} \ {lane.active, None}) :
        i \in Range(lane.pending) \/ requests[i].status = "new"
  OBVIOUS
<1>6. junk' \in 0 .. MaxJunk
  BY LaneFacts
<1>7. \A i \in Ids : /\ requests'[i].retries = requests[i].retries
                     /\ requests'[i].status = "new" => requests[i].status = "new"
  BY <1>3
<1>8. LaneInv'
  BY <1>2, <1>4, <1>5, <1>6, <1>7, LaneStep
<1>9. Told
  BY <1>2, <1>3 DEF Told, Waiting
<1> QED
  BY <1>8, <1>9

LEMMA NoAnswer ==
  ASSUME LaneInv, UNCHANGED requests PROVE requests' = Answer({}, "failed")
BY LaneFacts DEF Requests, Answer

(* A signal that answers nobody and leaves queue and active request alone.  *)
LEMMA QuietStep ==
  ASSUME LaneInv, UNCHANGED <<requests, junk>>, NEW l, NEW h \in Helpers, Become(l, h),
         Steady(l), OnItsWay(l), l.pending = lane.pending, l.active = lane.active
  PROVE  LaneInv' /\ Told
<1>1. Held(l) = Held(lane) \ {} /\ Admitted(l) = Admitted(lane)
  BY DEF Held, Admitted
<1>2. Admitted(l) <= Capacity
  BY <1>1, LaneFacts
<1> QED
  BY <1>1, <1>2, NoAnswer, AnsweringStep

LEMMA ActiveOut ==
  ASSUME LaneInv, lane.active # None, NEW l, Steady(l), l.pending = lane.pending, l.active = None
  PROVE  /\ Held(l) = Held(lane) \ {lane.active} /\ Admitted(l) \in Nat
         /\ Admitted(l) <= Capacity /\ Len(l.pending) \in Nat
<1>1. Held(l) = Held(lane) \ {lane.active}
  BY LaneFacts DEF Held, Steady
<1>2. Admitted(l) = Len(lane.pending) /\ Admitted(lane) = Len(lane.pending) + 1
  BY LaneFacts, AdmittedIs
<1>3. Admitted(lane) <= Capacity /\ Len(lane.pending) \in Nat
  BY LaneFacts
<1> QED
  BY <1>1, <1>2, <1>3, CapacityAssumption

LEMMA FailActiveStep ==
  ASSUME LaneInv, lane.active # None, NEW h \in Helpers, FailActive(h), UNCHANGED junk
  PROVE  LaneInv' /\ Told
<1> DEFINE a == [lane EXCEPT !.active = None]
           l == Stop(a, FALSE)
<1>1. requests' = Answer({lane.active}, "failed") /\ Become(l, h)
  BY DEF FailActive
<1>2. /\ a \in Lanes /\ a.pending = lane.pending /\ a.active = None /\ a.process = lane.process
      /\ a.stopping = lane.stopping /\ a.intentional = lane.intentional
  BY LaneFacts DEF Lanes
<1> HIDE DEF a
<1>3. Steady(a)
  BY <1>2, LaneFacts DEF Steady
<1>4. Steady(l) /\ OnItsWay(l) /\ l.pending = lane.pending /\ l.active = None
  BY <1>2, <1>3, StopKeeps
<1> HIDE DEF l
<1>5. Held(l) = Held(lane) \ {lane.active} /\ Admitted(l) <= Capacity
  BY <1>4, ActiveOut
<1> QED
  BY <1>1, <1>4, <1>5, AnsweringStep

LEMMA CompleteActiveStep ==
  ASSUME LaneInv, lane.active # None, NEW h \in Helpers, NEW s \in {"ok", "failed"},
         CompleteActive(s, h), UNCHANGED junk
  PROVE  LaneInv' /\ Told
<1> DEFINE a == [lane EXCEPT !.active = None, !.requestTimer = FALSE]
           d == Dispatch(a)
           l == IF Idle(d) THEN ScheduleIdleExit(d) ELSE d
<1>1. requests' = Answer({lane.active}, s) /\ Become(l, h)
  BY DEF CompleteActive
<1>2. /\ a \in Lanes /\ a.pending = lane.pending /\ a.active = None /\ a.process = lane.process
      /\ a.stopping = lane.stopping /\ a.intentional = lane.intentional
  BY LaneFacts DEF Lanes
<1> HIDE DEF a
<1>3. Steady(a)
  BY <1>2, LaneFacts DEF Steady
<1>4. Held(a) = Held(lane) \ {lane.active} /\ Admitted(a) <= Capacity
  BY <1>2, <1>3, ActiveOut
<1>5. /\ Steady(d) /\ OnItsWay(d) /\ Held(d) = Held(a) /\ Admitted(d) = Admitted(a)
      /\ Range(d.pending) \subseteq Range(lane.pending)
      /\ d.active \in Range(lane.pending) \cup {None}
  BY <1>2, <1>3, DispatchKeeps
<1> HIDE DEF d
<1>6. Steady(l) /\ OnItsWay(l) /\ l.pending = d.pending /\ l.active = d.active
  BY <1>5, IdleExitKeeps
<1> HIDE DEF l
<1>7. Held(l) = Held(lane) \ {lane.active} /\ Admitted(l) <= Capacity
  BY <1>4, <1>5, <1>6 DEF Held, Admitted
<1> QED
  BY <1>1, <1>5, <1>6, <1>7, AnsweringStep

LEMMA StartedStep ==
  ASSUME LaneInv, Started PROVE LaneInv' /\ Told
<1> DEFINE a == [lane EXCEPT !.process = "Running", !.stopping = FALSE, !.intentional = FALSE]
           l == Dispatch(a)
<1>1. Become(l, helper) /\ requests' = Answer({}, "failed") /\ UNCHANGED junk
  BY NoAnswer DEF Started
<1>2. /\ a \in Lanes /\ a.pending = lane.pending /\ a.active = lane.active /\ a.process = "Running"
      /\ a.stopping = FALSE /\ a.intentional = FALSE /\ a.requestTimer = lane.requestTimer
  BY LaneFacts DEF Lanes
<1> HIDE DEF a
<1>3. Steady(a)
  BY <1>2, LaneFacts DEF Steady
<1>4. Held(a) = Held(lane) /\ Admitted(a) = Admitted(lane)
  BY <1>2 DEF Held, Admitted
<1>5. /\ Steady(l) /\ OnItsWay(l) /\ Held(l) = Held(lane) /\ Admitted(l) <= Capacity
      /\ Range(l.pending) \subseteq Range(lane.pending)
      /\ l.active \in Range(lane.pending) \cup {lane.active, None}
  BY <1>2, <1>3, <1>4, LaneFacts, DispatchKeeps
<1> HIDE DEF l
<1>6. helper \in Helpers /\ Held(l) = Held(lane) \ {}
  BY <1>5, LaneFacts
<1> QED
  BY <1>1, <1>5, <1>6, AnsweringStep

LEMMA FailedToStartStep ==
  ASSUME LaneInv, FailedToStart PROVE LaneInv' /\ Told
<1> DEFINE l == [lane EXCEPT !.process = "NotRunning", !.pending = <<>>, !.requestTimer = FALSE,
                             !.stopping = FALSE, !.intentional = FALSE]
           ids == Range(lane.pending)
<1>1. Become(l, helper) /\ requests' = Answer(ids, "failed") /\ UNCHANGED junk
  BY DEF FailedToStart
<1>2. lane.active = None
  BY LaneFacts DEF FailedToStart, Steady
<1>3. /\ l \in Lanes /\ l.pending = <<>> /\ l.active = None /\ l.process = "NotRunning"
      /\ l.stopping = FALSE /\ l.intentional = FALSE
  <2> DEFINE none == <<>>
  <2>1. none \in Seq(Ids) /\ lane \in Lanes
    BY LaneFacts
  <2>2. l = [lane EXCEPT !.process = "NotRunning", !.pending = none, !.requestTimer = FALSE,
                         !.stopping = FALSE, !.intentional = FALSE]
    OBVIOUS
  <2> HIDE DEF none, l
  <2>3. /\ l \in Lanes /\ l.pending = none /\ l.active = lane.active /\ l.process = "NotRunning"
        /\ l.stopping = FALSE /\ l.intentional = FALSE
    BY <2>1, <2>2 DEF Lanes
  <2> QED
    BY <1>2, <2>3 DEF none
<1> HIDE DEF l
<1>4. Range(l.pending) = {} /\ IsInjective(l.pending) /\ Len(l.pending) = 0
  BY <1>3 DEF Range, IsInjective
<1>5. Steady(l) /\ OnItsWay(l)
  BY <1>3, <1>4 DEF Steady, OnItsWay
<1>6. Held(l) = Held(lane) \ ids
  BY <1>2, <1>3, <1>4 DEF Held
<1>7. Admitted(l) <= Capacity
  BY <1>3, <1>4, AdmittedIs, CapacityAssumption
<1>8. helper \in Helpers /\ Range(l.pending) \subseteq Range(lane.pending)
  BY <1>4, LaneFacts
<1> QED
  BY <1>1, <1>3, <1>5, <1>6, <1>7, <1>8, AnsweringStep


LEMMA ReadLineStep ==
  ASSUME LaneInv, ReadLine PROVE LaneInv' /\ Told
<1> DEFINE rest == [helper EXCEPT !.output = Tail(@)]
<1>1. rest \in Helpers
  <2> DEFINE t == Tail(helper.output)
  <2>1. t \in Seq(Ids \cup {None})
    <3>1. helper.output \in Seq(Ids \cup {None}) /\ helper.output # <<>>
      BY LaneFacts DEF ReadLine, Helpers
    <3> QED
      BY <3>1
  <2>2. rest = [helper EXCEPT !.output = t]
    BY LaneFacts DEF Helpers
  <2> HIDE DEF t, rest
  <2> QED
    BY <2>1, <2>2, LaneFacts DEF Helpers
<1>2. /\ UNCHANGED junk
      /\ \/ lane.active = None /\ Become(Stop(lane, FALSE), rest) /\ UNCHANGED requests
         \/ lane.active # None /\ FailActive(rest)
         \/ lane.active # None /\ \E s \in {"ok", "failed"} : CompleteActive(s, rest)
  BY DEF ReadLine
<1> HIDE DEF rest
<1>3. CASE lane.active = None /\ Become(Stop(lane, FALSE), rest) /\ UNCHANGED requests
  <2> DEFINE l == Stop(lane, FALSE)
  <2>1. Steady(l) /\ OnItsWay(l) /\ l.pending = lane.pending /\ l.active = lane.active
    BY <1>3, LaneFacts, StopKeeps
  <2> HIDE DEF l
  <2>2. Become(l, rest)
    BY <1>3 DEF l
  <2> QED
    BY <1>1, <1>2, <1>3, <2>1, <2>2, QuietStep
<1>4. CASE lane.active # None /\ FailActive(rest)
  BY <1>1, <1>2, <1>4, FailActiveStep
<1>5. CASE lane.active # None /\ \E s \in {"ok", "failed"} : CompleteActive(s, rest)
  BY <1>1, <1>2, <1>5, CompleteActiveStep
<1> QED
  BY <1>2, <1>3, <1>4, <1>5

LEMMA TimeoutStep ==
  ASSUME LaneInv, RequestTimeout \/ IdleTimeout PROVE LaneInv' /\ Told
<1> DEFINE r == [lane EXCEPT !.requestTimer = FALSE]
           e == [lane EXCEPT !.idleTimer = FALSE]
           l == Stop(lane, TRUE)
<1>1. \/ lane.active # None /\ FailActive(helper) /\ UNCHANGED junk
      \/ lane.active = None /\ Become(r, helper) /\ UNCHANGED <<requests, junk>>
      \/ lane.active = None /\ Become(l, helper) /\ UNCHANGED <<requests, junk>>
      \/ Become(e, helper) /\ UNCHANGED <<requests, junk>>
  BY DEF RequestTimeout, IdleTimeout, Idle
<1>2. /\ r \in Lanes /\ r.pending = lane.pending /\ r.active = lane.active /\ r.process = lane.process
      /\ r.stopping = lane.stopping /\ r.intentional = lane.intentional
  BY LaneFacts DEF Lanes
<1>3. /\ e \in Lanes /\ e.pending = lane.pending /\ e.active = lane.active /\ e.process = lane.process
      /\ e.stopping = lane.stopping /\ e.intentional = lane.intentional
      /\ e.requestTimer = lane.requestTimer
  BY LaneFacts DEF Lanes
<1>4. lane.active = None =>
        Steady(l) /\ OnItsWay(l) /\ l.pending = lane.pending /\ l.active = lane.active
  BY LaneFacts, StopKeeps
<1> HIDE DEF r, e, l
<1>5. lane.active = None => Steady(r) /\ OnItsWay(r)
  BY <1>2, LaneFacts DEF Steady, OnItsWay
<1>6. Steady(e) /\ OnItsWay(e)
  BY <1>3, LaneFacts DEF Steady, OnItsWay
<1>7. helper \in Helpers
  BY LaneFacts
<1>8. CASE lane.active # None /\ FailActive(helper) /\ UNCHANGED junk
  BY <1>7, <1>8, FailActiveStep
<1>9. CASE lane.active = None /\ Become(r, helper) /\ UNCHANGED <<requests, junk>>
  BY <1>2, <1>5, <1>7, <1>9, QuietStep
<1>10. CASE lane.active = None /\ Become(l, helper) /\ UNCHANGED <<requests, junk>>
  BY <1>4, <1>7, <1>10, QuietStep
<1>11. CASE Become(e, helper) /\ UNCHANGED <<requests, junk>>
  BY <1>3, <1>6, <1>7, <1>11, QuietStep
<1> QED
  BY <1>1, <1>8, <1>9, <1>10, <1>11

(* The process has ended: its request is queued again, the first time, or
   fails; one ended on purpose had none.                                    *)
LEMMA FinishedStep ==
  ASSUME LaneInv, Finished PROVE LaneInv' /\ Told
<1> DEFINE x == lane.active
           retry == x # None /\ ~lane.intentional /\ requests[x].retries < 1
           q == IF retry THEN <<x>> \o lane.pending ELSE lane.pending
           ended == [lane EXCEPT !.process = "NotRunning", !.active = None, !.requestTimer = FALSE,
                                 !.stopping = FALSE, !.intentional = FALSE, !.pending = q]
           off == [ended EXCEPT !.idleTimer = FALSE]
           l == IF ended.pending # <<>> THEN Ensure(ended) ELSE off
<1>1. /\ Become(l, helper) /\ UNCHANGED junk
      /\ requests' = IF retry THEN [requests EXCEPT ![x].retries = @ + 1]
                     ELSE IF lane.intentional THEN requests
                     ELSE Answer({x}, "failed")
  <2>1. ended = [lane EXCEPT !.process = "NotRunning", !.active = None, !.requestTimer = FALSE,
                            !.stopping = FALSE, !.intentional = FALSE,
                            !.pending = IF retry THEN <<x>> \o @ ELSE @]
    BY LaneFacts DEF Lanes
  <2> QED
    BY <2>1 DEF Finished
<1>2. x # None => ~lane.intentional
  BY LaneFacts DEF Steady
<1>3. /\ q \in Seq(Ids) /\ IsInjective(q) /\ None \notin Range(q)
      /\ Range(q) = IF retry THEN Range(lane.pending) \cup {x} ELSE Range(lane.pending)
      /\ Len(q) = IF retry THEN Len(lane.pending) + 1 ELSE Len(lane.pending)
      /\ Len(q) \in Nat
  <2>1. CASE retry
    BY <2>1, LaneFacts, PrependFacts DEF Steady
  <2>2. CASE ~retry
    <3>1. q = lane.pending
      BY <2>2
    <3>2. /\ lane.pending \in Seq(Ids) /\ IsInjective(lane.pending) /\ None \notin Range(lane.pending)
          /\ Len(lane.pending) \in Nat
      BY LaneFacts DEF Steady
    <3> HIDE DEF q, retry
    <3> QED
      BY <2>2, <3>1, <3>2
  <2> QED
    BY <2>1, <2>2
<1> HIDE DEF q
<1>4. /\ ended \in Lanes /\ ended.pending = q /\ ended.active = None
      /\ ended.process = "NotRunning" /\ ended.stopping = FALSE /\ ended.intentional = FALSE
  BY <1>3, LaneFacts DEF Lanes
<1>5. /\ off \in Lanes /\ off.pending = q /\ off.active = None
      /\ off.process = "NotRunning" /\ off.stopping = FALSE /\ off.intentional = FALSE
  BY <1>4 DEF Lanes
<1> HIDE DEF ended, off
<1>6. Steady(ended) /\ Steady(off)
  BY <1>3, <1>4, <1>5 DEF Steady
<1>7. Steady(l) /\ OnItsWay(l) /\ l.pending = q /\ l.active = None
  BY <1>4, <1>5, <1>6, EnsureKeeps DEF OnItsWay
<1> HIDE DEF l
<1>8. Admitted(l) <= Capacity
  <2>1. Admitted(l) = Len(q)
    BY <1>3, <1>7, AdmittedIs
  <2>2. x = None => Admitted(lane) = Len(lane.pending)
    BY LaneFacts, AdmittedIs
  <2>3. x # None => Admitted(lane) = Len(lane.pending) + 1
    BY LaneFacts, AdmittedIs
  <2>4. Admitted(lane) <= Capacity /\ Len(lane.pending) \in Nat /\ Capacity \in Nat
    BY LaneFacts, CapacityAssumption
  <2>5. x = None => ~retry
    OBVIOUS
  <2>6. Len(q) = Len(lane.pending) \/ (x # None /\ Len(q) = Len(lane.pending) + 1)
    <3> HIDE DEF retry, x
    <3> QED
      BY <1>3, <2>5
  <2>7. Admitted(lane) = Len(lane.pending) \/ Admitted(lane) = Len(lane.pending) + 1
    BY <2>2, <2>3
  <2> HIDE DEF x
  <2>8. Len(q) <= Admitted(lane)
    BY <2>3, <2>4, <2>6, <2>7
  <2> DEFINE m == Admitted(lane)  n == Len(q)
  <2> HIDE DEF m, n, retry
  <2>9. n <= Capacity
    <3>1. n \in Nat
      BY <1>3 DEF n
    <3>2. m <= Capacity /\ m \in Nat /\ n <= m /\ Capacity \in Nat
      BY <2>4, <2>7, <2>8 DEF m, n
    <3> QED
      BY <3>1, <3>2
  <2> QED
    BY <2>1, <2>9 DEF n
<1>9. CASE ~retry
  <2>1. Held(l) = Held(lane) \ {x}
    BY <1>3, <1>7, <1>9, LaneFacts DEF Held, Steady
  <2>2. requests' = Answer({x}, "failed")
    <3>1. CASE x = None /\ lane.intentional
      <4>1. requests' = requests
        BY <1>1, <1>9, <3>1
      <4>2. Answer({x}, "failed") = requests
        BY <3>1, LaneFacts DEF Answer, Requests
      <4> QED
        BY <4>1, <4>2
    <3>2. CASE ~(x = None /\ lane.intentional)
      BY <1>1, <1>2, <1>9, <3>2
    <3> QED
      BY <3>1, <3>2
  <2>3. Range(l.pending) \subseteq Range(lane.pending) /\ helper \in Helpers
    BY <1>3, <1>7, <1>9, LaneFacts
  <2> QED
    BY <1>1, <1>7, <1>8, <2>1, <2>2, <2>3, AnsweringStep
<1>10. CASE retry
  <2>1. Held(l) = Held(lane)
    BY <1>3, <1>7, <1>10, LaneFacts DEF Held
  <2>2. x \in Ids /\ requests[x].retries = 0
    BY <1>10, LaneFacts DEF Requests
  <2>3. /\ requests' \in Requests
        /\ \A i \in Ids : /\ requests'[i].owner = requests[i].owner
                          /\ requests'[i].status = requests[i].status
                          /\ requests'[i].retries = IF i = x THEN 1 ELSE requests[i].retries
    BY <1>1, <1>10, <2>2, LaneFacts DEF Requests
  <2>4. Told
    BY <2>3 DEF Told, NoneReturns, Waiting
  <2>5. helper \in Helpers /\ junk' \in 0 .. MaxJunk
    BY <1>1, LaneFacts
  <2>6. helper' \in Helpers /\ runs' = runs /\ lane' = l
    <3>1. /\ helper' \in Helpers /\ runs' \in [Ids -> Nat] /\ lane' = l
          /\ \A i \in Ids : runs'[i] = IF i = l.active /\ l.active # lane.active
                                          THEN runs[i] + 1 ELSE runs[i]
      BY <1>1, <1>7, <2>5, BecomeTypes
    <3>2. \A i \in Ids : runs'[i] = runs[i]
      BY <1>7, <3>1, LaneFacts
    <3>3. runs \in [Ids -> Nat]
      BY DEF LaneInv, LaneTypeOK
    <3> QED
      BY <3>1, <3>2, <3>3
  <2>7. LaneTypeOK'
    BY <1>7, <2>3, <2>5, <2>6 DEF LaneInv, LaneTypeOK, Helpers, Requests, Steady
  <2>8. RunsCounted'
    <3> SUFFICES ASSUME NEW i \in Ids
                 PROVE  /\ requests'[i].status = "new" => runs[i] = 0 /\ requests'[i].retries = 0
                        /\ i \in Range(q) => runs[i] = requests'[i].retries
                        /\ runs[i] <= requests'[i].retries + 1
      BY <1>7, <2>6, LaneFacts DEF RunsCounted
    <3>1. /\ requests[i].status = "new" => runs[i] = 0 /\ requests[i].retries = 0
          /\ i \in Range(lane.pending) => runs[i] = requests[i].retries
          /\ i = x => runs[i] = requests[i].retries + 1
          /\ runs[i] <= requests[i].retries + 1
          /\ runs[i] \in Nat /\ requests[i].retries \in Nat
      BY DEF LaneInv, RunsCounted, LaneTypeOK
    <3>2. i = x => requests[i].status # "new" /\ i \notin Range(lane.pending)
      BY <2>2, LaneFacts DEF Waiting, Steady
    <3>3. CASE i = x
      BY <2>2, <2>3, <3>1, <3>2, <3>3
    <3>4. CASE i # x
      BY <1>3, <1>10, <2>3, <3>1, <3>4
    <3> QED
      BY <3>3, <3>4
  <2>9. {i \in Ids : Waiting(i)'} = {i \in Ids : Waiting(i)}
    BY <2>3 DEF Waiting
  <2>10. LaneInv'
    BY <1>7, <1>8, <2>1, <2>6, <2>7, <2>8, <2>9 DEF LaneInv, Waiting
  <2> QED
    BY <2>4, <2>10
<1> QED
  BY <1>9, <1>10

LEMMA SignalStep == ASSUME LaneInv, Signals PROVE LaneInv' /\ Told
BY StartedStep, FailedToStartStep, ReadLineStep, FinishedStep, TimeoutStep DEF Signals

LEMMA HelperStep ==
  ASSUME LaneInv, Helper PROVE LaneInv' /\ UNCHANGED requests
<1>1. UNCHANGED <<lane, requests, runs>>
  BY DEF Helper, HelperAnswers, HelperBabbles, HelperDies
<1>2. helper' \in Helpers /\ junk' \in 0 .. MaxJunk
  <2>1. CASE HelperAnswers
    <3> DEFINE t == Tail(helper.input)
               u == Append(helper.output, Head(helper.input))
    <3>1. helper.input \in Seq(Ids) /\ helper.input # <<>> /\ helper.output \in Seq(Ids \cup {None})
      BY <2>1, LaneFacts DEF HelperAnswers, Helpers
    <3>2. t \in Seq(Ids) /\ u \in Seq(Ids \cup {None})
      BY <3>1
    <3>3. helper' = [helper EXCEPT !.input = t, !.output = u]
      BY <2>1, LaneFacts DEF HelperAnswers, Helpers
    <3> HIDE DEF t, u
    <3> QED
      BY <2>1, <3>2, <3>3, LaneFacts DEF Helpers, HelperAnswers
  <2>2. CASE HelperBabbles
    <3> DEFINE u == Append(helper.output, None)
    <3>1. helper.output \in Seq(Ids \cup {None})
      BY LaneFacts DEF Helpers
    <3>2. u \in Seq(Ids \cup {None})
      BY <3>1
    <3>3. helper' = [helper EXCEPT !.output = u]
      BY <2>2, LaneFacts DEF HelperBabbles, Helpers
    <3>4. junk' \in 0 .. MaxJunk
      BY <2>2, LaneFacts, BoundsAssumption DEF HelperBabbles
    <3> HIDE DEF u
    <3> QED
      BY <3>2, <3>3, <3>4, LaneFacts DEF Helpers
  <2>3. CASE HelperDies
    BY <2>3, LaneFacts DEF HelperDies, Helpers
  <2> QED
    BY <2>1, <2>2, <2>3 DEF Helper
<1> QED
  BY <1>1, <1>2 DEF LaneInv, LaneTypeOK, RunsCounted, Helpers, Waiting


-----------------------------------------------------------------------------
(* The loaders.                                                             *)

LEMMA LoaderFacts ==
  ASSUME IInv
  PROVE  /\ LaneInv /\ requests \in Requests
         /\ path \in [Owners -> Paths \cup {NoPath}]
         /\ active \in [Owners -> BOOLEAN] /\ debounce \in [Owners -> BOOLEAN]
         /\ loading \in [Owners -> BOOLEAN] /\ generation \in [Owners -> Nat]
         /\ result \in [Owners -> Paths \cup {Nothing, Busy}]
         /\ ticket \in [Ids -> [generation : Nat, path : Paths \cup {NoPath}]]
         /\ \A i \in Ids : requests[i].owner \in Owners
BY DEF IInv, LoaderTypeOK, LaneInv, LaneTypeOK, Requests

LEMMA InitIInv == ASSUME LoaderInit PROVE IInv
<1>1. IsInjective(<<>>) /\ Range(<<>>) = {} /\ <<>> \in Seq(Ids) /\ <<>> \in Seq(Ids \cup {None})
  BY DEF IsInjective, Range
<1>2. None \notin Ids
  BY BoundsAssumption DEF None, Ids
<1>3. (CHOOSE o \in Owners : TRUE) \in Owners
  BY OwnersAssumption
<1>4. lane \in Lanes /\ lane.pending = <<>> /\ lane.active = None /\ lane.process = "NotRunning"
      /\ lane.stopping = FALSE /\ lane.intentional = FALSE
  BY <1>1 DEF LoaderInit, LaneInit, Lanes
<1>5. helper \in Helpers
  BY <1>1 DEF LoaderInit, LaneInit, Helpers
<1>6. /\ requests \in Requests
      /\ \A i \in Ids : requests[i].status = "new" /\ requests[i].retries = 0
  BY <1>3 DEF LoaderInit, LaneInit, Requests, Statuses
<1>7. junk \in 0 .. MaxJunk /\ runs \in [Ids -> Nat] /\ \A i \in Ids : runs[i] = 0
  BY BoundsAssumption DEF LoaderInit, LaneInit
<1>8. LaneTypeOK
  BY <1>4, <1>5, <1>6, <1>7 DEF LaneTypeOK, Helpers, Requests
<1>9. RunsCounted
  BY <1>1, <1>2, <1>4, <1>6, <1>7 DEF RunsCounted
<1>10. Steady(lane) /\ OnItsWay(lane)
  BY <1>1, <1>4 DEF Steady, OnItsWay
<1>11. Admitted(lane) <= Capacity
  BY <1>4, AdmittedIs, CapacityAssumption
<1>12. \A i \in Ids : ~Waiting(i)
  BY <1>6 DEF Waiting
<1>13. {i \in Ids : Waiting(i)} = Held(lane)
  BY <1>1, <1>4, <1>12 DEF Held
<1>14. LaneInv
  BY <1>8, <1>9, <1>10, <1>11, <1>13 DEF LaneInv
<1>15. LoaderTypeOK
  <2>1. ticket \in [Ids -> [generation : Nat, path : Paths \cup {NoPath}]]
    BY DEF LoaderInit
  <2> QED
    BY <1>8, <2>1 DEF LoaderInit, LoaderTypeOK
<1>16. RequestIsCurrent /\ OneRequestEach
  BY <1>12 DEF RequestIsCurrent, OneRequestEach
<1>17. SpinnerIsServed /\ PreviewMatchesSelection
  BY DEF LoaderInit, SpinnerIsServed, PreviewMatchesSelection
<1> QED
  BY <1>14, <1>15, <1>16, <1>17 DEF IInv

(* A change of what loader o should show withdraws its request.             *)
LEMMA ScheduleLoadStep ==
  ASSUME IInv, NEW o \in Owners, ScheduleLoad(o),
         path' \in [Owners -> Paths \cup {NoPath}], active' \in [Owners -> BOOLEAN],
         \A u \in Owners \ {o} : path'[u] = path[u] /\ active'[u] = active[u]
  PROVE  IInv'
<1>1. /\ LaneInv'
      /\ \A i \in Ids : /\ requests'[i].owner = requests[i].owner
                        /\ Waiting(i)' <=> Waiting(i) /\ requests[i].owner # o
  BY LoaderFacts, CancelStep DEF ScheduleLoad
<1>2. /\ generation' \in [Owners -> Nat] /\ loading' \in [Owners -> BOOLEAN]
      /\ result' \in [Owners -> Paths \cup {Nothing, Busy}] /\ debounce' \in [Owners -> BOOLEAN]
      /\ ticket' = ticket /\ loading'[o] = FALSE /\ result'[o] = Nothing
      /\ \A u \in Owners \ {o} : /\ generation'[u] = generation[u] /\ loading'[u] = loading[u]
                                 /\ result'[u] = result[u] /\ debounce'[u] = debounce[u]
  <2>1. (active'[o] /\ path'[o] # NoPath) \in BOOLEAN
    OBVIOUS
  <2> QED
    BY <2>1, LoaderFacts DEF ScheduleLoad
<1>3. LoaderTypeOK'
  BY <1>1, <1>2, LoaderFacts DEF LoaderTypeOK, LaneInv
<1>4. RequestIsCurrent'
  <2> SUFFICES ASSUME NEW i \in Ids, Waiting(i)'
               PROVE  LET u == requests'[i].owner
                      IN  /\ ticket'[i] = [generation |-> generation'[u], path |-> path'[u]]
                          /\ active'[u] /\ path'[u] # NoPath /\ ~debounce'[u] /\ loading'[u]
    BY DEF RequestIsCurrent
  <2> DEFINE u == requests[i].owner
  <2>1. u \in Owners \ {o} /\ requests'[i].owner = u /\ Waiting(i)
    BY <1>1, LoaderFacts
  <2>2. /\ ticket[i] = [generation |-> generation[u], path |-> path[u]]
        /\ active[u] /\ path[u] # NoPath /\ ~debounce[u] /\ loading[u]
    BY <2>1 DEF IInv, RequestIsCurrent
  <2> HIDE DEF u
  <2> QED
    BY <1>2, <2>1, <2>2
<1>5. OneRequestEach'
  BY <1>1 DEF IInv, OneRequestEach
<1>6. SpinnerIsServed'
  <2> SUFFICES ASSUME NEW u \in Owners, loading'[u]
               PROVE  \E i \in Ids : Waiting(i)' /\ requests'[i].owner = u
    BY DEF SpinnerIsServed
  <2>1. u # o /\ loading[u]
    BY <1>2
  <2>2. PICK i \in Ids : Waiting(i) /\ requests[i].owner = u
    BY <2>1 DEF IInv, SpinnerIsServed
  <2> QED
    BY <1>1, <2>1, <2>2
<1>7. PreviewMatchesSelection'
  <2> SUFFICES ASSUME NEW u \in Owners, result'[u] # Nothing
               PROVE  active'[u] /\ ~debounce'[u] /\ result'[u] \in {path'[u], Busy}
    BY DEF PreviewMatchesSelection
  <2>1. u # o /\ result[u] # Nothing
    BY <1>2
  <2> QED
    BY <1>2, <2>1 DEF IInv, PreviewMatchesSelection
<1> QED
  BY <1>1, <1>3, <1>4, <1>5, <1>6, <1>7 DEF IInv

LEMMA SelectionStep ==
  ASSUME IInv, NEW o \in Owners,
         (\E p \in Paths \cup {NoPath} : SetPath(o, p)) \/ SetActive(o) \/ SetMetadataOnly(o)
  PROVE  IInv'
<1>1. ASSUME NEW p \in Paths \cup {NoPath}, SetPath(o, p) PROVE IInv'
  <2>1. /\ path' \in [Owners -> Paths \cup {NoPath}] /\ active' \in [Owners -> BOOLEAN]
        /\ \A u \in Owners \ {o} : path'[u] = path[u] /\ active'[u] = active[u]
    BY <1>1, LoaderFacts DEF SetPath
  <2> QED
    BY <1>1, <2>1, ScheduleLoadStep DEF SetPath
<1>2. ASSUME SetActive(o) PROVE IInv'
  <2>1. /\ path' \in [Owners -> Paths \cup {NoPath}] /\ active' \in [Owners -> BOOLEAN]
        /\ \A u \in Owners \ {o} : path'[u] = path[u] /\ active'[u] = active[u]
    BY <1>2, LoaderFacts DEF SetActive
  <2> QED
    BY <1>2, <2>1, ScheduleLoadStep DEF SetActive
<1>3. ASSUME SetMetadataOnly(o) PROVE IInv'
  BY <1>3, LoaderFacts, ScheduleLoadStep DEF SetMetadataOnly
<1> QED
  BY <1>1, <1>2, <1>3

(* The loader has no request while its debounce timer runs.                 *)
LEMMA StartLoadStep ==
  ASSUME IInv, NEW o \in Owners, StartLoad(o)
  PROVE  IInv'
<1>1. /\ debounce[o] /\ debounce' \in [Owners -> BOOLEAN] /\ ~debounce'[o]
      /\ \A u \in Owners \ {o} : debounce'[u] = debounce[u]
      /\ UNCHANGED <<path, active, generation>>
  BY LoaderFacts DEF StartLoad
<1>2. result[o] = Nothing
  BY <1>1 DEF IInv, PreviewMatchesSelection
<1>3. \A i \in Ids : Waiting(i) => requests[i].owner # o
  BY <1>1 DEF IInv, RequestIsCurrent
<1>4. ~loading[o]
  BY <1>3 DEF IInv, SpinnerIsServed
<1>5. CASE Wanted(o) /\ Submit(o)
  <2>1. PICK i \in Ids : /\ ~Waiting(i) /\ Waiting(i)' /\ requests'[i].owner = o
                         /\ requests'[i] # requests[i]
                         /\ \A k \in Ids \ {i} : requests'[k] = requests[k]
    BY <1>5, LoaderFacts, SubmitStep
  <2>2. LaneInv'
    BY <1>5, LoaderFacts, SubmitStep
  <2>3. Admits
    BY <1>5 DEF Submit
  <2>4. /\ loading' = [loading EXCEPT ![o] = TRUE] /\ UNCHANGED result
        /\ ticket' = [k \in Ids |-> IF requests'[k] # requests[k]
                                      THEN [generation |-> generation[o], path |-> path[o]]
                                      ELSE ticket[k]]
    BY <1>5, <2>1, <2>3, Zenon DEF StartLoad, laneVars
  <2>5. /\ ticket'[i] = [generation |-> generation[o], path |-> path[o]]
        /\ \A k \in Ids \ {i} : ticket'[k] = ticket[k]
        /\ ticket' \in [Ids -> [generation : Nat, path : Paths \cup {NoPath}]]
    BY <2>1, <2>4, LoaderFacts
  <2>6. /\ loading' \in [Owners -> BOOLEAN] /\ loading'[o]
        /\ \A u \in Owners \ {o} : loading'[u] = loading[u]
    BY <2>4, LoaderFacts
  <2>7. LoaderTypeOK'
    BY <1>1, <2>2, <2>4, <2>5, <2>6, LoaderFacts DEF LoaderTypeOK, LaneInv
  <2>8. RequestIsCurrent'
    <3> SUFFICES ASSUME NEW k \in Ids, Waiting(k)'
                 PROVE  LET u == requests'[k].owner
                        IN  /\ ticket'[k] = [generation |-> generation'[u], path |-> path'[u]]
                            /\ active'[u] /\ path'[u] # NoPath /\ ~debounce'[u] /\ loading'[u]
      BY DEF RequestIsCurrent
    <3>1. CASE k = i
      BY <1>1, <1>5, <2>1, <2>5, <2>6, <3>1 DEF Wanted
    <3>2. CASE k # i
      <4> DEFINE u == requests[k].owner
      <4>1. Waiting(k) /\ requests'[k].owner = u /\ u \in Owners \ {o}
        BY <1>3, <2>1, <3>2, LoaderFacts DEF Waiting
      <4>2. /\ ticket[k] = [generation |-> generation[u], path |-> path[u]]
            /\ active[u] /\ path[u] # NoPath /\ ~debounce[u] /\ loading[u]
        BY <4>1 DEF IInv, RequestIsCurrent
      <4> HIDE DEF u
      <4> QED
        BY <1>1, <2>5, <2>6, <3>2, <4>1, <4>2
    <3> QED
      BY <3>1, <3>2
  <2>9. OneRequestEach'
    <3>1. \A k \in Ids \ {i} : Waiting(k)' => Waiting(k) /\ requests'[k].owner # o
      BY <1>3, <2>1 DEF Waiting
    <3>2. \A k, m \in Ids \ {i} :
            Waiting(k)' /\ Waiting(m)' /\ requests'[k].owner = requests'[m].owner => k = m
      BY <2>1 DEF IInv, OneRequestEach, Waiting
    <3> QED
      BY <2>1, <3>1, <3>2 DEF OneRequestEach
  <2>10. SpinnerIsServed'
    <3> SUFFICES ASSUME NEW u \in Owners, loading'[u]
                 PROVE  \E k \in Ids : Waiting(k)' /\ requests'[k].owner = u
      BY DEF SpinnerIsServed
    <3>1. CASE u = o
      BY <2>1, <3>1
    <3>2. CASE u # o
      <4>1. PICK k \in Ids : Waiting(k) /\ requests[k].owner = u
        BY <2>6, <3>2 DEF IInv, SpinnerIsServed
      <4>2. k # i
        BY <2>1, <4>1
      <4> QED
        BY <2>1, <4>1, <4>2 DEF Waiting
    <3> QED
      BY <3>1, <3>2
  <2>11. PreviewMatchesSelection'
    BY <1>1, <2>4 DEF IInv, PreviewMatchesSelection
  <2> QED
    BY <2>2, <2>7, <2>8, <2>9, <2>10, <2>11 DEF IInv
<1>6. CASE UNCHANGED laneVars
  <2>1. /\ UNCHANGED ticket /\ loading' \in [Owners -> BOOLEAN]
        /\ \A u \in Owners : loading'[u] = loading[u]
        /\ result' \in [Owners -> Paths \cup {Nothing, Busy}]
        /\ \A u \in Owners \ {o} : result'[u] = result[u]
        /\ result'[o] = result[o] \/ (Wanted(o) /\ result'[o] = Busy)
    <3>1. \/ UNCHANGED <<loading, result, ticket>>
          \/ /\ Wanted(o) /\ loading' = [loading EXCEPT ![o] = FALSE]
             /\ result' = [result EXCEPT ![o] = Busy] /\ UNCHANGED ticket
      <4>1. ~Submit(o)
        BY <1>6, LoaderFacts, SubmitStep DEF laneVars
      <4> QED
        BY <4>1 DEF StartLoad
    <3>2. CASE UNCHANGED <<loading, result, ticket>>
      BY <3>2, LoaderFacts
    <3>3. CASE /\ Wanted(o) /\ loading' = [loading EXCEPT ![o] = FALSE]
               /\ result' = [result EXCEPT ![o] = Busy] /\ UNCHANGED ticket
      <4>1. \A u \in Owners : loading'[u] = loading[u]
        BY <1>4, <3>3, LoaderFacts
      <4>2. loading' \in [Owners -> BOOLEAN]
        BY <3>3, LoaderFacts
      <4> QED
        BY <3>3, <4>1, <4>2, LoaderFacts
    <3> QED
      BY <3>1, <3>2, <3>3
  <2>2. LaneInv' /\ \A i \in Ids : Waiting(i)' <=> Waiting(i)
    BY <1>6, LoaderFacts DEF laneVars, LaneInv, LaneTypeOK, RunsCounted, Waiting
  <2>3. UNCHANGED requests
    BY <1>6 DEF laneVars
  <2>4. LoaderTypeOK'
    BY <1>1, <2>1, <2>2, LoaderFacts DEF LoaderTypeOK, LaneInv
  <2>5. RequestIsCurrent'
    <3> SUFFICES ASSUME NEW k \in Ids, Waiting(k)
                 PROVE  LET u == requests[k].owner
                        IN  /\ ticket[k] = [generation |-> generation[u], path |-> path[u]]
                            /\ active[u] /\ path[u] # NoPath /\ ~debounce'[u] /\ loading'[u]
      BY <1>1, <2>1, <2>2, <2>3 DEF RequestIsCurrent
    <3> QED
      BY <1>1, <1>3, <2>1, LoaderFacts DEF IInv, RequestIsCurrent
  <2>6. OneRequestEach' /\ SpinnerIsServed'
    BY <2>1, <2>2, <2>3 DEF IInv, OneRequestEach, SpinnerIsServed
  <2>7. PreviewMatchesSelection'
    <3> SUFFICES ASSUME NEW u \in Owners, result'[u] # Nothing
                 PROVE  active[u] /\ ~debounce'[u] /\ result'[u] \in {path[u], Busy}
      BY <1>1 DEF PreviewMatchesSelection
    <3>1. CASE u = o
      BY <1>1, <1>2, <2>1, <3>1 DEF Wanted
    <3>2. CASE u # o
      BY <1>1, <2>1, <3>2 DEF IInv, PreviewMatchesSelection
    <3> QED
      BY <3>1, <3>2
  <2> QED
    BY <2>2, <2>4, <2>5, <2>6, <2>7 DEF IInv
<1> QED
  BY <1>5, <1>6 DEF StartLoad


(* A request that is answered is current, and the only one of its loader.   *)
LEMMA DeliverStep ==
  ASSUME IInv, Deliver
  PROVE  IInv'
<1> DEFINE answered == {i \in Ids : Waiting(i) /\ requests'[i].status \in {"ok", "failed"}}
           current(i) == LET o == requests[i].owner
                         IN ticket[i].generation = generation[o] /\ ticket[i].path = path[o] /\ active[o]
           delivered(o) == {i \in answered : requests[i].owner = o /\ current(i)}
<1>1. LaneInv' /\ Told
  BY LoaderFacts, SignalStep DEF Deliver
<1>2. UNCHANGED <<path, active, generation, debounce, ticket>>
  BY DEF Deliver
<1>3. /\ loading' = [o \in Owners |-> loading[o] /\ delivered(o) = {}]
      /\ result' = [o \in Owners |-> IF delivered(o) = {} THEN result[o]
                                     ELSE ticket[CHOOSE i \in delivered(o) : TRUE].path]
  BY DEF Deliver, Callbacks
<1>4. \A i \in Ids : Waiting(i) =>
        LET o == requests[i].owner
        IN  /\ ticket[i] = [generation |-> generation[o], path |-> path[o]]
            /\ active[o] /\ path[o] # NoPath /\ ~debounce[o] /\ loading[o]
  BY DEF IInv, RequestIsCurrent
<1>5. \A i \in Ids, o \in Owners :
        i \in delivered(o) <=> /\ Waiting(i) /\ requests[i].owner = o
                               /\ requests'[i].status \in {"ok", "failed"}
  <2> SUFFICES ASSUME NEW i \in Ids, NEW o \in Owners
               PROVE  i \in delivered(o) <=> /\ Waiting(i) /\ requests[i].owner = o
                                             /\ requests'[i].status \in {"ok", "failed"}
    BY Zenon
  <2>1. Waiting(i) => /\ ticket[i].generation = generation[requests[i].owner]
                      /\ ticket[i].path = path[requests[i].owner] /\ active[requests[i].owner]
    <3> SUFFICES ASSUME Waiting(i)
                 PROVE  /\ ticket[i].generation = generation[requests[i].owner]
                        /\ ticket[i].path = path[requests[i].owner] /\ active[requests[i].owner]
      OBVIOUS
    <3>1. /\ ticket[i] = [generation |-> generation[requests[i].owner], path |-> path[requests[i].owner]]
          /\ active[requests[i].owner]
      BY <1>4
    <3> QED
      BY <3>1
  <2> QED
    BY <2>1
<1>6. \A o \in Owners : delivered(o) \subseteq Ids
  OBVIOUS
<1> HIDE DEF delivered
<1>7. ASSUME NEW o \in Owners, delivered(o) # {}
      PROVE  /\ result'[o] = path[o] /\ active[o] /\ path[o] # NoPath /\ ~debounce[o]
             /\ \A k \in Ids : requests[k].owner = o => ~Waiting(k)'
  <2>1. (CHOOSE i \in delivered(o) : TRUE) \in delivered(o)
    BY <1>7
  <2>2. PICK i \in delivered(o) : result'[o] = ticket[i].path
    BY <1>3, <1>7, <2>1
  <2>3. i \in Ids /\ Waiting(i) /\ requests[i].owner = o /\ requests'[i].status \in {"ok", "failed"}
    BY <1>5, <1>6
  <2>4. ticket[i].path = path[o] /\ active[o] /\ path[o] # NoPath /\ ~debounce[o]
    <3>1. ticket[i] = [generation |-> generation[o], path |-> path[o]]
      BY <1>4, <2>3
    <3>2. active[o] /\ path[o] # NoPath /\ ~debounce[o]
      BY <1>4, <2>3
    <3> QED
      BY <3>1, <3>2
  <2>5. \A k \in Ids : requests[k].owner = o /\ Waiting(k) => k = i
    BY <2>3 DEF IInv, OneRequestEach
  <2>6. \A k \in Ids : Waiting(k)' => Waiting(k)
    BY <1>1 DEF Told, NoneReturns
  <2>7. ~Waiting(i)'
    <3>1. requests'[i].status # "waiting"
      BY <2>3
    <3> QED
      BY <3>1 DEF Waiting
  <2> QED
    BY <2>2, <2>4, <2>5, <2>6, <2>7
<1>8. LoaderTypeOK'
  <2>1. \A o \in Owners : result'[o] \in Paths \cup {Nothing, Busy}
    <3> SUFFICES ASSUME NEW o \in Owners PROVE result'[o] \in Paths \cup {Nothing, Busy}
      OBVIOUS
    <3>1. CASE delivered(o) = {}
      BY <1>3, <3>1, LoaderFacts
    <3>2. CASE delivered(o) # {}
      BY <1>7, <3>2, LoaderFacts
    <3> QED
      BY <3>1, <3>2
  <2>2. result' \in [Owners -> Paths \cup {Nothing, Busy}]
    BY <1>3, <2>1
  <2>3. loading' \in [Owners -> BOOLEAN]
    <3>1. \A o \in Owners : (loading[o] /\ delivered(o) = {}) \in BOOLEAN
      OBVIOUS
    <3> QED
      BY <1>3, <3>1
  <2> QED
    BY <1>1, <1>2, <2>2, <2>3, LoaderFacts DEF LoaderTypeOK, LaneInv
<1>9. RequestIsCurrent'
  <2> SUFFICES ASSUME NEW k \in Ids, Waiting(k)'
               PROVE  LET u == requests'[k].owner
                      IN  /\ ticket'[k] = [generation |-> generation'[u], path |-> path'[u]]
                          /\ active'[u] /\ path'[u] # NoPath /\ ~debounce'[u] /\ loading'[u]
    BY DEF RequestIsCurrent
  <2> DEFINE u == requests[k].owner
  <2>1. Waiting(k) /\ requests'[k].owner = u /\ u \in Owners
    BY <1>1, LoaderFacts DEF Told, NoneReturns
  <2>2. /\ ticket[k] = [generation |-> generation[u], path |-> path[u]]
        /\ active[u] /\ path[u] # NoPath /\ ~debounce[u] /\ loading[u]
    BY <1>4, <2>1
  <2>3. delivered(u) = {}
    BY <1>7, <2>1
  <2>4. loading'[u]
    BY <1>3, <2>1, <2>2, <2>3
  <2> HIDE DEF u
  <2> QED
    BY <1>2, <2>1, <2>2, <2>4
<1>10. OneRequestEach'
  BY <1>1 DEF IInv, OneRequestEach, Told, NoneReturns
<1>11. SpinnerIsServed'
  <2> SUFFICES ASSUME NEW u \in Owners, loading'[u]
               PROVE  \E k \in Ids : Waiting(k)' /\ requests'[k].owner = u
    BY DEF SpinnerIsServed
  <2>1. loading[u] /\ delivered(u) = {}
    BY <1>3
  <2>2. PICK k \in Ids : Waiting(k) /\ requests[k].owner = u
    BY <2>1 DEF IInv, SpinnerIsServed
  <2>3. requests'[k].status = "waiting"
    BY <1>1, <1>5, <2>1, <2>2 DEF Told
  <2> QED
    BY <1>1, <2>2, <2>3 DEF Told, NoneReturns, Waiting
<1>12. PreviewMatchesSelection'
  <2> SUFFICES ASSUME NEW u \in Owners, result'[u] # Nothing
               PROVE  active[u] /\ ~debounce[u] /\ result'[u] \in {path[u], Busy}
    BY <1>2 DEF PreviewMatchesSelection
  <2>1. CASE delivered(u) = {}
    BY <1>3, <2>1 DEF IInv, PreviewMatchesSelection
  <2>2. CASE delivered(u) # {}
    BY <1>7, <2>2
  <2> QED
    BY <2>1, <2>2
<1> QED
  BY <1>1, <1>8, <1>9, <1>10, <1>11, <1>12 DEF IInv

LEMMA QuietLoaders ==
  ASSUME IInv, LaneInv', UNCHANGED <<requests, loaderVars>>
  PROVE  IInv'
BY DEF IInv, LoaderTypeOK, LaneInv, RequestIsCurrent, OneRequestEach, SpinnerIsServed,
       PreviewMatchesSelection, Waiting, loaderVars

LEMMA NextIInv == ASSUME IInv, [LoaderNext]_allVars PROVE IInv'
<1>1. ASSUME NEW o \in Owners,
             \/ \E p \in Paths \cup {NoPath} : SetPath(o, p)
             \/ SetActive(o) \/ SetMetadataOnly(o) \/ StartLoad(o)
      PROVE  IInv'
  BY <1>1, SelectionStep, StartLoadStep
<1>2. CASE Deliver
  BY <1>2, DeliverStep
<1>3. CASE Helper /\ UNCHANGED loaderVars
  BY <1>3, LoaderFacts, HelperStep, QuietLoaders
<1>4. CASE UNCHANGED allVars
  <2>1. LaneInv'
    BY <1>4, LoaderFacts DEF allVars, laneVars, LaneInv, LaneTypeOK, RunsCounted, Waiting
  <2> QED
    BY <1>4, <2>1, QuietLoaders DEF allVars, laneVars
<1> QED
  BY <1>1, <1>2, <1>3, <1>4 DEF LoaderNext

LEMMA LoaderInvariant == LoaderSpec => []IInv
BY InitIInv, NextIInv, PTL DEF LoaderSpec

-----------------------------------------------------------------------------
(* What is shown is a preview of what is selected, or says that the queue   *)
(* is full: never the answer of a withdrawn or an earlier request.          *)
THEOREM PreviewIsOfTheSelection == LoaderSpec => []PreviewMatchesSelection
<1>1. IInv => PreviewMatchesSelection
  BY DEF IInv
<1> QED
  BY <1>1, LoaderInvariant, PTL

(* A spinner has a request of its loader's current generation, a request    *)
(* its place in the lane and what moves it on, and none is handed to more   *)
(* than two helpers.                                                        *)
THEOREM NobodyWaitsInVain == LoaderSpec => []WaitingIsNotInVain
<1>1. ASSUME IInv PROVE SpinnerHasWork
  <2> SUFFICES ASSUME NEW o \in Owners
               PROVE  loading[o] <=> \E i \in Ids : /\ Waiting(i) /\ requests[i].owner = o
                                                    /\ ticket[i].generation = generation[o]
    BY DEF SpinnerHasWork
  <2>1. \A i \in Ids : Waiting(i) /\ requests[i].owner = o =>
                         ticket[i].generation = generation[o] /\ loading[o]
    <3> SUFFICES ASSUME NEW i \in Ids, Waiting(i), requests[i].owner = o
                 PROVE  ticket[i].generation = generation[o] /\ loading[o]
      BY Zenon
    <3>1. ticket[i] = [generation |-> generation[o], path |-> path[o]] /\ loading[o]
      BY <1>1 DEF IInv, RequestIsCurrent
    <3> QED
      BY <3>1
  <2>2. loading[o] => \E i \in Ids : Waiting(i) /\ requests[i].owner = o
    BY <1>1 DEF IInv, SpinnerIsServed
  <2> QED
    BY <2>1, <2>2
<1>2. ASSUME IInv PROVE NothingForgotten
  BY <1>2 DEF IInv, LaneInv, Steady, OnItsWay, Held, NothingForgotten
<1>3. ASSUME IInv PROVE TriedTwiceAtMost
  <2> SUFFICES ASSUME NEW i \in Ids PROVE runs[i] <= 2
    BY DEF TriedTwiceAtMost
  <2>1. runs[i] \in Nat /\ requests[i].retries \in 0 .. 1 /\ runs[i] <= requests[i].retries + 1
    BY <1>3 DEF IInv, LaneInv, LaneTypeOK, RunsCounted
  <2> QED
    BY <2>1
<1>4. IInv => WaitingIsNotInVain
  BY <1>1, <1>2, <1>3 DEF IInv, WaitingIsNotInVain
<1> QED
  BY <1>4, LoaderInvariant, PTL

=============================================================================

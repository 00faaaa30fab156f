---------------------------- MODULE PlacesProofs ----------------------------
(***************************************************************************)
(* Proofs about the places of a window: the tabs stay sound and nobody is  *)
(* left in a volume or a share that is gone.                               *)
(*                                                                         *)
(* The invariant PlacesInv has three parts.  DriveInv: each call of a      *)
(* volume is marked busy until its answer is read, or the answer comes     *)
(* when the program knows of no volume; so no two calls clash, and a list  *)
(* that is not the latest has another on its way.  NetInv: what is there   *)
(* and what the list of shares has differ by exactly the signals that are  *)
(* still to be read.  And for every place that a tab shows or a closed tab *)
(* keeps: it is there, or what will lead the tab out of it is under way.   *)
(* The three are kept apart by TabsMove, all that one part may do to the   *)
(* tabs of another.                                                        *)
(***************************************************************************)
EXTENDS Places, FiniteSetTheorems, SequenceTheorems, TLAPS

-----------------------------------------------------------------------------
AnyPlace == Volumes \cup Roots \cup {Home, Above, NoPlace}

(* A tab holds places; the pane it is active in shows one.                  *)
Tabs == [id : 0 .. MaxTabs, primary : AnyPlace, secondary : AnyPlace, activePane : {0, 1}]

SoundTab(t) == t.primary # NoPlace /\ (t.activePane = 1 => t.secondary # NoPlace)

(* TabsAreSound by indices, of tabs t, closed tabs c and current index n.   *)
Sound(t, c, n) ==
    /\ t \in Seq(Tabs) /\ c \in Seq(Tabs)
    /\ Len(t) \in 1 .. MaxTabs /\ n \in 1 .. Len(t)
    /\ \A i, j \in 1 .. Len(t) : t[i].id = t[j].id => i = j
    /\ \A i \in 1 .. Len(t) : SoundTab(t[i])
    /\ \A i \in 1 .. Len(c) : SoundTab(c[i])

TabsOK == Sound(tabs, closedTabs, currentIndex)

Has(s, p) == \E i \in 1 .. Len(s) : s[i].primary = p \/ s[i].secondary = p

(* Some session, or a closed tab, would show p.                             *)
Held(p) == Has(tabs, p) \/ Has(closedTabs, p)

(* Where the user is after a tab was closed.                                *)
KeepsTheCurrentTab ==
    /\ currentIndex' \in DOMAIN tabs'
    /\ (\E i \in DOMAIN tabs' : tabs'[i].id = CurrentTab.id)
          => tabs'[currentIndex'].id = CurrentTab.id

(* The tabs stay sound, show nothing new but what is among places, and none *)
(* but a closed one goes.                                                   *)
TabsMove(places) ==
    /\ TabsOK'
    /\ \A p : Held(p)' => Held(p) \/ p \in places
    /\ Len(tabs') < Len(tabs) => KeepsTheCurrentTab

LEMMA SoundIsSound ==
    ASSUME TabsOK
    PROVE  TabsAreSound /\ \A p : p \in PlacesShown \cup PlacesKept => Held(p)
<1>1. /\ DOMAIN tabs = 1 .. Len(tabs) /\ DOMAIN closedTabs = 1 .. Len(closedTabs)
      /\ Len(tabs) \in 1 .. MaxTabs /\ currentIndex \in 1 .. Len(tabs)
  BY DEF TabsOK, Sound
<1>2. \A t \in ToSet(tabs) : \E i \in 1 .. Len(tabs) : t = tabs[i]
  BY <1>1 DEF ToSet
<1>3. \A t \in ToSet(closedTabs) : \E i \in 1 .. Len(closedTabs) : t = closedTabs[i]
  BY <1>1 DEF ToSet
<1>4. \A p \in PlacesShown : Has(tabs, p)
  BY <1>2 DEF PlacesShown, Has
<1>5. \A p \in PlacesKept : Has(closedTabs, p)
  BY <1>3 DEF PlacesKept, Has
<1>6. TabsAreSound
  BY <1>1, <1>2, <1>3 DEF TabsAreSound, TabsOK, Sound, SoundTab
<1> QED
  BY <1>4, <1>5, <1>6 DEF Held

(* A tab with other panes.                                                  *)
LEMMA PanesChange ==
    ASSUME NEW t \in Tabs, NEW p \in AnyPlace, NEW q \in AnyPlace
    PROVE  LET u == [t EXCEPT !.primary = p, !.secondary = q]
           IN  /\ u \in Tabs /\ u.id = t.id /\ u.primary = p /\ u.secondary = q
               /\ u.activePane = t.activePane
BY DEF Tabs

LEMMA OnePaneLeft ==
    ASSUME NEW t \in Tabs, NEW q \in AnyPlace,
           NEW u, u = [t EXCEPT !.secondary = q, !.activePane = 0]
    PROVE  /\ u \in Tabs /\ u.id = t.id /\ u.primary = t.primary /\ u.secondary = q
           /\ u.activePane = 0
BY DEF Tabs

LEMMA TabsInitially ==
    ASSUME TabInit
    PROVE  TabsOK /\ \A p : Held(p) => p \in {Home, NoPlace}
<1>1. tabs \in Seq(Tabs) /\ Len(tabs) = 1 /\ tabs[1].primary = Home /\ tabs[1].secondary = NoPlace
      /\ tabs[1].activePane = 0
  BY TabAssumption DEF TabInit, Tabs, AnyPlace
<1>2. closedTabs \in Seq(Tabs) /\ Len(closedTabs) = 0
  BY DEF TabInit
<1>3. TabsOK
  BY <1>1, <1>2, TabAssumption DEF TabsOK, Sound, SoundTab, TabInit
<1>4. \A p : Held(p) => p \in {Home, NoPlace}
  BY <1>1, <1>2 DEF Held, Has
<1> QED
  BY <1>3, <1>4

(* One tab changes what it shows.                                           *)
LEMMA TabChanges ==
    ASSUME TabsOK, NEW i \in 1 .. Len(tabs), NEW t \in Tabs, t.id = tabs[i].id, SoundTab(t),
           tabs' = [tabs EXCEPT ![i] = t], UNCHANGED <<currentIndex, closedTabs>>
    PROVE  TabsMove({t.primary, t.secondary})
<1>1. tabs \in Seq(Tabs) /\ Len(tabs) \in Nat
  BY DEF TabsOK, Sound
<1>2. /\ tabs' \in Seq(Tabs) /\ Len(tabs') = Len(tabs)
      /\ \A j \in 1 .. Len(tabs) : tabs'[j] = IF j = i THEN t ELSE tabs[j]
  BY <1>1, ExceptSeq
<1>3. TabsOK'
  BY <1>2 DEF TabsOK, Sound
<1>4. \A p : Has(tabs', p) => Has(tabs, p) \/ p \in {t.primary, t.secondary}
  BY <1>2 DEF Has
<1>5. ~(Len(tabs') < Len(tabs))
  BY <1>1, <1>2
<1> QED
  BY <1>3, <1>4, <1>5 DEF TabsMove, Held

LEMMA PigeonHole ==
    ASSUME NEW m \in Nat, NEW n \in Nat, n < m, NEW f \in [1 .. m -> 1 .. n]
    PROVE  \E x, y \in 1 .. m : x # y /\ f[x] = f[y]
<1>1. \A k \in Nat : IsFiniteSet(1 .. k) /\ Cardinality(1 .. k) = k
  BY FS_Interval
<1>2. IsFiniteSet(1 .. m) /\ IsFiniteSet(1 .. n) /\ Cardinality(1 .. n) < Cardinality(1 .. m)
  BY <1>1
<1> QED
  BY <1>2, FS_PigeonHole

LEMMA NewIdIsNew ==
    ASSUME TabsOK, Len(tabs) < MaxTabs
    PROVE  NewId \in 1 .. MaxTabs /\ \A i \in 1 .. Len(tabs) : tabs[i].id # NewId
<1>1. tabs \in Seq(Tabs) /\ Len(tabs) \in Nat /\ MaxTabs \in Nat /\ DOMAIN tabs = 1 .. Len(tabs)
  BY TabAssumption DEF TabsOK, Sound
<1>2. \A n : (\A t \in ToSet(tabs) : t.id # n) <=> \A i \in 1 .. Len(tabs) : tabs[i].id # n
  BY <1>1 DEF ToSet
<1>3. \E n \in 1 .. MaxTabs : \A i \in 1 .. Len(tabs) : tabs[i].id # n
  <2> SUFFICES ASSUME \A n \in 1 .. MaxTabs : \E i \in 1 .. Len(tabs) : tabs[i].id = n
               PROVE  FALSE
    OBVIOUS
  <2> DEFINE f == [n \in 1 .. MaxTabs |-> CHOOSE i \in 1 .. Len(tabs) : tabs[i].id = n]
  <2>1. \A n \in 1 .. MaxTabs : f[n] \in 1 .. Len(tabs) /\ tabs[f[n]].id = n
    OBVIOUS
  <2>2. f \in [1 .. MaxTabs -> 1 .. Len(tabs)]
    BY <2>1
  <2> HIDE DEF f
  <2>3. \E m, n \in 1 .. MaxTabs : m # n /\ f[m] = f[n]
    BY <1>1, <2>2, PigeonHole
  <2> QED
    BY <2>1, <2>3
<1> QED
  BY <1>2, <1>3 DEF NewId

(* A tab that is opened shows what t does.                                  *)
LEMMA TabOpens ==
    ASSUME TabsOK, NEW t \in Tabs, SoundTab(t), Opened(t),
           closedTabs' \in Seq(Tabs), Len(closedTabs') <= Len(closedTabs),
           \A i \in 1 .. Len(closedTabs') : closedTabs'[i] = closedTabs[i]
    PROVE  TabsMove({t.primary, t.secondary})
<1> DEFINE u == [t EXCEPT !.id = NewId]
<1>1. tabs \in Seq(Tabs) /\ Len(tabs) \in Nat /\ MaxTabs \in Nat /\ Len(tabs) < MaxTabs
      /\ Len(closedTabs) \in Nat /\ Len(closedTabs') \in Nat
  BY TabAssumption DEF TabsOK, Sound, Opened
<1>2. NewId \in 1 .. MaxTabs /\ \A i \in 1 .. Len(tabs) : tabs[i].id # NewId
  BY <1>1, NewIdIsNew
<1>3. /\ u \in Tabs /\ u.id = NewId /\ SoundTab(u)
      /\ u.primary = t.primary /\ u.secondary = t.secondary
  BY <1>1, <1>2 DEF Tabs, SoundTab
<1> HIDE DEF u
<1>4. tabs' = Append(tabs, u) /\ currentIndex' = Len(tabs) + 1
  BY DEF Opened, u
<1>5. /\ tabs' \in Seq(Tabs) /\ Len(tabs') = Len(tabs) + 1 /\ tabs'[Len(tabs) + 1] = u
      /\ \A i \in 1 .. Len(tabs) : tabs'[i] = tabs[i]
  BY <1>1, <1>3, <1>4, AppendProperties
<1> DEFINE n == Len(tabs)
<1>a. \A i \in 1 .. n + 1 : (i \in 1 .. n /\ tabs'[i] = tabs[i]) \/ (i = n + 1 /\ tabs'[i] = u)
  BY <1>1, <1>5
<1>6. TabsOK'
  <2>1. /\ Len(tabs') \in 1 .. MaxTabs /\ currentIndex' \in 1 .. Len(tabs')
        /\ Len(tabs') = n + 1
    BY <1>1, <1>4, <1>5
  <2>2. \A i \in 1 .. n : SoundTab(tabs[i])
    BY DEF TabsOK, Sound
  <2>3. \A i, j \in 1 .. n : tabs[i].id = tabs[j].id => i = j
    BY DEF TabsOK, Sound
  <2>4. \A i \in 1 .. Len(closedTabs) : SoundTab(closedTabs[i])
    BY DEF TabsOK, Sound
  <2> HIDE DEF n
  <2>5. \A i \in 1 .. n + 1 : SoundTab(tabs'[i])
    BY <1>3, <1>a, <2>2
  <2>6. \A i, j \in 1 .. n + 1 : tabs'[i].id = tabs'[j].id => i = j
    <3> TAKE i, j \in 1 .. n + 1
    <3>1. \A k \in 1 .. n : tabs[k].id # u.id
      BY <1>2, <1>3 DEF n
    <3> QED
      BY <1>a, <2>3, <3>1
  <2>7. \A i \in 1 .. Len(closedTabs') : SoundTab(closedTabs'[i])
    <3> TAKE i \in 1 .. Len(closedTabs')
    <3>1. i \in 1 .. Len(closedTabs) /\ closedTabs'[i] = closedTabs[i]
      BY <1>1
    <3> QED
      BY <2>4, <3>1
  <2> QED
    BY <1>5, <2>1, <2>5, <2>6, <2>7 DEF TabsOK, Sound
<1> HIDE DEF n
<1>7. \A p : Has(tabs', p) => Has(tabs, p) \/ p \in {t.primary, t.secondary}
  <2> TAKE p
  <2> HAVE Has(tabs', p)
  <2>1. PICK i \in 1 .. n + 1 : tabs'[i].primary = p \/ tabs'[i].secondary = p
    BY <1>5 DEF Has, n
  <2>2. CASE i \in 1 .. n /\ tabs'[i] = tabs[i]
    BY <2>1, <2>2 DEF Has, n
  <2>3. CASE tabs'[i] = u
    BY <1>3, <2>1, <2>3
  <2> QED
    BY <1>a, <2>2, <2>3
<1>8. \A p : Has(closedTabs', p) => Has(closedTabs, p)
  BY <1>1 DEF Has
<1>9. ~(Len(tabs') < Len(tabs))
  BY <1>1, <1>5
<1> QED
  BY <1>6, <1>7, <1>8, <1>9 DEF TabsMove, Held

LEMMA RemovedAt ==
    ASSUME NEW S, NEW s \in Seq(S), NEW i \in 1 .. Len(s)
    PROVE  /\ RemoveAt(s, i) \in Seq(S) /\ Len(RemoveAt(s, i)) = Len(s) - 1
           /\ \A j \in 1 .. Len(s) - 1 : RemoveAt(s, i)[j] = IF j < i THEN s[j] ELSE s[j + 1]
<1> DEFINE left == SubSeq(s, 1, i - 1)  right == SubSeq(s, i + 1, Len(s))
<1>1. Len(s) \in Nat /\ \A j \in 1 .. Len(s) : s[j] \in S
  OBVIOUS
<1>2. left \in Seq(S) /\ Len(left) = i - 1 /\ \A j \in 1 .. i - 1 : left[j] = s[j]
  BY <1>1, SubSeqProperties
<1>3. /\ right \in Seq(S) /\ Len(right) = Len(s) - i
      /\ \A j \in 1 .. Len(s) - i : right[j] = s[i + j]
  BY <1>1, SubSeqProperties
<1> HIDE DEF left, right
<1>4. /\ left \o right \in Seq(S) /\ Len(left \o right) = Len(left) + Len(right)
      /\ \A j \in 1 .. Len(left) + Len(right) :
           (left \o right)[j] = IF j <= Len(left) THEN left[j] ELSE right[j - Len(left)]
  BY <1>2, <1>3, ConcatProperties
<1>5. /\ left \o right \in Seq(S) /\ Len(left \o right) = Len(s) - 1
      /\ \A j \in 1 .. Len(s) - 1 : (left \o right)[j] = IF j <= i - 1 THEN left[j] ELSE right[j - (i - 1)]
  BY <1>1, <1>2, <1>3, <1>4
<1>6. \A j \in 1 .. Len(s) - 1 : j >= i => right[j - (i - 1)] = s[j + 1]
  BY <1>1, <1>3
<1>7. RemoveAt(s, i) = left \o right
  BY DEF RemoveAt, left, right
<1>8. \A j \in 1 .. Len(s) - 1 : (left \o right)[j] = IF j < i THEN s[j] ELSE s[j + 1]
  <2> TAKE j \in 1 .. Len(s) - 1
  <2>1. CASE j < i
    <3>1. j \in 1 .. i - 1 /\ j <= i - 1
      BY <1>1, <2>1
    <3> QED
      BY <1>2, <1>5, <2>1, <3>1
  <2>2. CASE ~(j < i)
    <3>1. j >= i /\ ~(j <= i - 1)
      BY <1>1, <2>2
    <3> QED
      BY <1>5, <1>6, <2>2, <3>1
  <2> QED
    BY <2>1, <2>2
<1> QED
  BY <1>5, <1>7, <1>8

LEMMA TabCloses ==
    ASSUME TabsOK, NEW i, CloseOneOfSeveral(i)
    PROVE  TabsMove({})
<1>1. /\ tabs \in Seq(Tabs) /\ Len(tabs) \in 1 .. MaxTabs /\ Len(tabs) > 1 /\ MaxTabs \in Nat
      /\ closedTabs \in Seq(Tabs) /\ Len(closedTabs) \in Nat /\ currentIndex \in 1 .. Len(tabs)
  BY TabAssumption DEF TabsOK, Sound, CloseOneOfSeveral
<1>2. i \in 1 .. Len(tabs)
  BY <1>1 DEF CloseOneOfSeveral
<1>3. /\ tabs' \in Seq(Tabs) /\ Len(tabs') = Len(tabs) - 1
      /\ \A j \in 1 .. Len(tabs) - 1 : tabs'[j] = IF j < i THEN tabs[j] ELSE tabs[j + 1]
  BY <1>1, <1>2, RemovedAt DEF CloseOneOfSeveral
<1>4. /\ closedTabs' \in Seq(Tabs)
      /\ \A j \in 1 .. Len(closedTabs') :
           closedTabs'[j] = tabs[i] \/ \E k \in 1 .. Len(closedTabs) : closedTabs'[j] = closedTabs[k]
  <2> DEFINE a == Append(closedTabs, tabs[i])
  <2>1. (closedTabs' = a \/ closedTabs' = Tail(a)) /\ a = Append(closedTabs, tabs[i])
    BY DEF CloseOneOfSeveral
  <2>2. tabs[i] \in Tabs
    BY <1>1, <1>2, ElementOfSeq
  <2> HIDE DEF a
  <2>3. /\ a \in Seq(Tabs) /\ Len(a) = Len(closedTabs) + 1
        /\ \A k \in 1 .. Len(closedTabs) + 1 :
             a[k] = IF k = Len(closedTabs) + 1 THEN tabs[i] ELSE closedTabs[k]
    BY <1>1, <2>1, <2>2, AppendProperties
  <2>4. /\ Tail(a) \in Seq(Tabs) /\ Len(Tail(a)) = Len(closedTabs)
        /\ \A k \in 1 .. Len(closedTabs) : Tail(a)[k] = a[k + 1]
    BY <1>1, <2>3, HeadTailProperties
  <2>5. CASE closedTabs' = a
    BY <1>1, <2>3, <2>5
  <2>6. CASE closedTabs' = Tail(a)
    <3>1. closedTabs' \in Seq(Tabs) /\ Len(closedTabs') = Len(closedTabs)
      BY <2>4, <2>6
    <3>2. ASSUME NEW k \in 1 .. Len(closedTabs)
          PROVE  closedTabs'[k] = tabs[i] \/ \E l \in 1 .. Len(closedTabs) : closedTabs'[k] = closedTabs[l]
      <4>1. closedTabs'[k] = a[k + 1] /\ k + 1 \in 1 .. Len(closedTabs) + 1
        BY <1>1, <2>4, <2>6, <3>2
      <4>2. CASE k + 1 = Len(closedTabs) + 1
        BY <2>3, <4>1, <4>2
      <4>3. CASE k + 1 # Len(closedTabs) + 1
        <5>1. closedTabs'[k] = closedTabs[k + 1] /\ k + 1 \in 1 .. Len(closedTabs)
          BY <1>1, <2>3, <4>1, <4>3
        <5> QED
          BY <5>1
      <4> QED
        BY <4>2, <4>3
    <3> QED
      BY <3>1, <3>2
  <2> QED
    BY <2>1, <2>5, <2>6
<1>a. \A j \in 1 .. Len(tabs') :
        \E k \in 1 .. Len(tabs) :
          tabs'[j] = tabs[k] /\ k # i /\ k = IF j < i THEN j ELSE j + 1
  <2> TAKE j \in 1 .. Len(tabs')
  <2>1. CASE j < i
    <3>1. j \in 1 .. Len(tabs) /\ tabs'[j] = tabs[j] /\ j # i
      BY <1>1, <1>2, <1>3, <2>1
    <3> QED
      BY <2>1, <3>1
  <2>2. CASE ~(j < i)
    <3>1. j + 1 \in 1 .. Len(tabs) /\ tabs'[j] = tabs[j + 1] /\ j + 1 # i
      BY <1>1, <1>2, <1>3, <2>2
    <3> QED
      BY <2>2, <3>1
  <2> QED
    BY <2>1, <2>2
<1>5. currentIndex' = IndexAfterClosing(i) /\ currentIndex' \in 1 .. Len(tabs')
  <2>1. currentIndex' = IndexAfterClosing(i) /\ Len(tabs') = Len(tabs) - 1
    BY <1>3 DEF CloseOneOfSeveral
  <2> DEFINE n == Len(tabs)
  <2>2. n \in Nat /\ n > 1 /\ i \in 1 .. n /\ currentIndex \in 1 .. n
    BY <1>1, <1>2
  <2>3. IndexAfterClosing(i) \in {currentIndex, currentIndex - 1, n - 1}
        /\ IndexAfterClosing(i) \in 1 .. n - 1
    BY <2>2 DEF IndexAfterClosing
  <2> QED
    BY <2>1, <2>3
<1>6. TabsOK'
  <2>1. \A j, k \in 1 .. Len(tabs') : tabs'[j].id = tabs'[k].id => j = k
    <3> DEFINE from(j) == IF j < i THEN j ELSE j + 1
    <3>1. \A j \in 1 .. Len(tabs') : from(j) \in 1 .. Len(tabs) /\ tabs'[j] = tabs[from(j)]
      BY <1>a
    <3>2. \A j, k \in 1 .. Len(tabs') : from(j) = from(k) => j = k
      BY <1>1, <1>2, <1>3
    <3>3. \A j, k \in 1 .. Len(tabs) : tabs[j].id = tabs[k].id => j = k
      BY DEF TabsOK, Sound
    <3> HIDE DEF from
    <3> QED
      BY <3>1, <3>2, <3>3
  <2> DEFINE sound(t) == SoundTab(t)
  <2>2. /\ \A j \in 1 .. Len(tabs) : sound(tabs[j])
        /\ \A j \in 1 .. Len(closedTabs) : sound(closedTabs[j])
    BY DEF TabsOK, Sound
  <2> HIDE DEF sound
  <2>3. \A j \in 1 .. Len(tabs') : sound(tabs'[j])
    BY <1>a, <2>2
  <2>4. \A j \in 1 .. Len(closedTabs') : sound(closedTabs'[j])
    BY <1>2, <1>4, <2>2
  <2> QED
    BY <1>1, <1>3, <1>4, <1>5, <2>1, <2>3, <2>4 DEF TabsOK, Sound, sound
<1>7. \A p : Has(tabs', p) => Has(tabs, p)
  BY <1>a DEF Has
<1>8. \A p : Has(closedTabs', p) => Has(closedTabs, p) \/ Has(tabs, p)
  BY <1>1, <1>2, <1>4 DEF Has
<1>9. KeepsTheCurrentTab
  <2>1. DOMAIN tabs' = 1 .. Len(tabs')
    BY <1>3
  <2>2. \A j, k \in 1 .. Len(tabs) : tabs[j].id = tabs[k].id => j = k
    BY DEF TabsOK, Sound
  <2>3. CASE i = currentIndex
    <3>1. \A j \in 1 .. Len(tabs') : tabs'[j].id # tabs[currentIndex].id
      <4> TAKE j \in 1 .. Len(tabs')
      <4>1. PICK k \in 1 .. Len(tabs) : k # i /\ tabs'[j] = tabs[k]
        BY <1>a
      <4> QED
        BY <1>2, <2>2, <2>3, <4>1
    <3> QED
      BY <1>5, <2>1, <3>1 DEF KeepsTheCurrentTab, CurrentTab
  <2>4. CASE i # currentIndex
    <3>1. tabs'[currentIndex'] = tabs[currentIndex]
      <4>1. CASE i < currentIndex
        <5>1. currentIndex' = currentIndex - 1 /\ currentIndex - 1 \in 1 .. Len(tabs) - 1
              /\ ~(currentIndex - 1 < i) /\ currentIndex - 1 + 1 = currentIndex
          BY <1>1, <1>2, <1>5, <4>1 DEF IndexAfterClosing
        <5> QED
          BY <1>3, <5>1
      <4>2. CASE currentIndex < i
        <5>1. currentIndex' = currentIndex /\ currentIndex \in 1 .. Len(tabs) - 1
          BY <1>1, <1>2, <1>5, <4>2 DEF IndexAfterClosing
        <5> QED
          BY <1>3, <4>2, <5>1
      <4> QED
        BY <1>1, <1>2, <2>4, <4>1, <4>2
    <3> QED
      BY <1>5, <2>1, <3>1 DEF KeepsTheCurrentTab, CurrentTab
  <2> QED
    BY <2>3, <2>4
<1> QED
  BY <1>6, <1>7, <1>8, <1>9 DEF TabsMove, Held

LEMMA TabsArranged ==
    ASSUME TabsOK, Arrange
    PROVE  TabsMove({Home, NoPlace})
<1> DEFINE cur == tabs[currentIndex]
<1>1. /\ tabs \in Seq(Tabs) /\ Len(tabs) \in 1 .. MaxTabs /\ currentIndex \in 1 .. Len(tabs)
      /\ closedTabs \in Seq(Tabs) /\ MaxTabs \in Nat /\ Len(closedTabs) \in Nat
  BY TabAssumption DEF TabsOK, Sound
<1>2. cur \in Tabs /\ SoundTab(cur) /\ Has(tabs, cur.primary) /\ Has(tabs, cur.secondary)
  BY <1>1, ElementOfSeq DEF TabsOK, Sound, Has
<1>3. /\ cur = [id |-> cur.id, primary |-> cur.primary, secondary |-> cur.secondary,
                 activePane |-> cur.activePane]
      /\ cur.id \in 0 .. MaxTabs /\ {cur.primary, cur.secondary, Home, NoPlace} \subseteq AnyPlace
      /\ cur.activePane \in {0, 1}
  BY <1>2 DEF Tabs, AnyPlace
<1>4. CASE newTab
  <2> DEFINE t == [id |-> 0, primary |-> CurrentPlace, secondary |-> NoPlace, activePane |-> 0]
  <2>1. CurrentPlace \in {cur.primary, cur.secondary}
    BY DEF CurrentPlace, CurrentTab
  <2>2. t \in Tabs /\ SoundTab(t)
    <3>1. CurrentPlace # NoPlace
      BY <1>2, <1>3 DEF SoundTab, CurrentPlace, CurrentTab
    <3> QED
      BY <1>3, <2>1, <3>1, TabAssumption DEF Tabs, SoundTab
  <2>3. Opened(t) /\ UNCHANGED closedTabs
    BY <1>4 DEF newTab
  <2>4. TabsMove({t.primary, t.secondary})
    BY <1>1, <2>2, <2>3, TabOpens
  <2> QED
    BY <1>2, <2>1, <2>4 DEF TabsMove, Held
<1>5. CASE reopenClosedTab
  <2> DEFINE t == Last(closedTabs)
  <2>1. closedTabs # <<>> /\ Opened(t) /\ closedTabs' = SubSeq(closedTabs, 1, Len(closedTabs) - 1)
    BY <1>5 DEF reopenClosedTab, Front
  <2>2. Len(closedTabs) >= 1
    BY <1>1, <2>1, EmptySeq
  <2>3. t \in Tabs /\ SoundTab(t) /\ Has(closedTabs, t.primary) /\ Has(closedTabs, t.secondary)
    BY <1>1, <2>2, ElementOfSeq DEF Last, TabsOK, Sound, Has
  <2>4. /\ closedTabs' \in Seq(Tabs) /\ Len(closedTabs') = Len(closedTabs) - 1
        /\ \A i \in 1 .. Len(closedTabs) - 1 : closedTabs'[i] = closedTabs[i]
    <3>1. Len(closedTabs) - 1 \in Int /\ \A i \in 1 .. Len(closedTabs) - 1 : closedTabs[i] \in Tabs
      BY <1>1
    <3> DEFINE n == Len(closedTabs) - 1
    <3>2. n \in Int /\ 1 \in Int /\ closedTabs' = SubSeq(closedTabs, 1, n) /\ n >= 0
      BY <1>1, <2>1, <2>2
    <3> HIDE DEF n
    <3>3. /\ closedTabs' \in Seq(Tabs) /\ Len(closedTabs') = IF 1 <= n THEN n - 1 + 1 ELSE 0
          /\ \A i \in 1 .. n - 1 + 1 : closedTabs'[i] = closedTabs[1 + i - 1]
      BY <3>1, <3>2, SubSeqProperties DEF n
    <3>4. \A i \in 1 .. n : 1 + i - 1 = i /\ i \in 1 .. n - 1 + 1
      BY <3>2
    <3>5. \A i \in 1 .. n : closedTabs'[i] = closedTabs[i]
      BY <3>3, <3>4
    <3>6. Len(closedTabs') = n
      BY <3>2, <3>3
    <3> QED
      BY <3>3, <3>5, <3>6 DEF n
  <2> HIDE DEF t
  <2>5. TabsMove({t.primary, t.secondary})
    BY <1>1, <2>1, <2>2, <2>3, <2>4, TabOpens
  <2> QED
    BY <2>3, <2>5 DEF TabsMove, Held
<1>6. CASE openSplit
  <2> DEFINE t == [cur EXCEPT !.secondary = cur.primary]
  <2>1. tabs' = [tabs EXCEPT ![currentIndex] = t] /\ UNCHANGED <<currentIndex, closedTabs>>
    BY <1>6 DEF openSplit
  <2>2. cur.activePane = 0
    BY <1>2, <1>3, <1>6 DEF openSplit, split, CurrentTab, SoundTab
  <2>3. /\ t \in Tabs /\ SoundTab(t) /\ t.id = cur.id
        /\ {t.primary, t.secondary} \subseteq {cur.primary, cur.secondary, Home, NoPlace}
    BY <1>2, <2>2 DEF Tabs, SoundTab
  <2> HIDE DEF t
  <2>4. TabsMove({t.primary, t.secondary})
    BY <1>1, <2>1, <2>3, TabChanges
  <2> QED
    BY <1>2, <2>3, <2>4 DEF TabsMove, Held
<1>7. CASE closeSplit
  <2> DEFINE t == [cur EXCEPT !.secondary = NoPlace, !.activePane = 0]
  <2>1. tabs' = [tabs EXCEPT ![currentIndex] = t] /\ UNCHANGED <<currentIndex, closedTabs>>
    BY <1>7 DEF closeSplit
  <2>2. /\ t \in Tabs /\ SoundTab(t) /\ t.id = cur.id
        /\ {t.primary, t.secondary} \subseteq {cur.primary, cur.secondary, Home, NoPlace}
    <3>1. t = [cur EXCEPT !.secondary = NoPlace, !.activePane = 0]
      OBVIOUS
    <3> HIDE DEF cur, t
    <3>2. t \in Tabs /\ t.id = cur.id /\ t.primary = cur.primary /\ t.secondary = NoPlace
          /\ t.activePane = 0
      BY <1>2, <1>3, <3>1, OnePaneLeft
    <3> QED
      BY <1>2, <3>2 DEF SoundTab
  <2> HIDE DEF t
  <2>3. TabsMove({t.primary, t.secondary})
    BY <1>1, <2>1, <2>2, TabChanges
  <2> QED
    BY <1>2, <2>2, <2>3 DEF TabsMove, Held
<1>8. CASE setActivePane
  <2> DEFINE t == [cur EXCEPT !.activePane = 1 - @]
  <2>1. tabs' = [tabs EXCEPT ![currentIndex] = t] /\ UNCHANGED <<currentIndex, closedTabs>>
    BY <1>8 DEF setActivePane
  <2>2. cur.secondary # NoPlace
    BY <1>8 DEF setActivePane, split, CurrentTab
  <2>3. /\ t \in Tabs /\ SoundTab(t) /\ t.id = cur.id
        /\ {t.primary, t.secondary} \subseteq {cur.primary, cur.secondary, Home, NoPlace}
    BY <1>2, <1>3, <2>2 DEF Tabs, SoundTab
  <2> HIDE DEF t
  <2>4. TabsMove({t.primary, t.secondary})
    BY <1>1, <2>1, <2>3, TabChanges
  <2> QED
    BY <1>2, <2>3, <2>4 DEF TabsMove, Held
<1>9. CASE swapPanes
  <2> DEFINE t == [cur EXCEPT !.primary = cur.secondary, !.secondary = cur.primary]
  <2>1. tabs' = [tabs EXCEPT ![currentIndex] = t] /\ UNCHANGED <<currentIndex, closedTabs>>
    BY <1>9 DEF swapPanes
  <2>2. /\ t \in Tabs /\ SoundTab(t) /\ t.id = cur.id
        /\ {t.primary, t.secondary} \subseteq {cur.primary, cur.secondary, Home, NoPlace}
    <3>1. cur.activePane = 1 \/ cur.activePane = 0
      BY <1>3
    <3>2. cur.secondary # NoPlace
      BY <1>9 DEF swapPanes, split, CurrentTab
    <3> HIDE DEF cur
    <3> QED
      BY <1>2, <1>3, <3>1, <3>2, PanesChange DEF SoundTab
  <2> HIDE DEF t
  <2>3. TabsMove({t.primary, t.secondary})
    BY <1>1, <2>1, <2>2, TabChanges
  <2> QED
    BY <1>2, <2>2, <2>3 DEF TabsMove, Held
<1>10. ASSUME NEW i \in DOMAIN tabs, setCurrentIndex(i)
       PROVE  TabsMove({Home, NoPlace})
  BY <1>1, <1>10 DEF setCurrentIndex, TabsMove, TabsOK, Sound, Held
<1>11. CASE GoHomeInstead
  <2> DEFINE t == [tabs[1] EXCEPT !.primary = Home, !.secondary = NoPlace, !.activePane = 0]
  <2>1. tabs' = [tabs EXCEPT ![1] = t] /\ UNCHANGED <<currentIndex, closedTabs>>
    BY <1>11 DEF GoHomeInstead
  <2>2. tabs[1] \in Tabs /\ 1 \in 1 .. Len(tabs)
    BY <1>1, ElementOfSeq
  <2>3. t \in Tabs /\ SoundTab(t) /\ t.id = tabs[1].id /\ t.primary = Home /\ t.secondary = NoPlace
    <3> DEFINE first == tabs[1]
    <3>1. /\ t = [first EXCEPT !.primary = Home, !.secondary = NoPlace, !.activePane = 0]
          /\ first \in Tabs /\ Home \in AnyPlace /\ NoPlace \in AnyPlace
      BY <1>3, <2>2
    <3> HIDE DEF t, first
    <3>2. t \in Tabs /\ t.id = first.id /\ t.primary = Home /\ t.secondary = NoPlace
          /\ t.activePane = 0
      BY <3>1 DEF Tabs
    <3> QED
      BY <3>2, TabAssumption DEF SoundTab, first
  <2> HIDE DEF t
  <2>4. TabsMove({t.primary, t.secondary})
    BY <2>1, <2>2, <2>3, TabChanges
  <2> QED
    BY <2>3, <2>4 DEF TabsMove
<1>12. ASSUME NEW i \in DOMAIN tabs, CloseOneOfSeveral(i)
       PROVE  TabsMove({Home, NoPlace})
  BY <1>12, TabCloses DEF TabsMove
<1> QED
  BY <1>4, <1>5, <1>6, <1>7, <1>8, <1>9, <1>10, <1>11, <1>12 DEF Arrange, closeTab

(* The current session goes to p.                                           *)
LEMMA TabNavigates ==
    ASSUME TabsOK, NEW p \in AnyPlace \ {NoPlace}, tabs' = Navigated(p),
           UNCHANGED <<currentIndex, closedTabs>>
    PROVE  TabsMove({p})
<1> DEFINE cur == tabs[currentIndex]
           t == IF cur.activePane = 1 THEN [cur EXCEPT !.secondary = p] ELSE [cur EXCEPT !.primary = p]
<1>1. tabs \in Seq(Tabs) /\ currentIndex \in 1 .. Len(tabs)
  BY DEF TabsOK, Sound
<1>2. cur \in Tabs /\ SoundTab(cur) /\ Has(tabs, cur.primary) /\ Has(tabs, cur.secondary)
  BY <1>1, ElementOfSeq DEF TabsOK, Sound, Has
<1>3. tabs' = [tabs EXCEPT ![currentIndex] = t]
  BY DEF Navigated
<1>4. /\ t \in Tabs /\ SoundTab(t) /\ t.id = cur.id
      /\ {t.primary, t.secondary} \subseteq {cur.primary, cur.secondary, p}
  BY <1>2 DEF Tabs, SoundTab
<1> HIDE DEF t
<1>5. TabsMove({t.primary, t.secondary})
  BY <1>1, <1>3, <1>4, TabChanges
<1> QED
  BY <1>2, <1>4, <1>5 DEF TabsMove, Held

LEMMA ListRecovered ==
    ASSUME NEW s \in Seq(Tabs), \A i \in 1 .. Len(s) : SoundTab(s[i]),
           NEW inside, NEW fallback \in AnyPlace \ ({NoPlace} \cup inside)
    PROVE  LET r == Recovered(s, inside, fallback)
           IN  /\ r \in Seq(Tabs) /\ Len(r) = Len(s)
               /\ \A i \in 1 .. Len(s) : r[i].id = s[i].id /\ SoundTab(r[i])
               /\ \A p : Has(r, p) => p \notin inside /\ (Has(s, p) \/ p = fallback)
<1> DEFINE t(i) == [s[i] EXCEPT !.primary = IF @ \in inside THEN fallback ELSE @,
                                !.secondary = IF @ \in inside THEN fallback ELSE @]
           r == [i \in 1 .. Len(s) |-> t(i)]
<1>1. Len(s) \in Nat /\ DOMAIN s = 1 .. Len(s) /\ \A i \in 1 .. Len(s) : s[i] \in Tabs
  OBVIOUS
<1>2. \A i \in 1 .. Len(s) :
        /\ t(i) \in Tabs /\ t(i).id = s[i].id /\ SoundTab(t(i))
        /\ t(i).primary = IF s[i].primary \in inside THEN fallback ELSE s[i].primary
        /\ t(i).secondary = IF s[i].secondary \in inside THEN fallback ELSE s[i].secondary
  BY <1>1 DEF Tabs, SoundTab
<1>3. Recovered(s, inside, fallback) = r
  BY <1>1 DEF Recovered
<1> HIDE DEF t
<1>4. r \in Seq(Tabs) /\ Len(r) = Len(s) /\ \A i \in 1 .. Len(s) : r[i] = t(i)
  BY <1>1, <1>2, IsASeq
<1> HIDE DEF r
<1>5. \A p : Has(r, p) => p \notin inside /\ (Has(s, p) \/ p = fallback)
  BY <1>2, <1>4 DEF Has
<1> QED
  BY <1>2, <1>3, <1>4, <1>5

LEMMA TabsRecovered ==
    ASSUME TabsOK, NEW inside, NEW fallback \in AnyPlace \ ({NoPlace} \cup inside),
           recoverUnmounted(inside, fallback)
    PROVE  TabsMove({fallback}) /\ \A p \in inside : ~Held(p)'
<1>1. /\ tabs \in Seq(Tabs) /\ \A i \in 1 .. Len(tabs) : SoundTab(tabs[i])
      /\ closedTabs \in Seq(Tabs) /\ \A i \in 1 .. Len(closedTabs) : SoundTab(closedTabs[i])
  BY DEF TabsOK, Sound
<1>2. /\ tabs' = Recovered(tabs, inside, fallback) /\ closedTabs' = Recovered(closedTabs, inside, fallback)
      /\ currentIndex' = currentIndex
  BY DEF recoverUnmounted
<1>3. /\ tabs' \in Seq(Tabs) /\ Len(tabs') = Len(tabs)
      /\ \A i \in 1 .. Len(tabs) : tabs'[i].id = tabs[i].id /\ SoundTab(tabs'[i])
      /\ \A p : Has(tabs', p) => p \notin inside /\ (Has(tabs, p) \/ p = fallback)
  BY <1>1, <1>2, ListRecovered
<1>4. /\ closedTabs' \in Seq(Tabs) /\ Len(closedTabs') = Len(closedTabs)
      /\ \A i \in 1 .. Len(closedTabs) : SoundTab(closedTabs'[i])
      /\ \A p : Has(closedTabs', p) => p \notin inside /\ (Has(closedTabs, p) \/ p = fallback)
  BY <1>1, <1>2, ListRecovered
<1>5. TabsOK'
  BY <1>2, <1>3, <1>4 DEF TabsOK, Sound
<1>6. ~(Len(tabs') < Len(tabs))
  BY <1>1, <1>3
<1> QED
  BY <1>3, <1>4, <1>5, <1>6 DEF TabsMove, Held

-----------------------------------------------------------------------------
Asked    == {"Mount", "Unmount", "PowerOff"}
Mounting == {"Mount", "Unmount"}

Works    == [number : Nat, kind : Asked, object : Volumes, drives : SUBSET Drives,
             result : {"none", "ok", "error"}]
Systems  == {s \in [present : SUBSET (Blocks \cup Drives), mounted : SUBSET Volumes] :
                s.mounted \subseteq s.present}
Failed   == [ListCall EXCEPT !.result = "error"]
Notices  == [kind : {"changed", "registered", "unregistered"}]
Listings == [kind : {"List"}, result : {"ok"}, objects : Systems]
Messages == Works \cup Listings \cup Notices \cup {Failed}

OthersOK == unheard \subseteq Volumes /\ events \in Nat

(* A list is pending only behind one that loads.                            *)
DriveTypeOK ==
    /\ {objects, kernel, exported} \subseteq Systems
    /\ {loading, refreshPending, serviceUp} \subseteq BOOLEAN
    /\ refreshPending => loading
    /\ busyObjects \subseteq Volumes /\ busyDrives \subseteq Drives
    /\ calls \subseteq Works \cup {ListCall} /\ IsFiniteSet(calls)
    /\ inbox \in Seq(Messages)
    /\ OthersOK

Arrived == 1 .. Len(inbox)

IsEnd(m)    == m.kind = "unregistered"
Lists(m)    == m.kind = "List" /\ m.result = "ok"
Refreshes(m) == m.kind \in {"changed", "registered"} \cup Asked

(* Two calls, or a call and an answer, that one mark would stand for.       *)
Clash(c, d) ==
    \/ c.kind \in Mounting /\ d.kind \in Mounting /\ c.object = d.object
    \/ c.kind = "PowerOff" /\ d.kind = "PowerOff" /\ c.drives \cap d.drives # {}

(* What the program marks busy for a call.                                  *)
Marked(c) ==
    /\ c.kind \in Mounting => c.object \in busyObjects
    /\ c.kind = "PowerOff" => c.drives \subseteq busyDrives

(* No two of the calls, and of the answers still to be read, clash.         *)
NothingClashes ==
    /\ \A c, d \in calls : c # d => ~Clash(c, d)
    /\ \A c \in calls, i \in Arrived : ~Clash(c, inbox[i])
    /\ \A i, j \in Arrived : i # j => ~Clash(inbox[i], inbox[j])

(* A call is marked until its answer is read.                               *)
MarksStand ==
    /\ \A c \in calls : Marked(c)
    /\ \A i \in Arrived : Marked(inbox[i])

(* A drive is powered off with no call for a volume on it.                  *)
PowerOffsAreAlone ==
    \A p, m \in calls : p.kind = "PowerOff" /\ m.kind \in Mounting => Drive[m.object] \notin p.drives

(* Nothing is missing in what the program knows, but for what has gone.     *)
NothingIsNew ==
    /\ kernel.present \subseteq exported.present
    /\ objects = None \/ kernel.present \subseteq objects.present
    /\ \A i \in Arrived : Lists(inbox[i]) => kernel.present \subseteq inbox[i].objects.present

(* A list that is not what UDisks has will be followed by another.          *)
ListIsOnItsWay ==
    /\ loading => ListCall \in calls \/ \E i \in Arrived : inbox[i].kind = "List"
    /\ serviceUp =>
         /\ objects = exported \/ loading \/ \E i \in Arrived : Refreshes(inbox[i])
         /\ \A i \in Arrived :
              \/ ~IsEnd(inbox[i]) /\ inbox[i].kind # "List"
              \/ Lists(inbox[i]) /\ inbox[i].objects = exported
              \/ \E j \in i + 1 .. Len(inbox) : Refreshes(inbox[j])

DriveRest == DriveTypeOK /\ NothingIsNew /\ ListIsOnItsWay

CallsAreApart == NothingClashes /\ MarksStand /\ PowerOffsAreAlone

(* The end of UDisks takes all marks: with a call under way that is read.   *)
DriveInv == DriveRest /\ unmarked \in BOOLEAN /\ (unmarked \/ CallsAreApart)

(* What a step leaves of that.                                              *)
DriveMoves == DriveRest' /\ (onServiceUnregistered \/ (CallsAreApart => CallsAreApart'))

-----------------------------------------------------------------------------
(* The messages that are left after one was read.                           *)
LEMMA InboxRead ==
    ASSUME DriveTypeOK, inbox # <<>>, inbox' = Tail(inbox)
    PROVE  /\ Len(inbox) \in Nat /\ Len(inbox) >= 1
           /\ Next1 = inbox[1] /\ inbox[1] \in Messages
           /\ inbox' \in Seq(Messages) /\ Len(inbox') = Len(inbox) - 1
           /\ \A i \in 1 .. Len(inbox') : i + 1 \in 2 .. Len(inbox) /\ inbox'[i] = inbox[i + 1]
           /\ \A j \in 2 .. Len(inbox) : j - 1 \in 1 .. Len(inbox') /\ inbox'[j - 1] = inbox[j]
<1>1. inbox \in Seq(Messages)
  BY DEF DriveTypeOK
<1>2. Len(inbox) \in Nat /\ Len(inbox) >= 1
  BY <1>1, EmptySeq
<1>3. /\ Head(inbox) = inbox[1] /\ inbox[1] \in Messages
      /\ Tail(inbox) \in Seq(Messages) /\ Len(Tail(inbox)) = Len(inbox) - 1
      /\ \A i \in 1 .. Len(inbox) - 1 : Tail(inbox)[i] = inbox[i + 1]
  BY <1>1, <1>2, HeadTailProperties, ElementOfSeq
<1>4. \A i \in 1 .. Len(inbox') : i + 1 \in 2 .. Len(inbox) /\ inbox'[i] = inbox[i + 1]
  BY <1>2, <1>3
<1>5. \A j \in 2 .. Len(inbox) : j - 1 \in 1 .. Len(inbox') /\ inbox'[j - 1] = inbox[j]
  <2> TAKE j \in 2 .. Len(inbox)
  <2>1. j - 1 \in 1 .. Len(inbox') /\ (j - 1) + 1 = j
    BY <1>2, <1>3
  <2> QED
    BY <1>4, <2>1
<1> QED
  BY <1>2, <1>3, <1>4, <1>5 DEF Next1

(* The messages after one more came.                                        *)
LEMMA InboxGrows ==
    ASSUME DriveTypeOK, NEW m \in Messages, inbox' = Append(inbox, m)
    PROVE  /\ Len(inbox) \in Nat
           /\ inbox' \in Seq(Messages) /\ Len(inbox') = Len(inbox) + 1
           /\ \A i \in 1 .. Len(inbox) : inbox'[i] = inbox[i]
           /\ inbox'[Len(inbox) + 1] = m
<1>1. inbox \in Seq(Messages) /\ Len(inbox) \in Nat
  BY DEF DriveTypeOK
<1> QED
  BY <1>1, AppendProperties

LEMMA MessageKinds ==
    /\ \A w \in Works : w.kind \in Asked /\ w.object \in Volumes /\ w.drives \subseteq Drives
    /\ ListCall.kind = "List" /\ ListCall.result = "none"
    /\ \A m \in Messages : /\ m.kind \in Asked => m \in Works
                           /\ Lists(m) => m.objects \in Systems
                           /\ IsEnd(m) => m.kind \notin Asked /\ ~Lists(m) /\ ~Refreshes(m)
<1>1. /\ \A w \in Works : w.kind \in Asked /\ w.object \in Volumes /\ w.drives \subseteq Drives
      /\ ListCall.kind = "List" /\ ListCall.result = "none"
  BY DEF Works, ListCall, Call
<1>2. /\ Failed.kind = "List" /\ Failed.result = "error"
  BY DEF Failed, ListCall, Call
<1>3. \A m \in Listings : m.kind = "List" /\ m.objects \in Systems
  BY DEF Listings
<1>4. \A m \in Notices : m.kind \in {"changed", "registered", "unregistered"}
  BY DEF Notices
<1> QED
  BY <1>1, <1>2, <1>3, <1>4 DEF Messages, Asked, Lists, IsEnd, Refreshes

LEMMA ClashIsMutual ==
    /\ \A c, d : Clash(c, d) <=> Clash(d, c)
    /\ \A c, d : Clash(c, d) => c.kind \in Asked /\ d.kind \in Asked
BY DEF Clash, Asked, Mounting

(* What the program is told of is not what it waits for.                    *)
LEMMA ClashesAreRead ==
    ASSUME DriveTypeOK, NothingClashes, inbox # <<>>, inbox' = Tail(inbox),
           calls' \subseteq calls \cup {ListCall}
    PROVE  NothingClashes'
<1>1. \A c \in calls' : c \in calls \/ \A d : ~Clash(c, d) /\ ~Clash(d, c)
  BY ClashIsMutual, MessageKinds DEF Asked
<1>2. \A i \in 1 .. Len(inbox') : i + 1 \in 1 .. Len(inbox) /\ inbox'[i] = inbox[i + 1]
  BY InboxRead
<1>3. \A c, d \in calls' : c # d => ~Clash(c, d)
  BY <1>1 DEF NothingClashes
<1>4. \A c \in calls', i \in 1 .. Len(inbox') : ~Clash(c, inbox'[i])
  BY <1>1, <1>2 DEF NothingClashes, Arrived
<1>5. \A i, j \in 1 .. Len(inbox') : i # j => ~Clash(inbox'[i], inbox'[j])
  <2> SUFFICES ASSUME NEW i \in 1 .. Len(inbox'), NEW j \in 1 .. Len(inbox'), i # j
               PROVE  ~Clash(inbox'[i], inbox'[j])
    OBVIOUS
  <2>1. i + 1 # j + 1
    OBVIOUS
  <2> QED
    BY <1>2, <2>1 DEF NothingClashes, Arrived
<1> QED
  BY <1>3, <1>4, <1>5 DEF NothingClashes, Arrived

(* A message after which the list is read again, loaded or being loaded.    *)
LEMMA ListStaysOnItsWay ==
    ASSUME DriveTypeOK, ListIsOnItsWay, inbox # <<>>, inbox' = Tail(inbox),
           inbox[1].kind # "List", loading' => loading \/ ListCall \in calls', calls \subseteq calls',
           UNCHANGED <<exported, serviceUp>>,
           objects' = exported' \/ loading' \/ IsEnd(inbox[1])
    PROVE  ListIsOnItsWay'
<1>1. /\ Len(inbox) \in Nat /\ Len(inbox') = Len(inbox) - 1 /\ Len(inbox) >= 1
      /\ \A i \in 1 .. Len(inbox') : i + 1 \in 2 .. Len(inbox) /\ inbox'[i] = inbox[i + 1]
      /\ \A j \in 2 .. Len(inbox) : j - 1 \in 1 .. Len(inbox') /\ inbox'[j - 1] = inbox[j]
  BY InboxRead
<1>2. loading' => ListCall \in calls' \/ \E i \in 1 .. Len(inbox') : inbox'[i].kind = "List"
  <2> SUFFICES ASSUME loading', ListCall \notin calls'
               PROVE  \E i \in 1 .. Len(inbox') : inbox'[i].kind = "List"
    OBVIOUS
  <2>1. PICK j \in 1 .. Len(inbox) : inbox[j].kind = "List"
    BY DEF ListIsOnItsWay, Arrived
  <2>2. j \in 2 .. Len(inbox)
    BY <1>1, <2>1
  <2> QED
    BY <1>1, <2>1, <2>2
<1>3. \A i \in 1 .. Len(inbox) : \A j \in i + 1 .. Len(inbox) :
        Refreshes(inbox[j]) => j - 1 \in i .. Len(inbox') /\ Refreshes(inbox'[j - 1])
  <2> TAKE i \in 1 .. Len(inbox)
  <2> TAKE j \in i + 1 .. Len(inbox)
  <2>1. j \in 2 .. Len(inbox) /\ j - 1 \in i .. Len(inbox')
    BY <1>1
  <2> QED
    BY <1>1, <2>1
<1>4. ASSUME serviceUp'
      PROVE  objects' = exported' \/ loading' \/ \E i \in 1 .. Len(inbox') : Refreshes(inbox'[i])
  <2> SUFFICES ASSUME IsEnd(inbox[1])
               PROVE  \E i \in 1 .. Len(inbox') : Refreshes(inbox'[i])
    OBVIOUS
  <2>1. 1 \in 1 .. Len(inbox) /\ ~Lists(inbox[1])
    BY <1>1 DEF Lists
  <2>2. PICK j \in 1 + 1 .. Len(inbox) : Refreshes(inbox[j])
    BY <1>4, <2>1 DEF ListIsOnItsWay, Arrived
  <2> QED
    BY <1>3, <2>1, <2>2
<1>5. ASSUME serviceUp', NEW i \in 1 .. Len(inbox')
      PROVE  \/ ~IsEnd(inbox'[i]) /\ inbox'[i].kind # "List"
             \/ Lists(inbox'[i]) /\ inbox'[i].objects = exported'
             \/ \E j \in i + 1 .. Len(inbox') : Refreshes(inbox'[j])
  <2>1. i + 1 \in 1 .. Len(inbox) /\ inbox'[i] = inbox[i + 1]
    BY <1>1
  <2>2. \/ ~IsEnd(inbox[i + 1]) /\ inbox[i + 1].kind # "List"
        \/ Lists(inbox[i + 1]) /\ inbox[i + 1].objects = exported
        \/ \E j \in (i + 1) + 1 .. Len(inbox) : Refreshes(inbox[j])
    BY <1>5, <2>1 DEF ListIsOnItsWay, Arrived
  <2> QED
    BY <1>3, <2>1, <2>2
<1> QED
  BY <1>2, <1>4, <1>5 DEF ListIsOnItsWay, Arrived

LEMMA NothingNewIsRead ==
    ASSUME DriveTypeOK, NothingIsNew, inbox # <<>>, inbox' = Tail(inbox),
           UNCHANGED <<kernel, exported>>,
           objects' = objects \/ objects' = None \/ (Lists(inbox[1]) /\ objects' = inbox[1].objects)
    PROVE  NothingIsNew'
<1>1. /\ Len(inbox) \in Nat /\ Len(inbox) >= 1
      /\ \A i \in 1 .. Len(inbox') : i + 1 \in 2 .. Len(inbox) /\ inbox'[i] = inbox[i + 1]
  BY InboxRead
<1>2. \A i \in 1 .. Len(inbox) : Lists(inbox[i]) => kernel.present \subseteq inbox[i].objects.present
  BY DEF NothingIsNew, Arrived
<1>3. \A i \in 1 .. Len(inbox') : Lists(inbox'[i]) => kernel.present \subseteq inbox'[i].objects.present
  BY <1>1, <1>2
<1>4. objects' = None \/ kernel.present \subseteq objects'.present
  BY <1>1, <1>2 DEF NothingIsNew
<1> QED
  BY <1>3, <1>4 DEF NothingIsNew, Arrived

LEMMA AloneWithListCall ==
    ASSUME PowerOffsAreAlone, calls' \subseteq calls \cup {ListCall}
    PROVE  PowerOffsAreAlone'
BY MessageKinds DEF PowerOffsAreAlone, Mounting

(* A refresh of the list, and what it leaves.                               *)
LEMMA RefreshCalls ==
    ASSUME refresh, DriveTypeOK
    PROVE  /\ loading' = TRUE /\ refreshPending' \in BOOLEAN
           /\ calls' \subseteq calls \cup {ListCall} /\ calls \subseteq calls'
           /\ IsFiniteSet(calls') /\ (loading \/ ListCall \in calls')
<1>1. IsFiniteSet(calls \cup {ListCall})
  BY FS_AddElement DEF DriveTypeOK
<1> QED
  BY <1>1 DEF refresh, DriveTypeOK

(* Changed, onServiceRegistered and Replied.                                *)
LEMMA RefreshedByMessage ==
    ASSUME DriveRest, inbox # <<>>, inbox' = Tail(inbox), refresh, Refreshes(inbox[1]),
           UNCHANGED <<objects, kernel, exported, serviceUp>>,
           busyObjects' \subseteq busyObjects, busyDrives' \subseteq busyDrives,
           OthersOK',
           \A c : Marked(c) /\ ~Clash(c, inbox[1]) => Marked(c)'
    PROVE  DriveMoves
<1>1. DriveTypeOK /\ NothingIsNew /\ ListIsOnItsWay
  BY DEF DriveRest
<1>2. /\ loading' = TRUE /\ refreshPending' \in BOOLEAN
      /\ calls' \subseteq calls \cup {ListCall} /\ calls \subseteq calls'
      /\ IsFiniteSet(calls') /\ (loading \/ ListCall \in calls')
  BY <1>1, RefreshCalls
<1>3. /\ Len(inbox) \in Nat /\ Len(inbox) >= 1 /\ inbox' \in Seq(Messages)
      /\ \A i \in 1 .. Len(inbox') : i + 1 \in 2 .. Len(inbox) /\ inbox'[i] = inbox[i + 1]
  BY <1>1, InboxRead
<1>4. ~IsEnd(inbox[1]) /\ inbox[1].kind # "List"
  BY DEF Refreshes, IsEnd, Asked
<1>5. DriveTypeOK'
  BY <1>1, <1>2, <1>3 DEF DriveTypeOK
<1>6. /\ NothingClashes => NothingClashes'
      /\ PowerOffsAreAlone => PowerOffsAreAlone'
  BY <1>1, <1>2, ClashesAreRead, AloneWithListCall
<1>7. NothingClashes /\ MarksStand => MarksStand'
  <2> HAVE NothingClashes /\ MarksStand
  <2>1. \A c \in calls' : Marked(c)'
    <3> SUFFICES ASSUME NEW c \in calls' PROVE Marked(c)'
      OBVIOUS
    <3>1. CASE c \in calls
      <4>1. Marked(c) /\ ~Clash(c, inbox[1])
        BY <1>3, <3>1 DEF MarksStand, NothingClashes, Arrived
      <4> QED
        BY <4>1
    <3>2. CASE c = ListCall
      BY <3>2, MessageKinds DEF Marked, Mounting
    <3> QED
      BY <1>2, <3>1, <3>2
  <2>2. ASSUME NEW i \in 1 .. Len(inbox') PROVE Marked(inbox[i])'
    <3>1. i + 1 \in 1 .. Len(inbox) /\ inbox'[i] = inbox[i + 1] /\ 1 \in 1 .. Len(inbox) /\ i + 1 # 1
      BY <1>3
    <3>2. ~Clash(inbox[i + 1], inbox[1]) /\ Marked(inbox[i + 1])
      BY <3>1 DEF NothingClashes, MarksStand, Arrived
    <3> QED
      BY <3>1, <3>2 DEF Marked
  <2> QED
    BY <2>1, <2>2 DEF MarksStand, Arrived
<1>8. ListIsOnItsWay'
  BY <1>1, <1>2, <1>4, ListStaysOnItsWay
<1>9. NothingIsNew'
  <2>1. objects' = objects /\ UNCHANGED <<kernel, exported>>
    OBVIOUS
  <2> QED
    BY <1>1, <2>1, NothingNewIsRead
<1> QED
  BY <1>5, <1>6, <1>7, <1>8, <1>9 DEF DriveMoves, DriveRest, CallsAreApart

LEMMA ChangeIsRead ==
    ASSUME DriveRest, Changed \/ onServiceRegistered, OthersOK'
    PROVE  DriveMoves
<1>1. inbox # <<>> /\ inbox' = Tail(inbox) /\ refresh
      /\ Next1.kind \in {"changed", "registered"}
  BY DEF Changed, onServiceRegistered
<1>2. UNCHANGED <<objects, busyObjects, busyDrives, kernel, exported, serviceUp>>
  BY DEF Changed, onServiceRegistered, udisksVars
<1>3. Refreshes(inbox[1])
  BY <1>1, InboxRead DEF DriveRest, Refreshes
<1>4. \A c : Marked(c) => Marked(c)'
  BY <1>2 DEF Marked
<1> QED
  BY <1>1, <1>2, <1>3, <1>4, RefreshedByMessage

LEMMA AnswerIsRead ==
    ASSUME DriveRest, Replied, OthersOK'
    PROVE  DriveMoves
<1>1. inbox # <<>> /\ inbox' = Tail(inbox) /\ refresh /\ Next1.kind \in Asked
  BY DEF Replied, Asked
<1>2. UNCHANGED <<objects, kernel, exported, serviceUp>>
  BY DEF Replied, udisksVars
<1>3. Refreshes(inbox[1]) /\ Next1 = inbox[1]
  BY <1>1, InboxRead DEF DriveRest, Refreshes
<1>4. busyObjects' \subseteq busyObjects /\ busyDrives' \subseteq busyDrives
  BY DEF Replied
<1>5. ASSUME NEW c, Marked(c), ~Clash(c, inbox[1])
      PROVE  Marked(c)'
  <2>1. CASE Next1.kind = "PowerOff"
    <3>1. busyDrives' = busyDrives \ inbox[1].drives /\ busyObjects' = busyObjects
      BY <1>3, <2>1 DEF Replied
    <3> QED
      BY <1>3, <1>5, <2>1, <3>1 DEF Marked, Clash
  <2>2. CASE Next1.kind # "PowerOff"
    <3>1. busyObjects' = busyObjects \ {inbox[1].object} /\ busyDrives' = busyDrives
      BY <1>3, <2>2 DEF Replied
    <3>2. inbox[1].kind \in Mounting
      BY <1>1, <1>3, <2>2 DEF Asked, Mounting
    <3> QED
      BY <1>5, <3>1, <3>2 DEF Marked, Clash
  <2> QED
    BY <2>1, <2>2
<1> QED
  BY <1>1, <1>2, <1>3, <1>4, <1>5, RefreshedByMessage

LEMMA EndIsTaken ==
    ASSUME DriveRest, onServiceUnregistered, OthersOK'
    PROVE  DriveMoves
<1>1. DriveTypeOK /\ NothingIsNew /\ ListIsOnItsWay
  BY DEF DriveRest
<1>2. /\ inbox # <<>> /\ inbox' = Tail(inbox) /\ objects' = None /\ refreshPending' = FALSE
      /\ busyObjects' = {} /\ busyDrives' = {}
      /\ UNCHANGED <<loading, calls, kernel, exported, serviceUp>>
  BY DEF onServiceUnregistered, udisksVars
<1>3. /\ Len(inbox) \in Nat /\ Len(inbox) >= 1 /\ inbox' \in Seq(Messages)
      /\ Len(inbox') = Len(inbox) - 1 /\ IsEnd(inbox[1])
      /\ \A i \in 1 .. Len(inbox') : i + 1 \in 2 .. Len(inbox) /\ inbox'[i] = inbox[i + 1]
  BY <1>1, <1>2, InboxRead DEF onServiceUnregistered, IsEnd
<1>4. inbox[1].kind # "List"
  BY <1>3 DEF IsEnd
<1>5. DriveTypeOK'
  <2>1. None \in Systems
    BY DEF None, Systems
  <2> QED
    BY <1>1, <1>2, <1>3, <2>1 DEF DriveTypeOK
<1>6. calls' \subseteq calls \cup {ListCall} /\ calls \subseteq calls'
  BY <1>2
<1>7. ListIsOnItsWay'
  BY <1>1, <1>2, <1>3, <1>4, <1>6, ListStaysOnItsWay
<1>8. NothingIsNew'
  BY <1>1, <1>2, NothingNewIsRead
<1> QED
  BY <1>5, <1>7, <1>8 DEF DriveMoves, DriveRest

LEMMA ListIsRead ==
    ASSUME DriveRest, Listed, OthersOK'
    PROVE  DriveMoves
<1>1. DriveTypeOK /\ NothingIsNew /\ ListIsOnItsWay
  BY DEF DriveRest
<1>2. /\ inbox # <<>> /\ inbox' = Tail(inbox) /\ refreshPending' = FALSE
      /\ loading' = refreshPending
      /\ calls' = (IF refreshPending THEN calls \cup {ListCall} ELSE calls)
      /\ UNCHANGED <<busyObjects, busyDrives, kernel, exported, serviceUp>>
  BY DEF Listed, udisksVars
<1>3. /\ Len(inbox) \in Nat /\ Len(inbox) >= 1 /\ inbox' \in Seq(Messages)
      /\ Len(inbox') = Len(inbox) - 1 /\ inbox[1].kind = "List" /\ inbox[1] \in Messages
      /\ Next1 = inbox[1]
      /\ \A i \in 1 .. Len(inbox') : i + 1 \in 2 .. Len(inbox) /\ inbox'[i] = inbox[i + 1]
      /\ \A j \in 2 .. Len(inbox) : j - 1 \in 1 .. Len(inbox') /\ inbox'[j - 1] = inbox[j]
  BY <1>1, <1>2, InboxRead DEF Listed
<1>4. ~IsEnd(inbox[1])
  BY <1>3 DEF IsEnd
<1>5. /\ (Lists(inbox[1]) /\ objects' = inbox[1].objects) \/ (~Lists(inbox[1]) /\ objects' = None)
      /\ objects' \in Systems
  <2>1. None \in Systems
    BY DEF None, Systems
  <2> QED
    BY <1>3, <2>1, MessageKinds DEF Listed, Lists
<1>6. /\ calls' \subseteq calls \cup {ListCall} /\ calls \subseteq calls' /\ IsFiniteSet(calls')
      /\ loading' => ListCall \in calls'
  <2>1. IsFiniteSet(calls \cup {ListCall})
    BY <1>1, FS_AddElement DEF DriveTypeOK
  <2> QED
    BY <1>1, <1>2, <2>1 DEF DriveTypeOK
<1>7. DriveTypeOK'
  BY <1>1, <1>2, <1>3, <1>5, <1>6 DEF DriveTypeOK
<1>8. /\ NothingClashes => NothingClashes'
      /\ PowerOffsAreAlone => PowerOffsAreAlone'
  BY <1>1, <1>2, <1>6, ClashesAreRead, AloneWithListCall
<1>9. MarksStand => MarksStand'
  <2> HAVE MarksStand
  <2>1. \A c \in calls' : Marked(c)'
    BY <1>2, <1>6, MessageKinds DEF MarksStand, Marked, Mounting
  <2>2. ASSUME NEW i \in 1 .. Len(inbox') PROVE Marked(inbox[i])'
    <3>1. i + 1 \in 1 .. Len(inbox) /\ inbox'[i] = inbox[i + 1]
      BY <1>3
    <3>2. Marked(inbox[i + 1])
      BY <3>1 DEF MarksStand, Arrived
    <3> QED
      BY <1>2, <3>1, <3>2 DEF Marked
  <2> QED
    BY <2>1, <2>2 DEF MarksStand, Arrived
<1>10. NothingIsNew'
  BY <1>1, <1>2, <1>5, NothingNewIsRead
<1>11. ListIsOnItsWay'
  <2>1. \A i \in 1 .. Len(inbox) : \A j \in i + 1 .. Len(inbox) :
          Refreshes(inbox[j]) => j - 1 \in i .. Len(inbox') /\ Refreshes(inbox'[j - 1])
    <3> TAKE i \in 1 .. Len(inbox)
    <3> TAKE j \in i + 1 .. Len(inbox)
    <3>1. j \in 2 .. Len(inbox) /\ j - 1 \in i .. Len(inbox')
      BY <1>3
    <3> QED
      BY <1>3, <3>1
  <2>2. ASSUME serviceUp', ~(objects' = exported')
        PROVE  \E i \in 1 .. Len(inbox') : Refreshes(inbox'[i])
    <3>1. 1 \in 1 .. Len(inbox) /\ ~(Lists(inbox[1]) /\ inbox[1].objects = exported)
      BY <1>2, <1>3, <1>5, <2>2
    <3>2. PICK j \in 1 + 1 .. Len(inbox) : Refreshes(inbox[j])
      BY <1>1, <1>2, <1>3, <2>2, <3>1 DEF ListIsOnItsWay, Arrived
    <3> QED
      BY <2>1, <3>1, <3>2
  <2>3. ASSUME serviceUp', NEW i \in 1 .. Len(inbox')
        PROVE  \/ ~IsEnd(inbox'[i]) /\ inbox'[i].kind # "List"
               \/ Lists(inbox'[i]) /\ inbox'[i].objects = exported'
               \/ \E j \in i + 1 .. Len(inbox') : Refreshes(inbox'[j])
    <3>1. i + 1 \in 1 .. Len(inbox) /\ inbox'[i] = inbox[i + 1]
      BY <1>3
    <3>2. \/ ~IsEnd(inbox[i + 1]) /\ inbox[i + 1].kind # "List"
          \/ Lists(inbox[i + 1]) /\ inbox[i + 1].objects = exported
          \/ \E j \in (i + 1) + 1 .. Len(inbox) : Refreshes(inbox[j])
      BY <1>1, <1>2, <2>3, <3>1 DEF ListIsOnItsWay, Arrived
    <3> QED
      BY <1>2, <2>1, <3>1, <3>2
  <2> QED
    BY <1>6, <2>2, <2>3 DEF ListIsOnItsWay, Arrived
<1> QED
  BY <1>7, <1>8, <1>9, <1>10, <1>11 DEF DriveMoves, DriveRest, CallsAreApart

-----------------------------------------------------------------------------
(* What the program asks for.                                               *)
LEMMA CallIsMade ==
    ASSUME DriveRest, NEW new \in Works, calls' = calls \cup {new}, Marked(new)',
           \A m : Marked(m) => ~Clash(new, m) /\ Marked(m)',
           \A c : Marked(c) => /\ new.kind = "PowerOff" => c.kind \notin Mounting
                               /\ c.kind = "PowerOff" /\ new.kind \in Mounting
                                    => Drive[new.object] \notin c.drives,
           busyObjects' \subseteq Volumes, busyDrives' \subseteq Drives, OthersOK',
           UNCHANGED <<objects, loading, refreshPending, inbox, kernel, exported, serviceUp>>
    PROVE  DriveMoves
<1>1. DriveTypeOK /\ NothingIsNew /\ ListIsOnItsWay
  BY DEF DriveRest
<1>2. DriveTypeOK'
  <2>1. IsFiniteSet(calls')
    BY <1>1, FS_AddElement DEF DriveTypeOK
  <2> QED
    BY <1>1, <2>1 DEF DriveTypeOK
<1>3. Arrived' = Arrived /\ inbox' = inbox
  BY DEF Arrived
<1>4. CallsAreApart => CallsAreApart'
  <2> HAVE CallsAreApart
  <2>1. NothingClashes /\ MarksStand /\ PowerOffsAreAlone
    BY DEF CallsAreApart
  <2>2. \A c \in calls : ~Clash(new, c) /\ ~Clash(c, new)
    BY <2>1, ClashIsMutual DEF MarksStand
  <2>3. \A i \in Arrived : ~Clash(new, inbox[i])
    BY <2>1 DEF MarksStand
  <2>4. NothingClashes'
    BY <1>3, <2>1, <2>2, <2>3 DEF NothingClashes
  <2>5. MarksStand'
    <3>1. \A c \in calls' : Marked(c)'
      BY <2>1 DEF MarksStand
    <3>2. \A i \in Arrived' : Marked(inbox[i])'
      <4> TAKE i \in Arrived'
      <4>1. Marked(inbox[i])
        BY <1>3, <2>1 DEF MarksStand
      <4> QED
        BY <1>3, <4>1 DEF Marked
    <3> QED
      BY <3>1, <3>2 DEF MarksStand
  <2>6. PowerOffsAreAlone'
    BY <2>1 DEF PowerOffsAreAlone, MarksStand, Mounting
  <2> QED
    BY <2>4, <2>5, <2>6 DEF CallsAreApart
<1>5. NothingIsNew' /\ ListIsOnItsWay'
  BY <1>1, <1>3 DEF NothingIsNew, ListIsOnItsWay
<1> QED
  BY <1>2, <1>4, <1>5 DEF DriveMoves, DriveRest

LEMMA MountIsAsked ==
    ASSUME DriveRest, NEW v \in Volumes, NEW kind \in Mounting, v \in Rows, ~Busy(v),
           SetBusyAndCall(v, kind), OthersOK'
    PROVE  DriveMoves
<1>1. PICK new : new = Call(events', kind, v, {})
  OBVIOUS
<1>2. /\ busyObjects' = busyObjects \cup {v} /\ calls' = calls \cup {new}
      /\ UNCHANGED <<objects, loading, refreshPending, busyDrives, inbox, kernel, exported, serviceUp>>
  BY <1>1 DEF SetBusyAndCall, udisksVars
<1>3. /\ new \in Works /\ new.kind = kind /\ new.object = v
      /\ kind \in Asked /\ kind # "PowerOff"
  BY <1>1 DEF Call, Works, Asked, Mounting, OthersOK
<1>4. v \notin busyObjects /\ Drive[v] \notin busyDrives
  BY DEF Busy
<1>5. Marked(new)'
  BY <1>2, <1>3 DEF Marked
<1>6. \A m : Marked(m) => ~Clash(new, m) /\ Marked(m)'
  BY <1>2, <1>3, <1>4 DEF Marked, Clash
<1>7. \A c : Marked(c) => /\ new.kind = "PowerOff" => c.kind \notin Mounting
                          /\ c.kind = "PowerOff" /\ new.kind \in Mounting
                               => Drive[new.object] \notin c.drives
  BY <1>3, <1>4 DEF Marked
<1>8. busyObjects' \subseteq Volumes /\ busyDrives' \subseteq Drives
  BY <1>2 DEF DriveRest, DriveTypeOK
<1> QED
  BY <1>2, <1>3, <1>5, <1>6, <1>7, <1>8, CallIsMade

LEMMA PowerOffIsAsked ==
    ASSUME DriveRest, NEW v \in Volumes, powerOff(v), OthersOK'
    PROVE  DriveMoves
<1>1. PICK drives : drives = AffectedDrives(objects, Drive[v])
  OBVIOUS
<1>2. drives \subseteq Drives
  BY <1>1 DEF AffectedDrives
<1>3. PICK new : new = Call(events', "PowerOff", v, drives)
  OBVIOUS
<1>4. /\ v \in Rows /\ busyObjects = {} /\ drives \cap busyDrives = {}
      /\ busyDrives' = busyDrives \cup drives /\ calls' = calls \cup {new}
      /\ UNCHANGED <<objects, loading, refreshPending, busyObjects, inbox, kernel, exported, serviceUp>>
  BY <1>1, <1>3 DEF powerOff, udisksVars
<1>5. new \in Works /\ new.kind = "PowerOff" /\ new.drives = drives
  BY <1>2, <1>3 DEF Call, Works, Asked, OthersOK
<1>6. Marked(new)'
  BY <1>4, <1>5 DEF Marked, Mounting
<1>7. \A m : Marked(m) => ~Clash(new, m) /\ Marked(m)'
  BY <1>4, <1>5 DEF Marked, Clash, Mounting
<1>8. \A c : Marked(c) => /\ new.kind = "PowerOff" => c.kind \notin Mounting
                          /\ c.kind = "PowerOff" /\ new.kind \in Mounting
                               => Drive[new.object] \notin c.drives
  BY <1>4, <1>5 DEF Marked, Mounting
<1>9. busyObjects' \subseteq Volumes /\ busyDrives' \subseteq Drives
  BY <1>2, <1>4 DEF DriveRest, DriveTypeOK
<1> QED
  BY <1>4, <1>5, <1>6, <1>7, <1>8, <1>9, CallIsMade

-----------------------------------------------------------------------------
(* What UDisks does.                                                        *)
LEMMA OutcomeIsASystem ==
    ASSUME kernel \in Systems, NEW c \in Works
    PROVE  /\ Outcome(c) \in Systems
           /\ Outcome(c).present \subseteq kernel.present
           /\ \A p \in kernel.mounted :
                p \in Outcome(c).mounted \/ (c.kind = "Unmount" /\ c.object = p)
<1>1. /\ kernel.present \subseteq Blocks \cup Drives /\ kernel.mounted \subseteq Volumes
      /\ kernel.mounted \subseteq kernel.present
      /\ kernel = [present |-> kernel.present, mounted |-> kernel.mounted]
  BY DEF Systems
<1>2. Volumes \cap Drives = {}
  BY DrivesAssumption DEF Blocks
<1>3. c.object \in Volumes /\ c.drives \subseteq Drives
  BY MessageKinds
<1>4. CASE Outcome(c) = WithMounted(c.object) /\ c.object \in kernel.present
  <2>1. Outcome(c) = [present |-> kernel.present, mounted |-> kernel.mounted \cup {c.object}]
    BY <1>1, <1>4 DEF WithMounted
  <2> QED
    BY <1>1, <1>3, <1>4, <2>1 DEF Systems
<1>5. CASE Outcome(c) = WithoutMounted(c.object) /\ c.kind = "Unmount"
  <2>1. Outcome(c) = [present |-> kernel.present, mounted |-> kernel.mounted \ {c.object}]
    BY <1>1, <1>5 DEF WithoutMounted
  <2> QED
    BY <1>1, <1>3, <1>5, <2>1 DEF Systems
<1>6. CASE Outcome(c) = WithoutDrives(c.drives) /\ \A w \in kernel.mounted : ~On(w, c.drives)
  <2> DEFINE gone == c.drives \cup {b \in Blocks : On(b, c.drives)}
  <2>1. Outcome(c) = [present |-> kernel.present \ gone, mounted |-> kernel.mounted \ gone]
    BY <1>6 DEF WithoutDrives
  <2>2. kernel.mounted \ gone = kernel.mounted
    BY <1>1, <1>2, <1>3, <1>6
  <2> HIDE DEF gone
  <2> QED
    BY <1>1, <2>1, <2>2 DEF Systems
<1>7. CASE Outcome(c) = kernel
  BY <1>7
<1> QED
  BY <1>4, <1>5, <1>6, <1>7 DEF Outcome

LEMMA WorkIsDone ==
    ASSUME DriveRest, NEW c \in calls, Perform(c), OthersOK'
    PROVE  /\ DriveMoves /\ c \in Works
           /\ \E result : calls' = (calls \ {c}) \cup {[c EXCEPT !.result = result]}
           /\ kernel' \in {kernel, Outcome(c)}
<1>1. DriveTypeOK /\ NothingIsNew /\ ListIsOnItsWay
  BY DEF DriveRest
<1>2. c \in Works /\ c.kind # "List"
  BY <1>1, MessageKinds DEF DriveTypeOK, Perform
<1>3. PICK result \in {"ok", "error"} : calls' = (calls \ {c}) \cup {[c EXCEPT !.result = result]}
  BY DEF Perform
<1>4. kernel' \in {kernel, Outcome(c)}
  BY DEF Perform
<1>5. UNCHANGED <<objects, loading, refreshPending, busyObjects, busyDrives, inbox, exported, serviceUp>>
  BY DEF Perform, modelVars
<1> DEFINE d == [c EXCEPT !.result = result]
<1>6. d \in Works /\ d.kind = c.kind /\ d.object = c.object /\ d.drives = c.drives
  BY <1>2 DEF Works
<1>7. calls' = (calls \ {c}) \cup {d}
  BY <1>3
<1> HIDE DEF d
<1>8. \A m : (Clash(d, m) <=> Clash(c, m)) /\ (Clash(m, d) <=> Clash(m, c))
  BY <1>6 DEF Clash
<1>9. kernel' \in Systems /\ kernel'.present \subseteq kernel.present
  BY <1>1, <1>2, <1>4, OutcomeIsASystem DEF DriveTypeOK
<1>10. DriveTypeOK'
  <2>1. IsFiniteSet(calls')
    BY <1>1, <1>7, FS_AddElement, FS_RemoveElement DEF DriveTypeOK
  <2> QED
    BY <1>1, <1>5, <1>6, <1>7, <1>9, <2>1 DEF DriveTypeOK
<1>11. Arrived' = Arrived /\ inbox' = inbox
  BY <1>5 DEF Arrived
<1>12. NothingClashes => NothingClashes'
  BY <1>7, <1>8, <1>11 DEF NothingClashes
<1>13. MarksStand => MarksStand'
  <2> HAVE MarksStand
  <2>1. \A m : Marked(m) => Marked(m)'
    BY <1>5 DEF Marked
  <2>2. Marked(d)
    BY <1>6 DEF MarksStand, Marked
  <2>3. \A m \in calls' : Marked(m)'
    BY <1>7, <2>1, <2>2 DEF MarksStand
  <2>4. \A i \in Arrived' : Marked(inbox[i])'
    BY <1>5, <1>11 DEF MarksStand, Marked
  <2> QED
    BY <2>3, <2>4 DEF MarksStand
<1>14. PowerOffsAreAlone => PowerOffsAreAlone'
  BY <1>6, <1>7 DEF PowerOffsAreAlone
<1>15. NothingIsNew'
  BY <1>1, <1>5, <1>9, <1>11 DEF NothingIsNew
<1>16. ListIsOnItsWay'
  BY <1>1, <1>2, <1>5, <1>7, <1>11, MessageKinds DEF ListIsOnItsWay
<1> QED
  BY <1>2, <1>3, <1>4, <1>10, <1>12, <1>13, <1>14, <1>15, <1>16
     DEF DriveMoves, DriveRest, CallsAreApart

(* A message that says the list has changed comes, and what it says of it.  *)
LEMMA NoticeComes ==
    ASSUME DriveRest, NEW m \in Notices, ~IsEnd(m), inbox' = Append(inbox, m),
           exported' = kernel, OthersOK', serviceUp' = TRUE,
           UNCHANGED <<objects, loading, refreshPending, busyObjects, busyDrives, calls, kernel>>
    PROVE  DriveMoves
<1>1. DriveTypeOK /\ NothingIsNew /\ ListIsOnItsWay
  BY DEF DriveRest
<1>2. m \in Messages
  BY DEF Messages
<1>3. /\ Len(inbox) \in Nat /\ inbox' \in Seq(Messages) /\ Len(inbox') = Len(inbox) + 1
      /\ \A i \in 1 .. Len(inbox) : inbox'[i] = inbox[i]
      /\ inbox'[Len(inbox) + 1] = m
  BY <1>1, <1>2, InboxGrows
<1>4. m.kind \in {"changed", "registered"} /\ m.kind \notin Asked /\ m.kind # "List" /\ Refreshes(m)
      /\ ~Lists(m)
  BY DEF Notices, IsEnd, Refreshes, Lists, Asked
<1>5. \A i \in 1 .. Len(inbox') : i \in 1 .. Len(inbox) \/ i = Len(inbox) + 1
  BY <1>3
<1>6. DriveTypeOK'
  BY <1>1, <1>3 DEF DriveTypeOK
<1>7. NothingClashes => NothingClashes'
  BY <1>3, <1>4, <1>5, ClashIsMutual DEF NothingClashes, Arrived
<1>8. MarksStand => MarksStand'
  <2> HAVE MarksStand
  <2>1. \A c \in calls' : Marked(c)'
    BY DEF MarksStand, Marked
  <2>2. ASSUME NEW i \in 1 .. Len(inbox') PROVE Marked(inbox[i])'
    <3>1. CASE i \in 1 .. Len(inbox)
      BY <1>3, <3>1 DEF MarksStand, Arrived, Marked
    <3>2. CASE i = Len(inbox) + 1
      BY <1>3, <1>4, <3>2 DEF Marked, Mounting, Asked
    <3> QED
      BY <1>5, <3>1, <3>2
  <2> QED
    BY <2>1, <2>2 DEF MarksStand, Arrived
<1>9. PowerOffsAreAlone => PowerOffsAreAlone'
  BY DEF PowerOffsAreAlone
<1>10. NothingIsNew'
  BY <1>1, <1>3, <1>4, <1>5 DEF NothingIsNew, Arrived
<1>11. ListIsOnItsWay'
  <2>1. Len(inbox) + 1 \in 1 .. Len(inbox')
        /\ \A i \in 1 .. Len(inbox) : Len(inbox) + 1 \in i + 1 .. Len(inbox')
    BY <1>3
  <2>2. loading => ListCall \in calls \/ \E i \in 1 .. Len(inbox') : inbox'[i].kind = "List"
    <3> SUFFICES ASSUME loading, ListCall \notin calls
                 PROVE  \E i \in 1 .. Len(inbox') : inbox'[i].kind = "List"
      OBVIOUS
    <3>1. PICK i \in 1 .. Len(inbox) : inbox[i].kind = "List"
      BY <1>1 DEF ListIsOnItsWay, Arrived
    <3> QED
      BY <1>3, <3>1
  <2>3. \A i \in 1 .. Len(inbox') :
          \/ ~IsEnd(inbox'[i]) /\ inbox'[i].kind # "List"
          \/ \E j \in i + 1 .. Len(inbox') : Refreshes(inbox'[j])
    BY <1>3, <1>4, <1>5, <2>1
  <2> QED
    BY <1>3, <1>4, <2>1, <2>2, <2>3 DEF ListIsOnItsWay, Arrived
<1> QED
  BY <1>6, <1>7, <1>8, <1>9, <1>10, <1>11 DEF DriveMoves, DriveRest, CallsAreApart

LEMMA StateIsExported ==
    ASSUME DriveRest, Export \/ ServiceStarts, OthersOK'
    PROVE  DriveMoves
<1>1. PICK m : /\ m = [kind |-> "changed"] \/ m = [kind |-> "registered"]
               /\ inbox' = Append(inbox, m)
  BY DEF Export, ServiceStarts
<1>2. m \in Notices /\ ~IsEnd(m)
  BY <1>1 DEF Notices, IsEnd
<1>3. exported' = kernel /\ serviceUp' = TRUE
  BY DEF Export, ServiceStarts, DriveInv, DriveTypeOK
<1>4. UNCHANGED <<objects, loading, refreshPending, busyObjects, busyDrives, calls, kernel>>
  BY DEF Export, ServiceStarts, modelVars
<1> QED
  BY <1>1, <1>2, <1>3, <1>4, NoticeComes

LEMMA CallIsAnswered ==
    ASSUME DriveRest, NEW c \in calls, Answer(c), OthersOK'
    PROVE  /\ DriveMoves
           /\ c.kind # "List" => inbox' = Append(inbox, c) /\ c \in Works
<1>1. DriveTypeOK /\ NothingIsNew /\ ListIsOnItsWay
  BY DEF DriveRest
<1>2. /\ serviceUp /\ calls' = calls \ {c}
      /\ UNCHANGED <<objects, loading, refreshPending, busyObjects, busyDrives, kernel,
                     exported, serviceUp>>
  BY DEF Answer, modelVars, udisksVars
<1>3. (c \in Works /\ c.kind \in Asked /\ c.kind # "List") \/ (c = ListCall /\ c.kind = "List")
  BY <1>1, MessageKinds DEF DriveTypeOK, Asked
<1>4. PICK m \in Messages :
        /\ inbox' = Append(inbox, m)
        /\ \/ c = ListCall /\ m.kind = "List" /\ Lists(m) /\ m.objects = exported
           \/ c # ListCall /\ m = c /\ m.kind \in Asked
  <2>1. CASE c.kind = "List"
    <3>1. PICK m : m = [kind |-> "List", result |-> "ok", objects |-> exported]
      OBVIOUS
    <3>2. m \in Listings /\ m.kind = "List" /\ Lists(m) /\ m.objects = exported
      BY <1>1, <3>1 DEF Listings, Lists, DriveTypeOK
    <3>3. inbox' = Append(inbox, m)
      BY <2>1, <3>1 DEF Answer
    <3> QED
      BY <1>3, <2>1, <3>2, <3>3 DEF Messages
  <2>2. CASE c.kind # "List"
    <3>1. inbox' = Append(inbox, c)
      BY <2>2 DEF Answer
    <3> QED
      BY <1>3, <2>2, <3>1, MessageKinds DEF Messages
  <2> QED
    BY <2>1, <2>2
<1>5. /\ Len(inbox) \in Nat /\ inbox' \in Seq(Messages) /\ Len(inbox') = Len(inbox) + 1
      /\ \A i \in 1 .. Len(inbox) : inbox'[i] = inbox[i]
      /\ inbox'[Len(inbox) + 1] = m
  BY <1>1, <1>4, InboxGrows
<1>6. \A i \in 1 .. Len(inbox') : i \in 1 .. Len(inbox) \/ i = Len(inbox) + 1
  BY <1>5
<1>7. m.kind \in Asked => c = m
  BY <1>4 DEF Asked
<1>8. DriveTypeOK'
  BY <1>1, <1>2, <1>5, FS_RemoveElement DEF DriveTypeOK
<1>9. NothingClashes => NothingClashes'
  <2> HAVE NothingClashes
  <2>1. \A d \in calls' : ~Clash(d, m) /\ ~Clash(m, d)
    BY <1>2, <1>7, ClashIsMutual DEF NothingClashes
  <2>2. \A i \in 1 .. Len(inbox) : ~Clash(inbox[i], m) /\ ~Clash(m, inbox[i])
    BY <1>7, ClashIsMutual DEF NothingClashes, Arrived
  <2> QED
    BY <1>2, <1>5, <1>6, <2>1, <2>2 DEF NothingClashes, Arrived
<1>10. MarksStand => MarksStand'
  <2> HAVE MarksStand
  <2>1. \A d \in calls' : Marked(d)'
    BY <1>2 DEF MarksStand, Marked
  <2>2. ASSUME NEW i \in 1 .. Len(inbox') PROVE Marked(inbox[i])'
    <3>1. CASE i \in 1 .. Len(inbox)
      BY <1>2, <1>5, <3>1 DEF MarksStand, Arrived, Marked
    <3>2. CASE i = Len(inbox) + 1
      BY <1>2, <1>5, <1>7, <3>2 DEF MarksStand, Marked, Mounting, Asked
    <3> QED
      BY <1>6, <3>1, <3>2
  <2> QED
    BY <2>1, <2>2 DEF MarksStand, Arrived
<1>11. PowerOffsAreAlone => PowerOffsAreAlone'
  BY <1>2 DEF PowerOffsAreAlone
<1>12. NothingIsNew'
  <2>1. Lists(m) => m.objects = exported
    BY <1>4 DEF Lists, Asked
  <2> QED
    BY <1>1, <1>2, <1>5, <1>6, <2>1 DEF NothingIsNew, Arrived
<1>13. ListIsOnItsWay'
  <2>1. Len(inbox) + 1 \in 1 .. Len(inbox')
        /\ \A i \in 1 .. Len(inbox) : \A j \in i + 1 .. Len(inbox) :
             j \in i + 1 .. Len(inbox') /\ inbox'[j] = inbox[j]
    BY <1>5
  <2>2. loading => ListCall \in calls' \/ \E i \in 1 .. Len(inbox') : inbox'[i].kind = "List"
    <3> SUFFICES ASSUME loading, ListCall \notin calls'
                 PROVE  \E i \in 1 .. Len(inbox') : inbox'[i].kind = "List"
      OBVIOUS
    <3>1. CASE c = ListCall
      BY <1>4, <1>5, <2>1, <3>1
    <3>2. CASE c # ListCall
      <4>1. PICK i \in 1 .. Len(inbox) : inbox[i].kind = "List"
        BY <1>1, <1>2, <3>2 DEF ListIsOnItsWay, Arrived
      <4> QED
        BY <1>5, <4>1
    <3> QED
      BY <3>1, <3>2
  <2>3. objects = exported \/ loading \/ \E i \in 1 .. Len(inbox') : Refreshes(inbox'[i])
    <3> SUFFICES ASSUME objects # exported, ~loading
                 PROVE  \E i \in 1 .. Len(inbox') : Refreshes(inbox'[i])
      OBVIOUS
    <3>1. PICK i \in 1 .. Len(inbox) : Refreshes(inbox[i])
      BY <1>1, <1>2 DEF ListIsOnItsWay, Arrived
    <3> QED
      BY <1>5, <3>1
  <2>4. ASSUME NEW i \in 1 .. Len(inbox')
        PROVE  \/ ~IsEnd(inbox'[i]) /\ inbox'[i].kind # "List"
               \/ Lists(inbox'[i]) /\ inbox'[i].objects = exported'
               \/ \E j \in i + 1 .. Len(inbox') : Refreshes(inbox'[j])
    <3>1. CASE i \in 1 .. Len(inbox)
      <4>1. \/ ~IsEnd(inbox[i]) /\ inbox[i].kind # "List"
            \/ Lists(inbox[i]) /\ inbox[i].objects = exported
            \/ \E j \in i + 1 .. Len(inbox) : Refreshes(inbox[j])
        BY <1>1, <1>2, <3>1 DEF ListIsOnItsWay, Arrived
      <4> QED
        BY <1>2, <1>5, <2>1, <3>1, <4>1
    <3>2. CASE i = Len(inbox) + 1
      BY <1>2, <1>4, <1>5, <3>2 DEF IsEnd, Asked
    <3> QED
      BY <1>6, <3>1, <3>2
  <2> QED
    BY <1>2, <2>2, <2>3, <2>4 DEF ListIsOnItsWay, Arrived
<1> QED
  BY <1>3, <1>4, <1>8, <1>9, <1>10, <1>11, <1>12, <1>13, MessageKinds
     DEF DriveMoves, DriveRest, CallsAreApart

LEMMA SetInSequence ==
    ASSUME NEW S, IsFiniteSet(S)
    PROVE  LET n == Cardinality(S)
               q == SetToSeq(S)
           IN  /\ n \in Nat /\ q \in [1 .. n -> S]
               /\ \A i, j \in 1 .. n : q[i] = q[j] => i = j
               /\ \A x \in S : \E i \in 1 .. n : q[i] = x
<1> DEFINE n == Cardinality(S)
           q == SetToSeq(S)
<1>1. n \in Nat /\ ExistsBijection(1 .. n, S)
  BY FS_CardinalityType
<1>2. IsFiniteSet(1 .. n) /\ Cardinality(1 .. n) = n
  BY <1>1, FS_Interval
<1>3. \E f \in [1 .. n -> S] : IsInjective(f)
  BY <1>1 DEF ExistsBijection, Bijection, Injection
<1>4. q \in [1 .. n -> S] /\ IsInjective(q)
  BY <1>3 DEF SetToSeq
<1> HIDE DEF n, q
<1>5. q \in Injection(1 .. n, S)
  BY <1>4 DEF Injection
<1>6. q \in Surjection(1 .. n, S)
  BY <1>2, <1>5, FS_Injection DEF n
<1> QED
  BY <1>1, <1>4, <1>6 DEF IsInjective, Surjection, n, q

(* A call that the end of UDisks failed.                                    *)
FailedCall(c) == [c EXCEPT !.result = "error"]

(* What has come when UDisks ended: its end, at e, and the calls that       *)
(* failed by it, each of them once.                                         *)
EndCame(e, from) ==
    /\ Len(inbox) \in Nat /\ inbox' \in Seq(Messages)
    /\ \A i \in 1 .. Len(inbox) : inbox'[i] = inbox[i]
    /\ e \in Len(inbox) + 1 .. Len(inbox') /\ IsEnd(inbox'[e])
    /\ from \in [(Len(inbox) + 1 .. Len(inbox')) \ {e} -> calls]
    /\ \A k \in (Len(inbox) + 1 .. Len(inbox')) \ {e} : inbox'[k] = FailedCall(from[k])
    /\ \A k, l \in (Len(inbox) + 1 .. Len(inbox')) \ {e} : from[k] = from[l] => k = l
    /\ \A c \in calls : \E k \in (Len(inbox) + 1 .. Len(inbox')) \ {e} : from[k] = c

LEMMA FailedCalls ==
    ASSUME DriveTypeOK, NEW c \in calls
    PROVE  /\ FailedCall(c) \in Messages /\ FailedCall(c).kind = c.kind
           /\ FailedCall(c).object = c.object /\ FailedCall(c).drives = c.drives
           /\ ~Lists(FailedCall(c)) /\ ~IsEnd(FailedCall(c))
<1>1. CASE c \in Works
  <2>1. FailedCall(c) \in Works /\ FailedCall(c).kind = c.kind
        /\ FailedCall(c).object = c.object /\ FailedCall(c).drives = c.drives
        /\ FailedCall(c).result = "error"
    BY <1>1 DEF Works, FailedCall
  <2> QED
    BY <2>1, MessageKinds DEF Messages, Lists, IsEnd, Asked
<1>2. CASE c = ListCall
  <2>1. FailedCall(c) = Failed /\ FailedCall(c).kind = c.kind
        /\ FailedCall(c).object = c.object /\ FailedCall(c).drives = c.drives
        /\ FailedCall(c).result = "error" /\ c.kind = "List"
    BY <1>2 DEF FailedCall, Failed, ListCall, Call
  <2> QED
    BY <2>1 DEF Messages, Lists, IsEnd
<1> QED
  BY <1>1, <1>2 DEF DriveTypeOK

LEMMA EndComes ==
    ASSUME DriveTypeOK, ServiceStops
    PROVE  \E e, from : EndCame(e, from)
<1> DEFINE n == Cardinality(calls)
           q == SetToSeq(calls)
           failed == [i \in 1 .. n |-> FailedCall(q[i])]
           end == [kind |-> "unregistered"]
<1>1. /\ n \in Nat /\ q \in [1 .. n -> calls]
      /\ \A i, j \in 1 .. n : q[i] = q[j] => i = j
      /\ \A c \in calls : \E i \in 1 .. n : q[i] = c
  BY SetInSequence DEF DriveTypeOK
<1>2. inbox' \in {inbox \o <<end>> \o failed, inbox \o failed \o <<end>>}
  BY DEF ServiceStops, FailedCall
<1>3. end \in Messages /\ IsEnd(end)
  BY DEF Messages, Notices, IsEnd
<1> HIDE DEF n, q, end
<1>4. /\ failed \in Seq(Messages) /\ Len(failed) = n
      /\ \A i \in 1 .. n : failed[i] = FailedCall(q[i])
  <2>1. \A i \in 1 .. n : FailedCall(q[i]) \in Messages
    BY <1>1, FailedCalls
  <2> QED
    BY <1>1, <2>1, IsASeq
<1>5. inbox \in Seq(Messages) /\ Len(inbox) \in Nat
  BY DEF DriveTypeOK
<1>6. <<end>> \in Seq(Messages) /\ Len(<<end>>) = 1 /\ <<end>>[1] = end
  BY <1>3
<1> DEFINE one == <<end>>
<1>7. one \in Seq(Messages) /\ Len(one) = 1 /\ one[1] = end
  BY <1>6
<1> HIDE DEF failed, one
<1>8. CASE inbox' = (inbox \o one) \o failed
  <2> DEFINE e == Len(inbox) + 1
             places == (Len(inbox) + 1 .. Len(inbox) + n + 1) \ {e}
             from == [k \in places |-> q[k - Len(inbox) - 1]]
             half == inbox \o one
  <2>1. /\ half \in Seq(Messages) /\ Len(half) = Len(inbox) + 1
        /\ \A i \in 1 .. Len(inbox) : half[i] = inbox[i]
        /\ half[Len(inbox) + 1] = end
    <3>1. /\ half \in Seq(Messages) /\ Len(half) = Len(inbox) + Len(one)
          /\ \A i \in 1 .. Len(inbox) + Len(one) :
               half[i] = IF i <= Len(inbox) THEN inbox[i] ELSE one[i - Len(inbox)]
      BY <1>5, <1>7, ConcatProperties
    <3> HIDE DEF half
    <3>2. \A i \in 1 .. Len(inbox) : half[i] = inbox[i]
      BY <1>5, <1>7, <3>1
    <3>3. half[Len(inbox) + 1] = one[1]
      <4>1. /\ Len(inbox) + 1 \in 1 .. Len(inbox) + Len(one) /\ ~(Len(inbox) + 1 <= Len(inbox))
            /\ Len(inbox) + 1 - Len(inbox) = 1
        BY <1>5, <1>7
      <4> QED
        BY <3>1, <4>1
    <3> QED
      BY <1>7, <3>1, <3>2, <3>3
  <2>2. inbox' = half \o failed
    BY <1>8
  <2> HIDE DEF half
  <2>3. /\ inbox' \in Seq(Messages) /\ Len(inbox') = Len(inbox) + 1 + n
        /\ \A i \in 1 .. Len(inbox) + 1 : inbox'[i] = half[i]
        /\ \A i \in 1 .. n : inbox'[Len(inbox) + 1 + i] = failed[i]
    <3>1. /\ half \o failed \in Seq(Messages) /\ Len(half \o failed) = Len(half) + Len(failed)
          /\ \A i \in 1 .. Len(half) + Len(failed) :
               (half \o failed)[i] = IF i <= Len(half) THEN half[i] ELSE failed[i - Len(half)]
      BY <1>4, <2>1, ConcatProperties
    <3>2. /\ inbox' \in Seq(Messages) /\ Len(inbox') = Len(inbox) + 1 + n
          /\ \A i \in 1 .. Len(inbox) + 1 + n :
               inbox'[i] = IF i <= Len(inbox) + 1 THEN half[i] ELSE failed[i - (Len(inbox) + 1)]
      BY <1>1, <1>4, <1>5, <2>1, <2>2, <3>1
    <3>3. \A i \in 1 .. n : inbox'[Len(inbox) + 1 + i] = failed[i]
      <4> TAKE i \in 1 .. n
      <4>1. /\ Len(inbox) + 1 + i \in 1 .. Len(inbox) + 1 + n /\ ~(Len(inbox) + 1 + i <= Len(inbox) + 1)
            /\ Len(inbox) + 1 + i - (Len(inbox) + 1) = i
        BY <1>1, <1>5
      <4> QED
        BY <3>2, <4>1
    <3> QED
      BY <1>1, <1>5, <3>2, <3>3
  <2>4. \A k \in places : k - Len(inbox) - 1 \in 1 .. n /\ Len(inbox) + 1 + (k - Len(inbox) - 1) = k
    BY <1>1, <1>5
  <2>5. \A i \in 1 .. n : Len(inbox) + 1 + i \in places /\ Len(inbox) + 1 + i - Len(inbox) - 1 = i
    BY <1>1, <1>5
  <2>6. places = (Len(inbox) + 1 .. Len(inbox')) \ {e} /\ e \in Len(inbox) + 1 .. Len(inbox')
    BY <1>1, <1>5, <2>3
  <2>7. IsEnd(inbox'[e]) /\ \A i \in 1 .. Len(inbox) : inbox'[i] = inbox[i]
    BY <1>3, <1>5, <2>1, <2>3
  <2> HIDE DEF places, e
  <2>8. from \in [places -> calls] /\ \A k \in places : from[k] = q[k - Len(inbox) - 1]
    BY <1>1, <2>4
  <2> HIDE DEF from
  <2>9. \A k \in places : inbox'[k] = FailedCall(from[k])
    <3> TAKE k \in places
    <3>1. PICK i \in 1 .. n : i = k - Len(inbox) - 1 /\ Len(inbox) + 1 + i = k
      BY <2>4
    <3>2. inbox'[k] = failed[i]
      BY <2>3, <3>1
    <3>3. from[k] = q[i]
      BY <2>8, <3>1
    <3> QED
      BY <1>4, <3>2, <3>3
  <2>10. \A k, l \in places : from[k] = from[l] => k = l
    <3> TAKE k, l \in places
    <3> HAVE from[k] = from[l]
    <3>1. k - Len(inbox) - 1 = l - Len(inbox) - 1
      BY <1>1, <2>4, <2>8
    <3> QED
      BY <2>4, <3>1
  <2>11. \A c \in calls : \E k \in places : from[k] = c
    <3> TAKE c \in calls
    <3>1. PICK i \in 1 .. n : q[i] = c
      BY <1>1
    <3>2. Len(inbox) + 1 + i \in places /\ from[Len(inbox) + 1 + i] = c
      BY <2>5, <2>8, <3>1
    <3> QED
      BY <3>2
  <2>12. EndCame(e, from)
    BY <1>5, <2>3, <2>6, <2>7, <2>8, <2>9, <2>10, <2>11 DEF EndCame
  <2> QED
    BY <2>12
<1>9. CASE inbox' = (inbox \o failed) \o one
  <2> DEFINE e == Len(inbox) + n + 1
             places == (Len(inbox) + 1 .. Len(inbox) + n + 1) \ {e}
             from == [k \in places |-> q[k - Len(inbox)]]
             half == inbox \o failed
  <2>1. /\ half \in Seq(Messages) /\ Len(half) = Len(inbox) + n
        /\ \A i \in 1 .. Len(inbox) : half[i] = inbox[i]
        /\ \A i \in 1 .. n : half[Len(inbox) + i] = failed[i]
    <3>1. /\ half \in Seq(Messages) /\ Len(half) = Len(inbox) + n
          /\ \A i \in 1 .. Len(inbox) + n :
               half[i] = IF i <= Len(inbox) THEN inbox[i] ELSE failed[i - Len(inbox)]
      <4>1. /\ half \in Seq(Messages) /\ Len(half) = Len(inbox) + Len(failed)
            /\ \A i \in 1 .. Len(inbox) + Len(failed) :
                 half[i] = IF i <= Len(inbox) THEN inbox[i] ELSE failed[i - Len(inbox)]
        BY <1>4, <1>5, ConcatProperties
      <4> HIDE DEF half
      <4> QED
        BY <1>4, <4>1
    <3>2. \A i \in 1 .. n : half[Len(inbox) + i] = failed[i]
      <4> TAKE i \in 1 .. n
      <4>1. /\ Len(inbox) + i \in 1 .. Len(inbox) + n /\ ~(Len(inbox) + i <= Len(inbox))
            /\ Len(inbox) + i - Len(inbox) = i
        BY <1>1, <1>5
      <4> HIDE DEF half
      <4> QED
        BY <3>1, <4>1
    <3> HIDE DEF half
    <3> QED
      BY <1>1, <1>5, <3>1, <3>2
  <2>2. inbox' = half \o one
    BY <1>9
  <2> HIDE DEF half
  <2>3. /\ inbox' \in Seq(Messages) /\ Len(inbox') = Len(inbox) + n + 1
        /\ \A i \in 1 .. Len(inbox) + n : inbox'[i] = half[i]
        /\ inbox'[Len(inbox) + n + 1] = end
    <3>1. /\ half \o one \in Seq(Messages) /\ Len(half \o one) = Len(half) + Len(one)
          /\ \A i \in 1 .. Len(half) + Len(one) :
               (half \o one)[i] = IF i <= Len(half) THEN half[i] ELSE one[i - Len(half)]
      BY <1>7, <2>1, ConcatProperties
    <3>2. Len(half) \in Nat /\ Len(half) + 1 - Len(half) = 1
      BY <1>1, <1>5, <2>1
    <3> QED
      BY <1>1, <1>5, <1>7, <2>1, <2>2, <3>1, <3>2
  <2>4. \A k \in places : k - Len(inbox) \in 1 .. n /\ Len(inbox) + (k - Len(inbox)) = k
    BY <1>1, <1>5
  <2>5. \A i \in 1 .. n : Len(inbox) + i \in places /\ Len(inbox) + i - Len(inbox) = i
    BY <1>1, <1>5
  <2>6. places = (Len(inbox) + 1 .. Len(inbox')) \ {e} /\ e \in Len(inbox) + 1 .. Len(inbox')
    BY <1>1, <1>5, <2>3
  <2>7. IsEnd(inbox'[e]) /\ \A i \in 1 .. Len(inbox) : inbox'[i] = inbox[i]
    BY <1>1, <1>3, <1>5, <2>1, <2>3
  <2>8. \A i \in 1 .. n : inbox'[Len(inbox) + i] = failed[i]
    <3> TAKE i \in 1 .. n
    <3>1. Len(inbox) + i \in 1 .. Len(inbox) + n
      BY <1>1, <1>5
    <3> QED
      BY <2>1, <2>3, <3>1
  <2> HIDE DEF places, e
  <2>9. from \in [places -> calls] /\ \A k \in places : from[k] = q[k - Len(inbox)]
    BY <1>1, <2>4
  <2> HIDE DEF from
  <2>10. \A k \in places : inbox'[k] = FailedCall(from[k])
    BY <1>4, <2>4, <2>8, <2>9
  <2>11. \A k, l \in places : from[k] = from[l] => k = l
    <3> TAKE k, l \in places
    <3> HAVE from[k] = from[l]
    <3>1. k - Len(inbox) = l - Len(inbox)
      BY <1>1, <2>4, <2>9
    <3> QED
      BY <2>4, <3>1
  <2>12. \A c \in calls : \E k \in places : from[k] = c
    <3> TAKE c \in calls
    <3>1. PICK i \in 1 .. n : q[i] = c
      BY <1>1
    <3>2. Len(inbox) + i \in places /\ from[Len(inbox) + i] = c
      BY <2>5, <2>9, <3>1
    <3> QED
      BY <3>2
  <2>13. EndCame(e, from)
    BY <1>5, <2>3, <2>6, <2>7, <2>9, <2>10, <2>11, <2>12 DEF EndCame
  <2> QED
    BY <2>13
<1> QED
  BY <1>2, <1>8, <1>9 DEF one

LEMMA ServiceEnds ==
    ASSUME DriveRest, ServiceStops, OthersOK'
    PROVE  DriveMoves
<1>1. DriveTypeOK /\ NothingIsNew /\ ListIsOnItsWay
  BY DEF DriveRest
<1>2. /\ serviceUp' = FALSE /\ calls' = {}
      /\ UNCHANGED <<objects, loading, refreshPending, busyObjects, busyDrives, kernel, exported>>
  BY DEF ServiceStops, modelVars
<1>3. PICK e, from : EndCame(e, from)
  BY <1>1, EndComes
<1> DEFINE new == (Len(inbox) + 1 .. Len(inbox')) \ {e}
<1>4. /\ Len(inbox) \in Nat /\ inbox' \in Seq(Messages) /\ Len(inbox') \in Nat
      /\ \A i \in 1 .. Len(inbox) : inbox'[i] = inbox[i]
      /\ e \in Len(inbox) + 1 .. Len(inbox') /\ IsEnd(inbox'[e])
      /\ \A k \in new : from[k] \in calls /\ inbox'[k] = FailedCall(from[k])
      /\ \A k, l \in new : from[k] = from[l] => k = l
      /\ \A c \in calls : \E k \in new : from[k] = c
  BY <1>3 DEF EndCame
<1>5. \A i \in 1 .. Len(inbox') : i \in 1 .. Len(inbox) \/ i = e \/ i \in new
  BY <1>4
<1>6. /\ \A i \in 1 .. Len(inbox) : i \in 1 .. Len(inbox') /\ i \notin new
      /\ \A k \in new : k \in 1 .. Len(inbox') /\ k > Len(inbox)
  BY <1>4
<1> HIDE DEF new
<1>7. \A k \in new : /\ inbox'[k].kind = from[k].kind /\ inbox'[k].object = from[k].object
                     /\ inbox'[k].drives = from[k].drives
                     /\ ~Lists(inbox'[k]) /\ ~IsEnd(inbox'[k])
  BY <1>1, <1>4, FailedCalls
<1>8. \A m : ~Clash(m, inbox'[e]) /\ ~Clash(inbox'[e], m)
  BY <1>4, ClashIsMutual DEF IsEnd, Asked
<1>9. \A k \in new : \A m : (Clash(inbox'[k], m) <=> Clash(from[k], m))
                            /\ (Clash(m, inbox'[k]) <=> Clash(m, from[k]))
  BY <1>7 DEF Clash
<1>10. DriveTypeOK'
  BY <1>1, <1>2, <1>4, FS_EmptySet DEF DriveTypeOK
<1>11. NothingClashes => NothingClashes'
  <2> HAVE NothingClashes
  <2>1. \A i, j \in 1 .. Len(inbox) : i # j => ~Clash(inbox'[i], inbox'[j])
    BY <1>1, <1>4 DEF NothingClashes, Arrived
  <2>2. \A i \in 1 .. Len(inbox), k \in new : ~Clash(inbox'[i], inbox'[k]) /\ ~Clash(inbox'[k], inbox'[i])
    BY <1>1, <1>4, <1>9, ClashIsMutual DEF NothingClashes, Arrived
  <2>3. \A k, l \in new : k # l => ~Clash(inbox'[k], inbox'[l])
    <3> SUFFICES ASSUME NEW k \in new, NEW l \in new, k # l
                 PROVE  ~Clash(inbox'[k], inbox'[l])
      OBVIOUS
    <3>1. from[k] # from[l] /\ from[k] \in calls /\ from[l] \in calls
      BY <1>4
    <3> QED
      BY <1>1, <1>9, <3>1 DEF NothingClashes
  <2>4. \A i, j \in 1 .. Len(inbox') : i # j => ~Clash(inbox'[i], inbox'[j])
    BY <1>5, <1>8, <2>1, <2>2, <2>3
  <2> QED
    BY <1>2, <2>4 DEF NothingClashes, Arrived
<1>12. MarksStand => MarksStand'
  <2> HAVE MarksStand
  <2> SUFFICES ASSUME NEW i \in 1 .. Len(inbox') PROVE Marked(inbox[i])'
    BY <1>2 DEF MarksStand, Arrived
  <2>1. CASE i \in 1 .. Len(inbox)
    BY <1>2, <1>4, <2>1 DEF MarksStand, Arrived, Marked
  <2>2. CASE i = e
    BY <1>4, <2>2 DEF Marked, Mounting, IsEnd
  <2>3. CASE i \in new
    <3>1. Marked(from[i])
      BY <1>1, <1>4, <2>3 DEF MarksStand
    <3> QED
      BY <1>2, <1>7, <2>3, <3>1 DEF Marked
  <2> QED
    BY <1>5, <2>1, <2>2, <2>3
<1>13. PowerOffsAreAlone'
  BY <1>2 DEF PowerOffsAreAlone
<1>14. NothingIsNew'
  <2>1. ASSUME NEW i \in 1 .. Len(inbox'), Lists(inbox'[i])
        PROVE  kernel.present \subseteq inbox'[i].objects.present
    <3>1. i \in 1 .. Len(inbox)
      BY <1>4, <1>5, <1>7, <2>1 DEF IsEnd, Lists
    <3> QED
      BY <1>1, <1>4, <2>1, <3>1 DEF NothingIsNew, Arrived
  <2> QED
    BY <1>1, <1>2, <2>1 DEF NothingIsNew, Arrived
<1>15. ListIsOnItsWay'
  <2> SUFFICES ASSUME loading
               PROVE  \E i \in 1 .. Len(inbox') : inbox'[i].kind = "List"
    BY <1>2 DEF ListIsOnItsWay, Arrived
  <2>1. CASE ListCall \in calls
    <3>1. PICK k \in new : from[k] = ListCall
      BY <1>4, <2>1
    <3> QED
      BY <1>6, <1>7, <3>1, MessageKinds
  <2>2. CASE ListCall \notin calls
    <3>1. PICK i \in 1 .. Len(inbox) : inbox[i].kind = "List"
      BY <1>1, <2>2 DEF ListIsOnItsWay, Arrived
    <3> QED
      BY <1>4, <1>6, <3>1
  <2> QED
    BY <2>1, <2>2
<1> QED
  BY <1>10, <1>11, <1>12, <1>13, <1>14, <1>15 DEF DriveMoves, DriveRest, CallsAreApart

LEMMA OthersAct ==
    ASSUME DriveRest, Elsewhere, OthersOK'
    PROVE  DriveMoves
<1>1. UNCHANGED <<objects, loading, refreshPending, busyObjects, busyDrives, calls, inbox,
                  exported, serviceUp>>
  BY DEF Elsewhere, modelVars
<1>2. /\ kernel.present \subseteq Blocks \cup Drives /\ kernel.mounted \subseteq Volumes
      /\ kernel.mounted \subseteq kernel.present
      /\ kernel = [present |-> kernel.present, mounted |-> kernel.mounted]
  BY DEF DriveRest, DriveTypeOK, Systems
<1>3. kernel' \in Systems /\ kernel'.present \subseteq kernel.present
  <2>1. ASSUME NEW v \in (kernel.present \cap Volumes) \ kernel.mounted, kernel' = WithMounted(v)
        PROVE  kernel' \in Systems /\ kernel'.present \subseteq kernel.present
    <3>1. kernel' = [present |-> kernel.present, mounted |-> kernel.mounted \cup {v}]
      BY <1>2, <2>1 DEF WithMounted
    <3> QED
      BY <1>2, <3>1 DEF Systems
  <2>2. ASSUME NEW v \in kernel.mounted, kernel' = WithoutMounted(v)
        PROVE  kernel' \in Systems /\ kernel'.present \subseteq kernel.present
    <3>1. kernel' = [present |-> kernel.present, mounted |-> kernel.mounted \ {v}]
      BY <1>2, <2>2 DEF WithoutMounted
    <3> QED
      BY <1>2, <3>1 DEF Systems
  <2>3. ASSUME NEW d \in kernel.present \cap Drives, kernel' = WithoutDrives({d})
        PROVE  kernel' \in Systems /\ kernel'.present \subseteq kernel.present
    <3> DEFINE gone == {d} \cup {b \in Blocks : On(b, {d})}
    <3>1. kernel' = [present |-> kernel.present \ gone, mounted |-> kernel.mounted \ gone]
      BY <2>3 DEF WithoutDrives
    <3> HIDE DEF gone
    <3> QED
      BY <1>2, <3>1 DEF Systems
  <2> QED
    BY <2>1, <2>2, <2>3 DEF Elsewhere
<1>4. DriveTypeOK'
  BY <1>1, <1>3 DEF DriveRest, DriveTypeOK
<1>5. CallsAreApart => CallsAreApart'
  BY <1>1 DEF CallsAreApart, NothingClashes, MarksStand, Marked, PowerOffsAreAlone, Arrived
<1>6. NothingIsNew' /\ ListIsOnItsWay'
  BY <1>1, <1>3 DEF DriveRest, NothingIsNew, ListIsOnItsWay, Arrived
<1> QED
  BY <1>4, <1>5, <1>6 DEF DriveMoves, DriveRest

LEMMA DrivesInitially ==
    ASSUME DriveInit, unheard = {}
    PROVE  DriveInv
<1>1. /\ inbox = <<>> /\ kernel = [present |-> Blocks \cup Drives, mounted |-> {}]
      /\ exported = kernel /\ serviceUp = TRUE /\ objects = None /\ loading = TRUE
      /\ calls = {ListCall} /\ refreshPending = FALSE /\ busyObjects = {} /\ busyDrives = {}
      /\ events = 0 /\ unmarked = FALSE
  BY DEF DriveInit
<1>2. Arrived = {}
  BY <1>1 DEF Arrived
<1>3. kernel \in Systems /\ None \in Systems
  BY <1>1 DEF Systems, None
<1>4. DriveTypeOK
  <2>1. IsFiniteSet({ListCall})
    BY FS_Singleton
  <2>2. inbox \in Seq(Messages)
    BY <1>1
  <2> QED
    BY <1>1, <1>3, <2>1, <2>2 DEF DriveTypeOK, OthersOK
<1>5. CallsAreApart
  BY <1>1, <1>2, MessageKinds
     DEF CallsAreApart, NothingClashes, MarksStand, Marked, Mounting, PowerOffsAreAlone
<1>6. NothingIsNew /\ ListIsOnItsWay
  BY <1>1, <1>2 DEF NothingIsNew, ListIsOnItsWay
<1> QED
  BY <1>1, <1>4, <1>5, <1>6 DEF DriveInv, DriveRest

-----------------------------------------------------------------------------
(* p is being unmounted, or the answer to that is still to be read.         *)
Leaving(p) ==
    \/ \E c \in calls : c.kind = "Unmount" /\ c.object = p
    \/ \E i \in Arrived : inbox[i].kind = "Unmount" /\ inbox[i].object = p

(* Whoever is in a volume that is gone will be led out, or cannot be told.  *)
VolumesAreLeft ==
    \A p \in Volumes : Held(p) => p \in kernel.mounted \cup unheard \/ Leaving(p)

(* The tabs at a step that is not about them.                               *)
LEMMA TabsStay ==
    ASSUME TabsOK, UNCHANGED tabVars, NEW places
    PROVE  TabsMove(places)
<1>1. tabs' = tabs /\ currentIndex' = currentIndex /\ closedTabs' = closedTabs
  BY DEF tabVars
<1>2. TabsOK' /\ \A p : Held(p)' => Held(p)
  BY <1>1 DEF TabsOK, Sound, Held, Has
<1>3. ~(Len(tabs') < Len(tabs))
  BY <1>1 DEF TabsOK, Sound
<1> QED
  BY <1>2, <1>3 DEF TabsMove

(* A volume is being left for as long as the answer was not read.           *)
LEMMA LeavingIsRead ==
    ASSUME DriveRest, inbox # <<>>, inbox' = Tail(inbox), calls \subseteq calls',
           NEW p, Leaving(p), ~(inbox[1].kind = "Unmount" /\ inbox[1].object = p)
    PROVE  Leaving(p)'
<1>1. /\ Len(inbox) \in Nat /\ Len(inbox) >= 1
      /\ \A j \in 2 .. Len(inbox) : j - 1 \in 1 .. Len(inbox') /\ inbox'[j - 1] = inbox[j]
  BY InboxRead DEF DriveRest
<1>2. ASSUME NEW i \in 1 .. Len(inbox), inbox[i].kind = "Unmount" /\ inbox[i].object = p
      PROVE  Leaving(p)'
  <2>1. i \in 2 .. Len(inbox)
    BY <1>1, <1>2
  <2> QED
    BY <1>1, <1>2, <2>1 DEF Leaving, Arrived
<1> QED
  BY <1>2 DEF Leaving, Arrived

LEMMA LeavingWhileUdisksWorks ==
    ASSUME DriveRest, Udisks, NEW p, Leaving(p), OthersOK'
    PROVE  Leaving(p)'
<1>1. ASSUME Len(inbox) \in Nat, Len(inbox') \in Nat, Len(inbox) <= Len(inbox'),
             \A i \in 1 .. Len(inbox) : inbox'[i] = inbox[i],
             \A c \in calls : c.kind = "Unmount" =>
               \/ \E d \in calls' : d.kind = c.kind /\ d.object = c.object
               \/ \E i \in 1 .. Len(inbox') : inbox'[i].kind = c.kind /\ inbox'[i].object = c.object
      PROVE  Leaving(p)'
  <2>1. \A i \in 1 .. Len(inbox) : i \in 1 .. Len(inbox')
    BY <1>1
  <2> QED
    BY <1>1, <2>1 DEF Leaving, Arrived
<1>2. inbox \in Seq(Messages) /\ Len(inbox) \in Nat
  BY DEF DriveRest, DriveTypeOK
<1>3. ASSUME NEW c \in calls, Perform(c)
      PROVE  Leaving(p)'
  <2>1. PICK result : calls' = (calls \ {c}) \cup {[c EXCEPT !.result = result]}
    BY <1>3, WorkIsDone
  <2>2. c \in Works /\ inbox' = inbox
    BY <1>3, WorkIsDone DEF Perform
  <2>3. PICK d : d = [c EXCEPT !.result = result]
    OBVIOUS
  <2>4. d \in calls' /\ d.kind = c.kind /\ d.object = c.object
    BY <2>1, <2>2, <2>3 DEF Works
  <2>5. \A m \in calls : m = c \/ m \in calls'
    BY <2>1
  <2>6. \A m \in calls : \E b \in calls' : b.kind = m.kind /\ b.object = m.object
    BY <2>4, <2>5
  <2> QED
    BY <1>1, <1>2, <2>2, <2>6
<1>4. ASSUME NEW c \in calls, Answer(c)
      PROVE  Leaving(p)'
  <2>1. calls' = calls \ {c} /\ (c.kind # "List" => inbox' = Append(inbox, c) /\ c \in Works)
    BY <1>4, CallIsAnswered DEF Answer
  <2>2. PICK m \in Messages : inbox' = Append(inbox, m)
    <3>1. CASE c.kind = "List"
      <4>1. PICK m : m = [kind |-> "List", result |-> "ok", objects |-> exported]
        OBVIOUS
      <4>2. m \in Messages
        BY <4>1 DEF Messages, Listings, DriveRest, DriveTypeOK
      <4> QED
        BY <1>4, <3>1, <4>1, <4>2 DEF Answer
    <3>2. CASE c.kind # "List"
      BY <2>1, <3>2 DEF Messages
    <3> QED
      BY <3>1, <3>2
  <2>3. /\ Len(inbox') = Len(inbox) + 1 /\ inbox'[Len(inbox) + 1] = m
        /\ \A i \in 1 .. Len(inbox) : inbox'[i] = inbox[i]
    BY <2>2, InboxGrows DEF DriveRest
  <2>4. c.kind # "List" => inbox'[Len(inbox) + 1] = c /\ Len(inbox) + 1 \in 1 .. Len(inbox')
    <3>1. c.kind # "List" => inbox'[Len(inbox) + 1] = c
      BY <2>1, MessageKinds, InboxGrows DEF Messages, DriveRest
    <3> QED
      BY <1>2, <2>3, <3>1
  <2>5. \A d \in calls : d.kind = "Unmount" =>
          \/ \E b \in calls' : b.kind = d.kind /\ b.object = d.object
          \/ \E i \in 1 .. Len(inbox') : inbox'[i].kind = d.kind /\ inbox'[i].object = d.object
    BY <2>1, <2>4
  <2> QED
    BY <1>1, <1>2, <2>3, <2>5
<1>5. ASSUME Export \/ ServiceStarts
      PROVE  Leaving(p)'
  <2>1. calls' = calls /\ \E m : inbox' = Append(inbox, m)
    BY <1>5 DEF Export, ServiceStarts
  <2>2. PICK m \in Messages : inbox' = Append(inbox, m)
    BY <1>5 DEF Export, ServiceStarts, Messages, Notices
  <2>3. Len(inbox') = Len(inbox) + 1 /\ \A i \in 1 .. Len(inbox) : inbox'[i] = inbox[i]
    BY <2>2, InboxGrows DEF DriveRest
  <2> QED
    BY <1>1, <1>2, <2>1, <2>3
<1>6. ASSUME ServiceStops
      PROVE  Leaving(p)'
  <2>1. PICK e, from : EndCame(e, from)
    BY <1>6, EndComes DEF DriveRest
  <2>2. /\ Len(inbox) <= Len(inbox') /\ Len(inbox') \in Nat
        /\ \A i \in 1 .. Len(inbox) : inbox'[i] = inbox[i]
    BY <1>2, <2>1 DEF EndCame
  <2>3. ASSUME NEW c \in calls
        PROVE  \E i \in 1 .. Len(inbox') : inbox'[i].kind = c.kind /\ inbox'[i].object = c.object
    <3>1. PICK k \in (Len(inbox) + 1 .. Len(inbox')) \ {e} : from[k] = c
      BY <2>1 DEF EndCame
    <3>2. k \in 1 .. Len(inbox') /\ inbox'[k] = FailedCall(c)
      BY <1>2, <2>1, <3>1 DEF EndCame
    <3> QED
      BY <3>2, FailedCalls DEF DriveRest
  <2> QED
    BY <1>1, <1>2, <2>2, <2>3
<1> QED
  BY <1>3, <1>4, <1>5, <1>6 DEF Udisks

(* Nothing that is mounted goes in what UDisks does but what it was asked   *)
(* to unmount.                                                              *)
LEMMA MountedWhileUdisksWorks ==
    ASSUME DriveRest, Udisks, NEW p \in kernel.mounted, OthersOK'
    PROVE  p \in kernel'.mounted \/ Leaving(p)
<1>1. ASSUME NEW c \in calls, Perform(c)
      PROVE  p \in kernel'.mounted \/ Leaving(p)
  <2>1. c \in Works /\ kernel' \in {kernel, Outcome(c)} /\ kernel \in Systems
    BY <1>1, WorkIsDone DEF DriveRest, DriveTypeOK
  <2>2. p \in Outcome(c).mounted \/ (c.kind = "Unmount" /\ c.object = p)
    BY <2>1, OutcomeIsASystem
  <2> QED
    BY <2>1, <2>2 DEF Leaving
<1>2. ASSUME NEW c \in calls, Answer(c)
      PROVE  p \in kernel'.mounted \/ Leaving(p)
  BY <1>2 DEF Answer, udisksVars
<1>3. ASSUME Export \/ ServiceStarts \/ ServiceStops
      PROVE  p \in kernel'.mounted \/ Leaving(p)
  BY <1>3 DEF Export, ServiceStarts, ServiceStops
<1> QED
  BY <1>1, <1>2, <1>3 DEF Udisks

LEMMA UdisksWorks ==
    ASSUME DriveRest, Udisks, OthersOK'
    PROVE  DriveMoves
BY WorkIsDone, CallIsAnswered, StateIsExported, ServiceEnds DEF Udisks

-----------------------------------------------------------------------------
(* What the steps of the volumes add to the tabs.                           *)
VolumePlaces == Volumes \cup {Above, Home, NoPlace}

LEMMA FixedPlaces ==
    /\ Above \in AnyPlace \ {NoPlace} /\ {Above, Home, NoPlace} \cap Volumes = {}
    /\ \A v \in Volumes : v \in AnyPlace \ {NoPlace}
BY PlacesAssumption DEF AnyPlace

LEMMA MoreMove ==
    ASSUME NEW P, NEW Q, P \subseteq Q, TabsMove(P)
    PROVE  TabsMove(Q)
BY DEF TabsMove

VolumesInv == DriveInv /\ TabsOK /\ VolumesAreLeft

LEMMA EventsAreCounted ==
    ASSUME DriveTypeOK, VolumesSteps
    PROVE  events' \in Nat
<1>1. events \in Nat
  BY DEF DriveTypeOK, OthersOK
<1>2. events' = events \/ events' = events + 1
  BY DEF VolumesSteps, mount, unmount, powerOff, Navigate, ArrangeTabs, RepliedAndTold, Replied,
         Untold, Changed, onServiceRegistered, onServiceUnregistered, Listed, Udisks, Perform,
         Answer, Export, ServiceStops, ServiceStarts, UnmountedElsewhere, Elsewhere,
         Disturbance, Event
<1> QED
  BY <1>1, <1>2

LEMMA VolumeMoves ==
    ASSUME VolumesInv, VolumesSteps
    PROVE  DriveMoves /\ VolumesAreLeft' /\ TabsMove(VolumePlaces)
<1>1. DriveRest /\ TabsOK /\ unheard \subseteq Volumes /\ kernel.mounted \subseteq Volumes
      /\ \A p \in Volumes : Held(p) => p \in kernel.mounted \cup unheard \/ Leaving(p)
  BY DEF VolumesInv, VolumesAreLeft, DriveInv, DriveRest, DriveTypeOK, OthersOK, Systems
<1>2. unheard' \subseteq Volumes => OthersOK'
  BY <1>1, EventsAreCounted DEF DriveRest, OthersOK
<1>3. ASSUME NEW v \in Volumes, mount(v) \/ unmount(v) \/ powerOff(v),
             UNCHANGED <<tabVars, unheard>>
      PROVE  DriveMoves /\ VolumesAreLeft' /\ TabsMove(VolumePlaces)
  <2>1. DriveMoves
    <3>1. CASE mount(v) \/ unmount(v)
      <4>1. v \in Rows /\ ~Busy(v) /\ \E kind \in Mounting : SetBusyAndCall(v, kind)
        BY <3>1 DEF mount, unmount, Mounting
      <4> QED
        BY <1>1, <1>2, <1>3, <4>1, MountIsAsked
    <3>2. CASE powerOff(v)
      BY <1>1, <1>2, <1>3, <3>2, PowerOffIsAsked
    <3> QED
      BY <1>3, <3>1, <3>2
  <2>2. TabsMove(VolumePlaces) /\ TabsMove({})
    BY <1>1, <1>3, TabsStay
  <2>3. calls \subseteq calls' /\ inbox' = inbox /\ kernel' = kernel /\ unheard' = unheard
    BY <1>3 DEF mount, unmount, powerOff, SetBusyAndCall, udisksVars
  <2>4. VolumesAreLeft'
    BY <1>1, <2>2, <2>3 DEF VolumesAreLeft, Leaving, Arrived, TabsMove
  <2> QED
    BY <2>1, <2>2, <2>4
<1>4. ASSUME UNCHANGED <<objects, loading, refreshPending, busyObjects, busyDrives, calls, inbox,
                         kernel, exported, serviceUp, unheard>>,
             NEW places, TabsMove(places), places \subseteq VolumePlaces,
             places \cap Volumes \subseteq kernel.mounted
      PROVE  DriveMoves /\ VolumesAreLeft' /\ TabsMove(VolumePlaces)
  <2>1. DriveMoves
    <3>1. DriveRest'
      BY <1>1, <1>2, <1>4 DEF DriveRest, DriveTypeOK, NothingIsNew, ListIsOnItsWay, Arrived
    <3>2. CallsAreApart => CallsAreApart'
      BY <1>4 DEF CallsAreApart, NothingClashes, MarksStand, Marked, PowerOffsAreAlone, Arrived
    <3> QED
      BY <3>1, <3>2 DEF DriveMoves
  <2>2. VolumesAreLeft'
    BY <1>1, <1>4 DEF VolumesAreLeft, Leaving, Arrived, TabsMove
  <2> QED
    BY <1>4, <2>1, <2>2, MoreMove
<1>5. ASSUME NEW p \in Volumes \cup {Above}, Navigate(p)
      PROVE  DriveMoves /\ VolumesAreLeft' /\ TabsMove(VolumePlaces)
  <2>1. /\ p = Above \/ p \in kernel.mounted
        /\ tabs' = Navigated(p) /\ UNCHANGED <<currentIndex, closedTabs>>
        /\ UNCHANGED <<objects, loading, refreshPending, busyObjects, busyDrives, calls, inbox,
                       kernel, exported, serviceUp, unheard>>
    BY <1>5 DEF Navigate, modelVars, udisksVars
  <2>2. TabsMove({p})
    BY <1>1, <1>5, <2>1, TabNavigates, FixedPlaces
  <2>3. {p} \subseteq VolumePlaces /\ {p} \cap Volumes \subseteq kernel.mounted
    BY <1>5, <2>1, FixedPlaces DEF VolumePlaces
  <2> QED
    BY <1>4, <2>1, <2>2, <2>3
<1>6. CASE ArrangeTabs
  <2>1. /\ Arrange
        /\ UNCHANGED <<objects, loading, refreshPending, busyObjects, busyDrives, calls, inbox,
                       kernel, exported, serviceUp, unheard>>
    BY <1>6 DEF ArrangeTabs, modelVars, udisksVars
  <2>2. TabsMove({Home, NoPlace})
    BY <1>1, <2>1, TabsArranged
  <2>3. {Home, NoPlace} \subseteq VolumePlaces /\ {Home, NoPlace} \cap Volumes \subseteq kernel.mounted
    BY FixedPlaces DEF VolumePlaces
  <2> QED
    BY <1>4, <2>1, <2>2, <2>3
<1>7. CASE RepliedAndTold
  <2>1. /\ Replied /\ inbox # <<>> /\ inbox' = Tail(inbox) /\ kernel' = kernel
        /\ calls \subseteq calls'
    BY <1>7 DEF RepliedAndTold, Replied, udisksVars, refresh
  <2>2. Next1 = inbox[1] /\ inbox[1].kind \in Asked /\ inbox[1].object \in Volumes
    <3>1. Next1 = inbox[1] /\ inbox[1] \in Messages
      BY <1>1, <2>1, InboxRead DEF DriveRest
    <3>2. inbox[1].kind \in Asked
      BY <2>1, <3>1 DEF Replied, Asked
    <3> QED
      BY <3>1, <3>2, MessageKinds
  <2>3. PICK v \in Volumes : v = inbox[1].object
    BY <2>2
  <2>4. \A p : Leaving(p) => Leaving(p)' \/ (inbox[1].kind = "Unmount" /\ p = v)
    BY <1>1, <2>1, <2>3, LeavingIsRead
  <2>5. CASE inbox[1].result = "ok" /\ inbox[1].kind = "Mount"
    <3>1. Mounted(v)
      BY <1>7, <2>2, <2>3, <2>5 DEF RepliedAndTold
    <3>2. /\ unheard' = unheard
          /\ (TabsMove({v}) /\ v \in kernel.mounted) \/ TabsMove({})
      <4>1. CASE v \in kernel.mounted
        <5>1. TabsMove({v})
          BY <1>1, <2>2, <3>1, <4>1, TabNavigates, FixedPlaces DEF Mounted
        <5> QED
          BY <3>1, <4>1, <5>1 DEF Mounted
      <4>2. CASE v \notin kernel.mounted
        BY <1>1, <3>1, <4>2, TabsStay DEF Mounted, tabVars
      <4> QED
        BY <4>1, <4>2
    <3>3. DriveMoves
      BY <1>1, <1>2, <2>1, <3>2, AnswerIsRead
    <3>4. TabsMove(VolumePlaces)
      BY <2>2, <3>2, MoreMove DEF VolumePlaces
    <3>5. VolumesAreLeft'
      BY <1>1, <2>1, <2>4, <2>5, <3>2 DEF VolumesAreLeft, TabsMove
    <3> QED
      BY <3>3, <3>4, <3>5
  <2>6. CASE inbox[1].result = "ok" /\ inbox[1].kind = "Unmount"
    <3>1. Unmounted(v)
      BY <1>7, <2>2, <2>3, <2>6 DEF RepliedAndTold
    <3>2. CASE v \in Rows /\ RowMounted(v)
      <4>1. recoverUnmounted({v}, Above) /\ unheard' = unheard
        BY <3>1, <3>2 DEF Unmounted
      <4>2. TabsMove({Above}) /\ ~Held(v)'
        <5>1. Above \in AnyPlace \ ({NoPlace} \cup {v})
          BY <2>2, FixedPlaces
        <5>2. TabsMove({Above}) /\ \A p \in {v} : ~Held(p)'
          BY <1>1, <4>1, <5>1, TabsRecovered
        <5> QED
          BY <5>2
      <4>3. DriveMoves
        BY <1>1, <1>2, <2>1, <4>1, AnswerIsRead
      <4>4. VolumesAreLeft'
        <5> SUFFICES ASSUME NEW p \in Volumes, Held(p)'
                     PROVE  (p \in kernel.mounted \cup unheard \/ Leaving(p))'
          BY DEF VolumesAreLeft
        <5>1. p # v /\ p # Above
          BY <4>2, FixedPlaces
        <5>2. Held(p)
          BY <4>2, <5>1 DEF TabsMove
        <5> QED
          BY <1>1, <2>1, <2>4, <4>1, <5>1, <5>2
      <4> QED
        BY <4>2, <4>3, <4>4, MoreMove DEF VolumePlaces
    <3>3. CASE ~(v \in Rows /\ RowMounted(v))
      <4>1. unheard' = (unheard \cup {v}) \ kernel.mounted /\ UNCHANGED tabVars
        BY <3>1, <3>3 DEF Unmounted
      <4>2. unheard' \subseteq Volumes
        BY <1>1, <2>2, <4>1
      <4>3. TabsMove({}) /\ TabsMove(VolumePlaces)
        BY <1>1, <4>1, TabsStay
      <4>4. VolumesAreLeft'
        BY <1>1, <2>1, <2>4, <4>1, <4>3 DEF VolumesAreLeft, TabsMove
      <4> QED
        BY <1>1, <1>2, <2>1, <4>2, <4>3, <4>4, AnswerIsRead
    <3> QED
      BY <3>2, <3>3
  <2>7. CASE ~(inbox[1].result = "ok" /\ inbox[1].kind \in {"Mount", "Unmount"})
    <3>1. /\ unheard' = unheard \cup (({v} \cap Volumes) \ kernel.mounted)
          /\ UNCHANGED tabVars
      BY <1>7, <2>2, <2>3, <2>7 DEF RepliedAndTold
    <3>2. unheard' \subseteq Volumes
      BY <1>1, <3>1
    <3>3. TabsMove({}) /\ TabsMove(VolumePlaces)
      BY <1>1, <3>1, TabsStay
    <3>4. VolumesAreLeft'
      BY <1>1, <2>1, <2>4, <3>1, <3>3 DEF VolumesAreLeft, TabsMove
    <3> QED
      BY <1>1, <1>2, <2>1, <3>2, <3>3, <3>4, AnswerIsRead
  <2> QED
    BY <2>5, <2>6, <2>7
<1>8. CASE Untold(Changed \/ onServiceRegistered \/ onServiceUnregistered \/ Listed)
  <2>1. /\ Changed \/ onServiceRegistered \/ onServiceUnregistered \/ Listed
        /\ UNCHANGED tabVars /\ unheard' = unheard \ kernel'.mounted
    BY <1>8 DEF Untold
  <2>2. /\ inbox # <<>> /\ inbox' = Tail(inbox) /\ kernel' = kernel /\ calls \subseteq calls'
        /\ Next1.kind # "Unmount"
    BY <2>1 DEF Changed, onServiceRegistered, onServiceUnregistered, Listed, refresh, udisksVars
  <2>3. inbox[1].kind # "Unmount"
    BY <1>1, <2>2, InboxRead DEF DriveRest
  <2>4. \A p : Leaving(p) => Leaving(p)'
    BY <1>1, <2>2, <2>3, LeavingIsRead
  <2>5. DriveMoves
    BY <1>1, <1>2, <2>1, ChangeIsRead, EndIsTaken, ListIsRead
  <2>6. TabsMove({}) /\ TabsMove(VolumePlaces)
    BY <1>1, <2>1, TabsStay
  <2>7. VolumesAreLeft'
    BY <1>1, <2>1, <2>2, <2>4, <2>6 DEF VolumesAreLeft, TabsMove
  <2> QED
    BY <2>5, <2>6, <2>7
<1>9. CASE Untold(Udisks)
  <2>1. Udisks /\ UNCHANGED tabVars /\ unheard' = unheard \ kernel'.mounted
        /\ unheard' \subseteq Volumes
    BY <1>1, <1>9 DEF Untold
  <2>2. \A p : Leaving(p) => Leaving(p)'
    BY <1>1, <1>2, <2>1, LeavingWhileUdisksWorks
  <2>3. \A p \in kernel.mounted : p \in kernel'.mounted \/ Leaving(p)
    BY <1>1, <1>2, <2>1, MountedWhileUdisksWorks
  <2>4. TabsMove({}) /\ TabsMove(VolumePlaces)
    BY <1>1, <2>1, TabsStay
  <2>5. VolumesAreLeft'
    BY <1>1, <2>1, <2>2, <2>3, <2>4 DEF VolumesAreLeft, TabsMove
  <2> QED
    BY <1>1, <1>2, <2>1, <2>4, <2>5, UdisksWorks
<1>10. CASE UnmountedElsewhere
  <2>1. Elsewhere /\ UNCHANGED tabVars /\ unheard' = (unheard \cup kernel.mounted) \ kernel'.mounted
        /\ unheard' \subseteq Volumes
    BY <1>1, <1>10 DEF UnmountedElsewhere
  <2>2. calls' = calls /\ inbox' = inbox
    BY <2>1 DEF Elsewhere
  <2>3. TabsMove({}) /\ TabsMove(VolumePlaces)
    BY <1>1, <2>1, TabsStay
  <2>4. VolumesAreLeft'
    BY <1>1, <2>1, <2>2, <2>3 DEF VolumesAreLeft, TabsMove, Leaving, Arrived
  <2> QED
    BY <1>1, <1>2, <2>1, <2>3, <2>4, OthersAct
<1> QED
  BY <1>3, <1>5, <1>6, <1>7, <1>8, <1>9, <1>10 DEF VolumesSteps

(* A step that is not the end of UDisks keeps the calls apart; after that   *)
(* one they are so again when all are settled.                              *)
LEMMA VolumeStep ==
    ASSUME VolumesInv, VolumesNext
    PROVE  DriveInv' /\ VolumesAreLeft' /\ TabsMove(VolumePlaces)
<1>1. DriveMoves /\ VolumesAreLeft' /\ TabsMove(VolumePlaces)
  BY VolumeMoves DEF VolumesNext
<1>2. unmarked' = (OwnCalls' # {} /\ (unmarked \/ onServiceUnregistered))
  BY DEF VolumesNext, NoteMarks
<1>3. ASSUME OwnCalls' = {}
      PROVE  CallsAreApart'
  <2>1. /\ \A c \in calls' : c.kind \notin Asked
        /\ \A i \in 1 .. Len(inbox') : inbox'[i].kind \notin Asked
    <3>1. inbox' \in Seq(Messages)
      BY <1>1 DEF DriveMoves, DriveRest, DriveTypeOK
    <3>2. \A i \in 1 .. Len(inbox') : inbox'[i] \in ToSet(inbox')
      BY <3>1 DEF ToSet
    <3> QED
      BY <1>3, <3>2 DEF OwnCalls, Asked
  <2> QED
    BY <2>1, ClashIsMutual
       DEF CallsAreApart, NothingClashes, MarksStand, Marked, PowerOffsAreAlone, Asked, Mounting, Arrived
<1>4. ASSUME ~unmarked, ~onServiceUnregistered
      PROVE  CallsAreApart'
  BY <1>1, <1>4 DEF VolumesInv, DriveInv, DriveMoves
<1>5. unmarked' \in BOOLEAN /\ (unmarked' \/ CallsAreApart')
  BY <1>2, <1>3, <1>4
<1> QED
  BY <1>1, <1>5 DEF DriveInv, DriveMoves

-----------------------------------------------------------------------------
(* Powering off.                                                            *)

(* What lies on a drive as the kernel has it does so for who knows more.    *)
LEMMA ChainsAreKnown ==
    ASSUME NEW few, NEW many, few.present \subseteq many.present, NEW b, NEW drives,
           belongsToAffectedDrive(few, b, drives)
    PROVE  belongsToAffectedDrive(many, b, drives)
<1>1. BackingChain(few, b) \subseteq BackingChain(many, b)
  BY DEF BackingChain
<1> QED
  BY <1>1 DEF belongsToAffectedDrive

(* The step of PowerOffIsAlone.                                             *)
PowersOffAlone ==
    \A p \in calls' : p.kind = "PowerOff" =>
      /\ unmarked' \/ \A m \in calls' :
           m.kind \in {"Mount", "Unmount"} => Drive[m.object] \notin p.drives
      /\ p \notin calls /\ p.result = "none" => \A w \in objects.mounted : ~On(w, p.drives)

LEMMA PowerOffAllowedByAll ==
    ASSUME DriveRest, NEW v \in Volumes, powerOff(v), NEW p \in calls' \ calls
    PROVE  \A w \in objects.mounted : ~On(w, p.drives)
<1>1. PICK drives : drives = AffectedDrives(objects, Drive[v])
  OBVIOUS
<1>2. p = Call(events', "PowerOff", v, drives)
  BY <1>1 DEF powerOff
<1>3. p.drives = drives
  BY <1>2 DEF Call
<1>4. \A w \in objects.mounted : ~belongsToAffectedDrive(objects, w, drives)
  BY <1>1 DEF powerOff, PowerOffAllowed
<1>5. objects # None
  BY DEF powerOff, Rows, None
<1>6. kernel.present \subseteq objects.present
  BY <1>5 DEF DriveRest, NothingIsNew
<1> QED
  BY <1>3, <1>4, <1>6, ChainsAreKnown DEF On

LEMMA PowerOffStep ==
    ASSUME VolumesInv, VolumesNext
    PROVE  PowersOffAlone
<1>1. unmarked' \/ PowerOffsAreAlone'
  BY VolumeStep DEF DriveInv, CallsAreApart
<1>2. DriveRest /\ OthersOK'
  BY VolumeStep DEF VolumesInv, DriveInv, DriveRest, DriveTypeOK
<1> SUFFICES ASSUME NEW p \in calls' \ calls, p.kind = "PowerOff", p.result = "none"
             PROVE  \A w \in objects.mounted : ~On(w, p.drives)
  BY <1>1 DEF PowersOffAlone, PowerOffsAreAlone, Mounting
<1>3. \E v \in Volumes : powerOff(v)
  <2>1. p # ListCall
    BY MessageKinds
  <2>2. \A v \in Volumes : ~mount(v) /\ ~unmount(v)
    BY DEF mount, unmount, SetBusyAndCall, Call
  <2>3. ~Replied /\ ~Changed /\ ~onServiceRegistered /\ ~onServiceUnregistered /\ ~Listed
    BY <2>1 DEF Replied, Changed, onServiceRegistered, onServiceUnregistered, Listed, refresh
  <2>4. ~Udisks
    <3>1. ASSUME NEW c \in calls, Perform(c)
          PROVE  FALSE
      <4>1. c \in Works
        BY <1>2, <3>1, WorkIsDone
      <4>2. PICK result \in {"ok", "error"} : calls' = (calls \ {c}) \cup {[c EXCEPT !.result = result]}
        BY <3>1 DEF Perform
      <4>3. p = [c EXCEPT !.result = result]
        BY <4>2
      <4> QED
        BY <4>1, <4>3 DEF Works
    <3>2. ASSUME NEW c \in calls, Answer(c)
          PROVE  FALSE
      BY <3>2 DEF Answer
    <3> QED
      BY <3>1, <3>2 DEF Udisks, Export, ServiceStops, ServiceStarts
  <2>5. ~Elsewhere /\ ~ArrangeTabs /\ \A q : ~Navigate(q)
    BY DEF Elsewhere, ArrangeTabs, Navigate
  <2> QED
    BY <2>2, <2>3, <2>4, <2>5
       DEF VolumesNext, VolumesSteps, RepliedAndTold, Untold, UnmountedElsewhere
<1> QED
  BY <1>2, <1>3, PowerOffAllowedByAll

-----------------------------------------------------------------------------
Note(kind, r) == [kind |-> kind, root |-> r]
Signals == [kind : {"added", "removed"}, root : Roots]

Announced(r) == \E i \in 1 .. Len(signals) : signals[i] = Note("added", r)

Connections == [root : Roots, cancelled : BOOLEAN]
Disconnections == [root : Roots, cancelled : BOOLEAN, done : BOOLEAN]

(* At most one connection and one disconnection are under way.              *)
NetTypeOK ==
    /\ real \in [Roots -> Nat] /\ mounts \in [Roots -> Nat]
    /\ signals \in Seq(Signals) /\ queue \in Seq(Roots \cup {"rebuild"})
    /\ items \subseteq Roots /\ refreshScheduled \in BOOLEAN
    /\ connecting = <<>> \/ \E c \in Connections : connecting = <<c>>
    /\ disconnecting = <<>> \/ \E d \in Disconnections : disconnecting = <<d>>

(* What the monitor will have told after i of the signals: at last what is  *)
(* there, and never fewer mounts than none.                                 *)
Tells(told) ==
    /\ told \in [0 .. Len(signals) -> [Roots -> Nat]]
    /\ told[0] = mounts /\ told[Len(signals)] = real
    /\ \A i \in 1 .. Len(signals) : \A r \in Roots :
         told[i][r] = CASE signals[i] = Note("added", r) -> told[i - 1][r] + 1
                        [] signals[i] = Note("removed", r) -> told[i - 1][r] - 1
                        [] OTHER -> told[i - 1][r]
    /\ \A i \in 0 .. Len(signals) : \A r \in Roots :
         real[r] > told[i][r] => \E j \in i + 1 .. Len(signals) : signals[j] = Note("added", r)

InQueue(m) == \E i \in 1 .. Len(queue) : queue[i] = m

(* The list of shares is what the monitor told of, or will be rebuilt, and  *)
(* whoever is in a share that is gone will be led out of it by a call in    *)
(* the queue.                                                               *)
SharesAreLeft ==
    /\ refreshScheduled => InQueue("rebuild")
    /\ queue = <<>> => items = Known
    /\ \A r \in items : r \in Known \/ InQueue(r)
    /\ \A r \in Roots : Held(r) => r \in Known \/ InQueue(r) \/ Announced(r)

NetInv ==
    /\ NetTypeOK /\ (\E told : Tells(told)) /\ SharesAreLeft
    /\ EveryQuestionIsOnTheScreen

-----------------------------------------------------------------------------
(* A mount comes or goes.                                                   *)
LEMMA SignalIsSent ==
    ASSUME NetTypeOK, \E told : Tells(told), NEW r \in Roots, UNCHANGED mounts,
           Made(r) \/ (real[r] > 0 /\ Lost(r))
    PROVE  /\ real' \in [Roots -> Nat] /\ signals' \in Seq(Signals)
           /\ \E told : Tells(told)'
           /\ \A p : Announced(p) => Announced(p)'
<1>1. PICK told : Tells(told)
  OBVIOUS
<1>2. PICK s \in Signals :
        /\ signals' = Append(signals, s)
        /\ \/ s = Note("added", r) /\ real' = [real EXCEPT ![r] = @ + 1]
           \/ s = Note("removed", r) /\ real' = [real EXCEPT ![r] = @ - 1] /\ real[r] > 0
  BY DEF Made, Lost, Signals, Note
<1>3. /\ signals \in Seq(Signals) /\ Len(signals) \in Nat
      /\ signals' \in Seq(Signals) /\ Len(signals') = Len(signals) + 1
      /\ \A i \in 1 .. Len(signals) : signals'[i] = signals[i]
      /\ signals'[Len(signals) + 1] = s
  BY <1>2, AppendProperties DEF NetTypeOK
<1>4. real' \in [Roots -> Nat]
  BY <1>2 DEF NetTypeOK
<1>5. /\ Note("added", r) # Note("removed", r)
      /\ \A p, q \in Roots : p # q => /\ Note("added", p) # Note("added", q)
                                      /\ Note("removed", p) # Note("removed", q)
      /\ \A p, q \in Roots : Note("added", p) # Note("removed", q)
  BY DEF Note
<1>6. PICK then : then = [i \in 0 .. Len(signals) + 1 |-> IF i <= Len(signals) THEN told[i] ELSE real']
  OBVIOUS
<1>7. /\ told \in [0 .. Len(signals) -> [Roots -> Nat]]
      /\ told[0] = mounts /\ told[Len(signals)] = real
  BY <1>1 DEF Tells
<1>8. /\ then \in [0 .. Len(signals) + 1 -> [Roots -> Nat]]
      /\ then[Len(signals) + 1] = real'
      /\ \A i \in 0 .. Len(signals) : then[i] = told[i]
  BY <1>3, <1>4, <1>6, <1>7
<1>9. ASSUME NEW i \in 1 .. Len(signals) + 1, NEW p \in Roots
      PROVE  then[i][p] = CASE signals'[i] = Note("added", p) -> then[i - 1][p] + 1
                            [] signals'[i] = Note("removed", p) -> then[i - 1][p] - 1
                            [] OTHER -> then[i - 1][p]
  <2>1. CASE i \in 1 .. Len(signals)
    <3>1. i \in 0 .. Len(signals) /\ i - 1 \in 0 .. Len(signals) /\ signals'[i] = signals[i]
      BY <1>3, <2>1
    <3>2. told[i][p] = CASE signals[i] = Note("added", p) -> told[i - 1][p] + 1
                         [] signals[i] = Note("removed", p) -> told[i - 1][p] - 1
                         [] OTHER -> told[i - 1][p]
      BY <1>1, <2>1 DEF Tells
    <3> QED
      BY <1>8, <3>1, <3>2
  <2>2. CASE i = Len(signals) + 1
    <3>1. then[i] = real' /\ then[i - 1] = real /\ signals'[i] = s
      BY <1>3, <1>7, <1>8, <2>2
    <3>2. CASE p = r
      BY <1>2, <1>5, <3>1, <3>2 DEF NetTypeOK
    <3>3. CASE p # r
      BY <1>2, <1>5, <3>1, <3>3 DEF NetTypeOK
    <3> QED
      BY <3>2, <3>3
  <2> QED
    BY <1>3, <2>1, <2>2
<1>10. ASSUME NEW i \in 0 .. Len(signals) + 1, NEW p \in Roots, real'[p] > then[i][p]
       PROVE  \E j \in i + 1 .. Len(signals) + 1 : signals'[j] = Note("added", p)
  <2>1. real[p] \in Nat /\ real'[p] \in Nat
    BY <1>4 DEF NetTypeOK
  <2>2. i \in 0 .. Len(signals) /\ then[i] = told[i]
    BY <1>3, <1>8, <1>10, <2>1
  <2>3. told[i][p] \in Nat
    BY <1>7, <2>2
  <2>4. CASE real[p] > told[i][p]
    <3>1. PICK j \in i + 1 .. Len(signals) : signals[j] = Note("added", p)
      BY <1>1, <2>2, <2>4 DEF Tells
    <3>2. j \in i + 1 .. Len(signals) + 1 /\ signals'[j] = signals[j]
      BY <1>3, <2>2, <3>1
    <3> QED
      BY <3>1, <3>2
  <2>5. CASE ~(real[p] > told[i][p])
    <3>1. real'[p] > real[p]
      BY <1>10, <2>1, <2>2, <2>3, <2>5
    <3>2. p = r /\ s = Note("added", r)
      BY <1>2, <2>1, <3>1 DEF NetTypeOK
    <3>3. Len(signals) + 1 \in i + 1 .. Len(signals) + 1
      BY <1>3, <2>2
    <3> QED
      BY <1>3, <3>2, <3>3
  <2> QED
    BY <2>4, <2>5
<1>11. then[0] = mounts'
  BY <1>3, <1>7, <1>8
<1>12. Tells(then)'
  BY <1>3, <1>8, <1>9, <1>10, <1>11 DEF Tells
<1>13. \A p : Announced(p) => Announced(p)'
  <2>1. \A i \in 1 .. Len(signals) : i \in 1 .. Len(signals')
    BY <1>3
  <2> QED
    BY <1>3, <2>1 DEF Announced
<1> QED
  BY <1>3, <1>4, <1>12, <1>13

(* The monitor tells of it.                                                 *)
LEMMA SignalIsRead ==
    ASSUME NetTypeOK, \E told : Tells(told), signals # <<>>, signals' = Tail(signals), UNCHANGED real,
           \/ /\ Head(signals).kind = "added"
              /\ mounts' = [mounts EXCEPT ![Head(signals).root] = @ + 1]
           \/ /\ Head(signals).kind = "removed"
              /\ mounts' = [mounts EXCEPT ![Head(signals).root] = @ - 1]
    PROVE  /\ mounts' \in [Roots -> Nat] /\ signals' \in Seq(Signals)
           /\ \E told : Tells(told)'
           /\ Head(signals).root \in Roots
           /\ \A p \in Roots : Announced(p) => \/ Announced(p)'
                                               \/ Head(signals).kind = "added" /\ p = Head(signals).root
<1>1. PICK told : Tells(told)
  OBVIOUS
<1>2. /\ signals \in Seq(Signals) /\ Len(signals) \in Nat /\ Len(signals) >= 1
      /\ Head(signals) = signals[1] /\ signals[1] \in Signals
      /\ signals' \in Seq(Signals) /\ Len(signals') = Len(signals) - 1
      /\ \A i \in 1 .. Len(signals) - 1 : signals'[i] = signals[i + 1]
  <2>1. signals \in Seq(Signals)
    BY DEF NetTypeOK
  <2>2. Len(signals) \in Nat /\ Len(signals) >= 1
    BY <2>1, EmptySeq
  <2> QED
    BY <2>1, <2>2, HeadTailProperties, ElementOfSeq
<1>3. PICK r \in Roots : r = signals[1].root
  BY <1>2 DEF Signals
<1>4. \/ signals[1] = Note("added", r) /\ mounts' = [mounts EXCEPT ![r] = @ + 1]
      \/ signals[1] = Note("removed", r) /\ mounts' = [mounts EXCEPT ![r] = @ - 1]
  BY <1>2, <1>3 DEF Signals, Note
<1>5. /\ \A p, q \in Roots : p # q => /\ Note("added", p) # Note("added", q)
                                      /\ Note("removed", p) # Note("removed", q)
      /\ \A p, q \in Roots : Note("added", p) # Note("removed", q)
      /\ \A p : Note("added", p).kind = "added" /\ Note("added", p).root = p
  BY DEF Note
<1>6. /\ told \in [0 .. Len(signals) -> [Roots -> Nat]]
      /\ told[0] = mounts /\ told[Len(signals)] = real
  BY <1>1 DEF Tells
<1>7. 1 \in 0 .. Len(signals) /\ 1 \in 1 .. Len(signals) /\ 0 \in 0 .. Len(signals)
  BY <1>2
<1>8. mounts' = told[1]
  <2>1. \A p \in Roots :
          told[1][p] = CASE signals[1] = Note("added", p) -> mounts[p] + 1
                         [] signals[1] = Note("removed", p) -> mounts[p] - 1
                         [] OTHER -> mounts[p]
    <3> TAKE p \in Roots
    <3>1. told[1][p] = CASE signals[1] = Note("added", p) -> told[1 - 1][p] + 1
                         [] signals[1] = Note("removed", p) -> told[1 - 1][p] - 1
                         [] OTHER -> told[1 - 1][p]
      <4>1. \A i \in 1 .. Len(signals) : \A q \in Roots :
              told[i][q] = CASE signals[i] = Note("added", q) -> told[i - 1][q] + 1
                             [] signals[i] = Note("removed", q) -> told[i - 1][q] - 1
                             [] OTHER -> told[i - 1][q]
        BY <1>1 DEF Tells
      <4> QED
        BY <1>7, <4>1
    <3>2. 1 - 1 = 0
      OBVIOUS
    <3> QED
      BY <1>6, <3>1, <3>2
  <2>2. told[1] \in [Roots -> Nat] /\ mounts \in [Roots -> Nat]
    BY <1>6, <1>7 DEF NetTypeOK
  <2>3. \A p \in Roots : mounts'[p] = told[1][p]
    BY <1>4, <1>5, <2>1, <2>2
  <2>4. mounts' = [p \in Roots |-> mounts'[p]] /\ told[1] = [p \in Roots |-> told[1][p]]
    BY <1>4, <2>2
  <2> QED
    BY <2>3, <2>4
<1>9. PICK then : then = [i \in 0 .. Len(signals) - 1 |-> told[i + 1]]
  OBVIOUS
<1>10. \A i \in 0 .. Len(signals) - 1 : i + 1 \in 0 .. Len(signals) /\ then[i] = told[i + 1]
  BY <1>2, <1>9
<1>11. then \in [0 .. Len(signals') -> [Roots -> Nat]]
  BY <1>2, <1>6, <1>9, <1>10
<1>12. then[0] = mounts' /\ then[Len(signals')] = real'
  BY <1>2, <1>6, <1>8, <1>10
<1>13. ASSUME NEW i \in 1 .. Len(signals'), NEW p \in Roots
       PROVE  then[i][p] = CASE signals'[i] = Note("added", p) -> then[i - 1][p] + 1
                             [] signals'[i] = Note("removed", p) -> then[i - 1][p] - 1
                             [] OTHER -> then[i - 1][p]
  <2>1. /\ i \in 0 .. Len(signals) - 1 /\ i - 1 \in 0 .. Len(signals) - 1
        /\ i + 1 \in 1 .. Len(signals) /\ (i + 1) - 1 = i /\ (i - 1) + 1 = i
        /\ signals'[i] = signals[i + 1]
    BY <1>2
  <2>2. told[i + 1][p] = CASE signals[i + 1] = Note("added", p) -> told[(i + 1) - 1][p] + 1
                           [] signals[i + 1] = Note("removed", p) -> told[(i + 1) - 1][p] - 1
                           [] OTHER -> told[(i + 1) - 1][p]
    BY <1>1, <2>1 DEF Tells
  <2>3. then[i] = told[i + 1] /\ then[i - 1] = told[i]
    BY <1>10, <2>1
  <2> QED
    BY <2>1, <2>2, <2>3
<1>14. ASSUME NEW i \in 0 .. Len(signals'), NEW p \in Roots, real'[p] > then[i][p]
       PROVE  \E j \in i + 1 .. Len(signals') : signals'[j] = Note("added", p)
  <2>1. i + 1 \in 0 .. Len(signals) /\ real[p] > told[i + 1][p]
    BY <1>2, <1>10, <1>14
  <2>2. PICK j \in (i + 1) + 1 .. Len(signals) : signals[j] = Note("added", p)
    BY <1>1, <2>1 DEF Tells
  <2>3. j - 1 \in i + 1 .. Len(signals') /\ j - 1 \in 1 .. Len(signals) - 1 /\ (j - 1) + 1 = j
    BY <1>2, <2>1, <2>2
  <2> QED
    BY <1>2, <2>2, <2>3
<1>15. Tells(then)'
  BY <1>11, <1>12, <1>13, <1>14 DEF Tells
<1>16. ASSUME NEW p \in Roots, Announced(p)
       PROVE  Announced(p)' \/ (Head(signals).kind = "added" /\ p = Head(signals).root)
  <2>1. PICK j \in 1 .. Len(signals) : signals[j] = Note("added", p)
    BY <1>16 DEF Announced
  <2>2. CASE j = 1
    BY <1>2, <1>5, <2>1, <2>2
  <2>3. CASE j # 1
    <3>1. j - 1 \in 1 .. Len(signals') /\ j - 1 \in 1 .. Len(signals) - 1 /\ (j - 1) + 1 = j
      BY <1>2, <2>3
    <3>2. signals'[j - 1] = Note("added", p)
      BY <1>2, <2>1, <3>1
    <3> QED
      BY <3>1, <3>2 DEF Announced
  <2> QED
    BY <2>2, <2>3
<1>17. mounts' \in [Roots -> Nat]
  BY <1>6, <1>7, <1>8
<1> QED
  BY <1>2, <1>3, <1>15, <1>16, <1>17

LEMMA WhatIsThereIsToldOf ==
    ASSUME NetTypeOK, \E told : Tells(told), NEW r \in Roots, real[r] > 0
    PROVE  r \in Known \/ Announced(r)
<1>1. PICK told : Tells(told)
  OBVIOUS
<1>2. Len(signals) \in Nat /\ mounts[r] \in Nat /\ told[0] = mounts
  BY <1>1 DEF Tells, NetTypeOK
<1>3. CASE mounts[r] > 0
  BY <1>3 DEF Known
<1>4. CASE mounts[r] = 0
  <2>1. 0 \in 0 .. Len(signals) /\ real[r] > told[0][r]
    BY <1>2, <1>4
  <2>2. \E j \in 0 + 1 .. Len(signals) : signals[j] = Note("added", r)
    BY <1>1, <2>1 DEF Tells
  <2> QED
    BY <1>2, <2>2 DEF Announced
<1> QED
  BY <1>2, <1>3, <1>4

(* scheduleRefresh, and what is queued stays queued.                        *)
LEMMA RefreshIsQueued ==
    ASSUME NetTypeOK, SharesAreLeft, scheduleLocationRefresh
    PROVE  /\ refreshScheduled' = TRUE /\ UNCHANGED items
           /\ queue' \in Seq(Roots \cup {"rebuild"}) /\ queue' # <<>> /\ InQueue("rebuild")'
           /\ \A m : InQueue(m) => InQueue(m)'
<1>1. queue \in Seq(Roots \cup {"rebuild"}) /\ Len(queue) \in Nat
  BY DEF NetTypeOK
<1>2. refreshScheduled' = TRUE /\ UNCHANGED items
  BY DEF scheduleLocationRefresh
<1>3. CASE refreshScheduled
  <2>1. queue' = queue /\ InQueue("rebuild")
    BY <1>3 DEF scheduleLocationRefresh, SharesAreLeft
  <2>2. queue # <<>>
    BY <1>1, <2>1 DEF InQueue
  <2> QED
    BY <1>1, <1>2, <2>1, <2>2 DEF InQueue
<1>4. CASE ~refreshScheduled
  <2>1. queue' = Append(queue, "rebuild")
    BY <1>4 DEF scheduleLocationRefresh
  <2>2. /\ queue' \in Seq(Roots \cup {"rebuild"}) /\ Len(queue') = Len(queue) + 1
        /\ \A i \in 1 .. Len(queue) : queue'[i] = queue[i] /\ i \in 1 .. Len(queue')
        /\ queue'[Len(queue) + 1] = "rebuild" /\ Len(queue) + 1 \in 1 .. Len(queue')
    BY <1>1, <2>1, AppendProperties
  <2>3. queue' # <<>>
    BY <1>1, <2>2
  <2> QED
    BY <1>2, <2>2, <2>3 DEF InQueue
<1> QED
  BY <1>3, <1>4

LEMMA QueueRead ==
    ASSUME NetTypeOK, queue # <<>>, queue' = Tail(queue)
    PROVE  /\ queue' \in Seq(Roots \cup {"rebuild"}) /\ Head(queue) \in Roots \cup {"rebuild"}
           /\ \A m : InQueue(m) => InQueue(m)' \/ m = Head(queue)
<1>1. /\ queue \in Seq(Roots \cup {"rebuild"}) /\ Len(queue) \in Nat /\ Len(queue) >= 1
      /\ Head(queue) = queue[1] /\ queue[1] \in Roots \cup {"rebuild"}
      /\ queue' \in Seq(Roots \cup {"rebuild"}) /\ Len(queue') = Len(queue) - 1
      /\ \A i \in 1 .. Len(queue) - 1 : queue'[i] = queue[i + 1]
  <2>1. queue \in Seq(Roots \cup {"rebuild"})
    BY DEF NetTypeOK
  <2>2. Len(queue) \in Nat /\ Len(queue) >= 1
    BY <2>1, EmptySeq
  <2> QED
    BY <2>1, <2>2, HeadTailProperties, ElementOfSeq
<1>2. ASSUME NEW m, InQueue(m), m # Head(queue)
      PROVE  InQueue(m)'
  <2>1. PICK i \in 1 .. Len(queue) : queue[i] = m
    BY <1>2 DEF InQueue
  <2>2. i # 1
    BY <1>1, <1>2, <2>1
  <2>3. i - 1 \in 1 .. Len(queue') /\ i - 1 \in 1 .. Len(queue) - 1 /\ (i - 1) + 1 = i
    BY <1>1, <2>2
  <2> QED
    BY <1>1, <2>1, <2>3 DEF InQueue
<1> QED
  BY <1>1, <1>2

(* Nothing is taken from the list, from the queue or from what was told.    *)
LEMMA SharesStayLeft ==
    ASSUME SharesAreLeft, NEW places, TabsMove(places), UNCHANGED <<items, mounts>>,
           \A m : InQueue(m) => InQueue(m)', refreshScheduled' => InQueue("rebuild")',
           queue' = <<>> => queue = <<>>, \A r \in Roots : Announced(r) => Announced(r)',
           \A r \in places \cap Roots : r \in Known \/ InQueue(r)' \/ Announced(r)'
    PROVE  SharesAreLeft'
<1>1. Known' = Known /\ items' = items
  BY DEF Known
<1>2. \A r \in Roots : Held(r)' => Held(r) \/ r \in places
  BY DEF TabsMove
<1>3. \A r \in Roots : (Held(r) => r \in Known \/ InQueue(r) \/ Announced(r))
  BY DEF SharesAreLeft
<1>4. \A r \in Roots : (Held(r) => r \in Known \/ InQueue(r) \/ Announced(r))'
  BY <1>1, <1>2, <1>3
<1>5. \A r \in items : r \in Known \/ InQueue(r)
  BY DEF SharesAreLeft
<1>6. (\A r \in items : r \in Known \/ InQueue(r))'
  BY <1>1, <1>5
<1>7. (queue = <<>> => items = Known)'
  BY <1>1 DEF SharesAreLeft
<1> QED
  BY <1>4, <1>6, <1>7 DEF SharesAreLeft

NetworkPlaces == Roots \cup {Home, NoPlace}

LEMMA NetworkStep ==
    ASSUME NetInv, TabsOK, NetworkNext
    PROVE  NetInv' /\ TabsMove(NetworkPlaces)
<1>1. /\ NetTypeOK /\ (\E told : Tells(told)) /\ SharesAreLeft /\ EveryQuestionIsOnTheScreen
      /\ {Home, NoPlace, "rebuild"} \cap Roots = {}
  BY RootsAssumption DEF NetInv
<1>2. /\ real \in [Roots -> Nat] /\ mounts \in [Roots -> Nat]
      /\ signals \in Seq(Signals) /\ queue \in Seq(Roots \cup {"rebuild"})
      /\ items \subseteq Roots /\ refreshScheduled \in BOOLEAN
      /\ connecting = <<>> \/ \E c \in Connections : connecting = <<c>>
      /\ disconnecting = <<>> \/ \E d \in Disconnections : disconnecting = <<d>>
  BY <1>1 DEF NetTypeOK
<1>3. \A p \in NetworkPlaces \ {NoPlace} : p \in AnyPlace \ {NoPlace}
  BY DEF NetworkPlaces, AnyPlace
(* The mounts and signals as they were.                                     *)
<1>4. ASSUME UNCHANGED mountVars
      PROVE  /\ UNCHANGED <<real, mounts, signals>> /\ \E told : Tells(told)'
             /\ \A r : Announced(r)' <=> Announced(r)
  <2>1. UNCHANGED <<real, mounts, signals>>
    BY <1>4 DEF mountVars
  <2>2. PICK told : Tells(told)
    BY <1>1
  <2>3. Tells(told)'
    BY <2>1, <2>2 DEF Tells
  <2> QED
    BY <2>1, <2>3 DEF Announced
(* The list and its queue as they were, or to be made again.                *)
<1>5. ASSUME UNCHANGED locationVars \/ scheduleLocationRefresh
      PROVE  /\ items' = items /\ queue' \in Seq(Roots \cup {"rebuild"})
             /\ refreshScheduled' \in BOOLEAN
             /\ refreshScheduled' => InQueue("rebuild")'
             /\ queue' = <<>> => queue = <<>>
             /\ \A m : InQueue(m) => InQueue(m)'
  <2>1. CASE UNCHANGED locationVars
    BY <1>1, <1>2, <2>1 DEF locationVars, SharesAreLeft, InQueue
  <2>2. CASE scheduleLocationRefresh
    BY <1>1, <1>2, <2>2, RefreshIsQueued
  <2> QED
    BY <1>5, <2>1, <2>2
(* A step that leaves the mounts alone and says where the tabs may go.      *)
<1>6. ASSUME UNCHANGED mountVars, UNCHANGED locationVars \/ scheduleLocationRefresh,
             connecting' = <<>> \/ \E c \in Connections : connecting' = <<c>>,
             disconnecting' = <<>> \/ \E d \in Disconnections : disconnecting' = <<d>>,
             EveryQuestionIsOnTheScreen',
             NEW places, places \subseteq NetworkPlaces, TabsMove(places),
             \A r \in places \cap Roots : r \in Known \/ InQueue(r) \/ Announced(r)
      PROVE  NetInv' /\ TabsMove(NetworkPlaces)
  <2>1. NetTypeOK'
    BY <1>2, <1>4, <1>5, <1>6 DEF NetTypeOK
  <2>2. SharesAreLeft'
    BY <1>1, <1>4, <1>5, <1>6, SharesStayLeft
  <2> QED
    BY <1>4, <1>6, <2>1, <2>2, MoreMove DEF NetInv
<1>7. ASSUME UNCHANGED tabVars, NEW places
      PROVE  TabsMove(places)
  BY <1>7, TabsStay
<1>8. ASSUME UNCHANGED <<mountVars, locationVars, disconnecting, tabVars>>,
             connecting' = <<>> \/ \E c \in Connections : connecting' = <<c>>,
             EveryQuestionIsOnTheScreen'
      PROVE  NetInv' /\ TabsMove(NetworkPlaces)
  <2>1. TabsMove({}) /\ {} \subseteq NetworkPlaces /\ disconnecting' = disconnecting
    BY <1>7, <1>8
  <2> QED
    BY <1>2, <1>6, <1>8, <2>1
<1>9. ASSUME UNCHANGED connectVars
      PROVE  /\ connecting' = <<>> \/ \E c \in Connections : connecting' = <<c>>
             /\ EveryQuestionIsOnTheScreen'
  BY <1>1, <1>2, <1>9 DEF connectVars, EveryQuestionIsOnTheScreen
(* NetworkConnectionController.                                             *)
<1>10. ASSUME NEW r \in Roots, connectTo(r)
       PROVE  NetInv' /\ TabsMove(NetworkPlaces)
  <2>1. UNCHANGED <<mountVars, locationVars, disconnecting, tabVars>>
    BY <1>10 DEF connectTo
  <2>2. connecting' = <<>> \/ \E c \in Connections : connecting' = <<c>>
    BY <1>2, <1>10 DEF connectTo, Connections
  <2>3. EveryQuestionIsOnTheScreen'
    BY <1>1, <1>10 DEF connectTo, EveryQuestionIsOnTheScreen
  <2> QED
    BY <1>8, <2>1, <2>2, <2>3
<1>11. ASSUME NEW kind \in Prompts, Ask(kind) \/ Submit(kind)
       PROVE  NetInv' /\ TabsMove(NetworkPlaces)
  <2>1. UNCHANGED <<mountVars, locationVars, connecting, disconnecting, tabVars>>
    BY <1>11 DEF Ask, Submit
  <2>2. EveryQuestionIsOnTheScreen'
    BY <1>11 DEF Ask, Submit, EveryQuestionIsOnTheScreen
  <2> QED
    BY <1>2, <1>8, <2>1, <2>2
<1>12. CASE Aborted
  <2>1. UNCHANGED <<mountVars, locationVars, connecting, disconnecting, tabVars>>
    BY <1>12 DEF Aborted
  <2>2. EveryQuestionIsOnTheScreen'
    BY <1>12 DEF Aborted, EveryQuestionIsOnTheScreen
  <2> QED
    BY <1>2, <1>8, <2>1, <2>2
<1>13. CASE CancelConnection
  <2>1. UNCHANGED <<mountVars, locationVars, disconnecting, tabVars>>
    BY <1>13 DEF CancelConnection
  <2>2. \E c \in Connections : connecting' = <<c>>
    <3>1. PICK c \in Connections : connecting = <<c>>
      BY <1>2, <1>13 DEF CancelConnection
    <3>2. connecting' = <<[c EXCEPT !.cancelled = TRUE]>>
      BY <1>13, <3>1 DEF CancelConnection
    <3>3. [c EXCEPT !.cancelled = TRUE] \in Connections
      BY DEF Connections
    <3> QED
      BY <3>2, <3>3
  <2>3. EveryQuestionIsOnTheScreen'
    BY <1>1, <1>13 DEF CancelConnection, EveryQuestionIsOnTheScreen
  <2> QED
    BY <1>8, <2>1, <2>2, <2>3
<1>14. CASE ConnectionFinished
  <2>1. /\ UNCHANGED <<mountVars, disconnecting, currentIndex, closedTabs>>
        /\ connecting' = <<>> /\ connecting # <<>> /\ awaiting' = "none" /\ asking' = "none"
    BY <1>14 DEF ConnectionFinished
  <2>2. EveryQuestionIsOnTheScreen'
    BY <2>1 DEF EveryQuestionIsOnTheScreen
  <2>3. PICK c \in Connections : connecting = <<c>>
    BY <1>2, <2>1
  <2>4. \/ real[c.root] > 0 /\ scheduleLocationRefresh /\ tabs' = Navigated(c.root)
        \/ UNCHANGED locationVars /\ tabs' = tabs
    BY <1>14, <2>3 DEF ConnectionFinished
  <2>5. CASE real[c.root] > 0 /\ scheduleLocationRefresh /\ tabs' = Navigated(c.root)
    <3>1. c.root \in Roots
      BY DEF Connections
    <3>2. c.root \in Known \/ Announced(c.root)
      BY <1>1, <2>5, <3>1, WhatIsThereIsToldOf
    <3>3. TabsMove({c.root}) /\ {c.root} \subseteq NetworkPlaces
      BY <1>1, <1>3, <2>1, <2>5, <3>1, TabNavigates DEF NetworkPlaces
    <3> QED
      BY <1>2, <1>6, <2>1, <2>2, <2>5, <3>2, <3>3
  <2>6. CASE UNCHANGED locationVars /\ tabs' = tabs
    BY <1>2, <1>8, <2>1, <2>2, <2>6 DEF tabVars
  <2> QED
    BY <2>4, <2>5, <2>6
(* NetworkDisconnectController.                                             *)
<1>15. ASSUME NEW r \in Roots, disconnectFrom(r)
       PROVE  NetInv' /\ TabsMove(NetworkPlaces)
  <2>1. UNCHANGED <<mountVars, locationVars, connectVars, tabVars>>
    BY <1>15 DEF disconnectFrom
  <2>2. \E d \in Disconnections : disconnecting' = <<d>>
    BY <1>15 DEF disconnectFrom, Disconnections
  <2>3. TabsMove({}) /\ {} \subseteq NetworkPlaces
    BY <1>7, <2>1
  <2> QED
    BY <1>6, <1>9, <2>1, <2>2, <2>3
<1>16. CASE CancelDisconnection
  <2>1. UNCHANGED <<mountVars, locationVars, connectVars, tabVars>>
    BY <1>16 DEF CancelDisconnection
  <2>2. \E d \in Disconnections : disconnecting' = <<d>>
    <3>1. PICK d \in Disconnections : disconnecting = <<d>>
      BY <1>2, <1>16 DEF CancelDisconnection
    <3>2. disconnecting' = <<[d EXCEPT !.cancelled = TRUE]>>
      BY <1>16, <3>1 DEF CancelDisconnection
    <3>3. [d EXCEPT !.cancelled = TRUE] \in Disconnections
      BY DEF Disconnections
    <3> QED
      BY <3>2, <3>3
  <2>3. TabsMove({}) /\ {} \subseteq NetworkPlaces
    BY <1>7, <2>1
  <2> QED
    BY <1>6, <1>9, <2>1, <2>2, <2>3
<1>17. CASE DisconnectionFinished
  <2>1. /\ UNCHANGED <<mountVars, connectVars, tabVars>> /\ disconnecting' = <<>>
        /\ UNCHANGED locationVars \/ scheduleLocationRefresh
    BY <1>17 DEF DisconnectionFinished
  <2>2. TabsMove({}) /\ {} \subseteq NetworkPlaces
    BY <1>7, <2>1
  <2> QED
    BY <1>6, <1>9, <2>1, <2>2
(* Mounts come and go.                                                      *)
<1>18. ASSUME NEW r \in Roots, Made(r) \/ (real[r] > 0 /\ Lost(r)),
              UNCHANGED <<mounts, locationVars, connectVars, tabVars>>,
              disconnecting' = <<>> \/ \E d \in Disconnections : disconnecting' = <<d>>
       PROVE  NetInv' /\ TabsMove(NetworkPlaces)
  <2>1. /\ real' \in [Roots -> Nat] /\ signals' \in Seq(Signals)
        /\ \E told : Tells(told)'
        /\ \A p : Announced(p) => Announced(p)'
    BY <1>1, <1>18, SignalIsSent
  <2>2. TabsMove({}) /\ TabsMove(NetworkPlaces)
    BY <1>7, <1>18
  <2>3. NetTypeOK'
    BY <1>2, <1>5, <1>9, <1>18, <2>1 DEF NetTypeOK
  <2>4. SharesAreLeft'
    BY <1>1, <1>5, <1>18, <2>1, <2>2, SharesStayLeft
  <2> QED
    BY <1>9, <1>18, <2>1, <2>2, <2>3, <2>4 DEF NetInv
<1>19. CASE MountMade
  <2>1. PICK c \in Connections : connecting = <<c>>
    BY <1>2, <1>19 DEF MountMade
  <2>2. c.root \in Roots /\ Made(c.root)
    BY <1>19, <2>1 DEF MountMade, Connections
  <2> QED
    BY <1>2, <1>18, <1>19, <2>2 DEF MountMade
<1>20. CASE Unmounting
  <2>1. PICK d \in Disconnections : disconnecting = <<d>>
    BY <1>2, <1>20 DEF Unmounting
  <2>2. /\ d.root \in Roots /\ real[d.root] > 0 /\ Lost(d.root)
        /\ disconnecting' = <<[d EXCEPT !.done = TRUE]>>
    BY <1>20, <2>1 DEF Unmounting, Disconnections
  <2>3. [d EXCEPT !.done = TRUE] \in Disconnections
    BY DEF Disconnections
  <2> QED
    BY <1>18, <1>20, <2>2, <2>3 DEF Unmounting
<1>21. ASSUME NEW r \in Roots, MountedElsewhere(r)
       PROVE  NetInv' /\ TabsMove(NetworkPlaces)
  BY <1>2, <1>18, <1>21 DEF MountedElsewhere
<1>22. CASE MountAdded \/ MountRemoved
  <2>1. /\ signals # <<>> /\ signals' = Tail(signals)
        /\ UNCHANGED <<real, connectVars, disconnecting, tabVars>>
        /\ \/ /\ Head(signals).kind = "added"
              /\ mounts' = [mounts EXCEPT ![Head(signals).root] = @ + 1]
           \/ /\ Head(signals).kind = "removed"
              /\ mounts' = [mounts EXCEPT ![Head(signals).root] = @ - 1]
    BY <1>22 DEF MountAdded, MountRemoved
  <2>2. PICK r \in Roots : r = Head(signals).root
    BY <1>1, <2>1, SignalIsRead
  <2>3. /\ mounts' \in [Roots -> Nat] /\ signals' \in Seq(Signals)
        /\ \E told : Tells(told)'
        /\ \A p \in Roots : Announced(p) => Announced(p)' \/ (Head(signals).kind = "added" /\ p = r)
    BY <1>1, <2>1, <2>2, SignalIsRead
  <2>4. \A p \in Roots : p # r => mounts'[p] = mounts[p]
    BY <1>2, <2>1, <2>2
  <2>5. \A p \in Roots : p # r => (p \in Known <=> p \in Known')
    BY <2>4 DEF Known
  <2>6. TabsMove({}) /\ TabsMove(NetworkPlaces)
    BY <1>7, <2>1
  <2>7. \A p : Held(p)' => Held(p)
    BY <2>6 DEF TabsMove
  <2>8. CASE MountAdded
    <3>1. scheduleLocationRefresh
      BY <2>8 DEF MountAdded
    <3>2. r \in Known'
      BY <1>2, <2>2, <2>3, <2>8 DEF MountAdded, Known
    <3>3. /\ refreshScheduled' = TRUE /\ items' = items
          /\ queue' \in Seq(Roots \cup {"rebuild"}) /\ queue' # <<>> /\ InQueue("rebuild")'
          /\ \A m : InQueue(m) => InQueue(m)'
      BY <1>1, <3>1, RefreshIsQueued
    <3>4. NetTypeOK'
      BY <1>2, <1>9, <2>1, <2>3, <3>3 DEF NetTypeOK
    <3>5. \A p \in Roots : p \in Known => p \in Known'
      BY <2>5, <3>2
    <3>6. \A p \in Roots : (Held(p) => p \in Known \/ InQueue(p) \/ Announced(p))'
      BY <1>1, <2>3, <2>7, <3>2, <3>3, <3>5 DEF SharesAreLeft
    <3>7. \A p \in items' : (p \in Known \/ InQueue(p))'
      BY <1>1, <1>2, <3>3, <3>5 DEF SharesAreLeft
    <3>8. SharesAreLeft'
      BY <3>3, <3>6, <3>7 DEF SharesAreLeft
    <3> QED
      BY <1>9, <2>1, <2>3, <2>6, <3>4, <3>8 DEF NetInv
  <2>9. CASE MountRemoved
    <3>1. queue' = Append(queue, r) /\ UNCHANGED <<items, refreshScheduled>> /\ Head(signals).kind = "removed"
      BY <2>2, <2>9 DEF MountRemoved
    <3>2. /\ queue' \in Seq(Roots \cup {"rebuild"}) /\ Len(queue') = Len(queue) + 1 /\ Len(queue) \in Nat
          /\ \A i \in 1 .. Len(queue) : queue'[i] = queue[i] /\ i \in 1 .. Len(queue')
          /\ queue'[Len(queue) + 1] = r /\ Len(queue) + 1 \in 1 .. Len(queue')
      BY <1>2, <3>1, AppendProperties
    <3>3. queue' # <<>> /\ InQueue(r)' /\ \A m : InQueue(m) => InQueue(m)'
      BY <3>2 DEF InQueue
    <3>4. NetTypeOK'
      BY <1>2, <1>9, <2>1, <2>3, <3>1, <3>2 DEF NetTypeOK
    <3>5. \A p \in Roots : (Held(p) => p \in Known \/ InQueue(p) \/ Announced(p))'
      BY <1>1, <2>3, <2>5, <2>7, <3>1, <3>3 DEF SharesAreLeft
    <3>6. \A p \in items' : (p \in Known \/ InQueue(p))'
      BY <1>1, <1>2, <2>5, <3>1, <3>3 DEF SharesAreLeft
    <3>7. (refreshScheduled => InQueue("rebuild"))'
      BY <1>1, <3>1, <3>3 DEF SharesAreLeft
    <3>8. SharesAreLeft'
      BY <3>3, <3>5, <3>6, <3>7 DEF SharesAreLeft
    <3> QED
      BY <1>9, <2>1, <2>3, <2>6, <3>4, <3>8 DEF NetInv
  <2> QED
    BY <1>22, <2>8, <2>9
(* What was queued.                                                         *)
<1>23. ASSUME queue # <<>>, queue' = Tail(queue), NEW first, first = Head(queue),
              UNCHANGED <<mountVars, connectVars, disconnecting>>,
              items' = Known, refreshScheduled' \in BOOLEAN,
              NEW places, places \subseteq NetworkPlaces, places \cap Roots = {}, TabsMove(places),
              refreshScheduled' => refreshScheduled /\ first # "rebuild",
              first \in Roots \ Known => ~Held(first)'
       PROVE  NetInv' /\ TabsMove(NetworkPlaces)
  <2>1. /\ queue' \in Seq(Roots \cup {"rebuild"}) /\ \A m : InQueue(m) => InQueue(m)' \/ m = first
    BY <1>1, <1>23, QueueRead
  <2>2. /\ UNCHANGED <<real, mounts, signals>> /\ \E told : Tells(told)'
        /\ \A r : Announced(r)' <=> Announced(r)
    BY <1>4, <1>23
  <2>3. Known' = Known /\ Known \subseteq Roots
    BY <2>2 DEF Known
  <2>4. NetTypeOK'
    BY <1>2, <1>9, <1>23, <2>1, <2>2, <2>3 DEF NetTypeOK
  <2>5. ASSUME NEW p \in Roots, Held(p)'
        PROVE  (p \in Known \/ InQueue(p) \/ Announced(p))'
    <3>1. Held(p)
      BY <1>23, <2>5 DEF TabsMove
    <3>2. p \in Known \/ InQueue(p) \/ Announced(p)
      BY <1>1, <3>1 DEF SharesAreLeft
    <3>3. CASE p = first
      BY <1>23, <2>3, <2>5, <3>3
    <3>4. CASE p # first
      BY <2>1, <2>2, <2>3, <3>2, <3>4
    <3> QED
      BY <3>3, <3>4
  <2>6. (refreshScheduled => InQueue("rebuild"))'
    BY <1>1, <1>23, <2>1 DEF SharesAreLeft
  <2>7. SharesAreLeft'
    BY <1>23, <2>3, <2>5, <2>6 DEF SharesAreLeft
  <2>8. TabsMove(NetworkPlaces)
    BY <1>23, MoreMove
  <2> QED
    BY <1>9, <1>23, <2>2, <2>4, <2>7, <2>8 DEF NetInv
<1>24. CASE Rebuild
  <2>1. /\ queue # <<>> /\ queue' = Tail(queue) /\ Head(queue) = "rebuild"
        /\ UNCHANGED <<mountVars, connectVars, disconnecting>>
        /\ items' = Known /\ refreshScheduled' = FALSE /\ UNCHANGED tabVars
    BY <1>24 DEF Rebuild
  <2>2. TabsMove({}) /\ {} \subseteq NetworkPlaces /\ {} \cap Roots = {}
    BY <1>7, <2>1
  <2> QED
    BY <1>1, <1>23, <2>1, <2>2
<1>25. CASE Removed
  <2>1. /\ queue # <<>> /\ queue' = Tail(queue) /\ Head(queue) \in Roots
        /\ UNCHANGED <<mountVars, connectVars, disconnecting>>
        /\ items' = Known /\ refreshScheduled' = refreshScheduled
    BY <1>25 DEF Removed
  <2>2. PICK r \in Roots : r = Head(queue)
    BY <2>1
  <2>3. r # "rebuild"
    BY <1>1
  <2>4. CASE r \in Known
    <3>1. UNCHANGED tabVars
      BY <1>25, <2>2, <2>4 DEF Removed
    <3>2. TabsMove({}) /\ {} \subseteq NetworkPlaces /\ {} \cap Roots = {}
      BY <1>7, <3>1
    <3> QED
      BY <1>2, <1>23, <2>1, <2>2, <2>3, <2>4, <3>2
  <2>5. CASE r \notin Known
    <3>1. recoverUnmounted({r}, Home)
      BY <1>25, <2>2, <2>5 DEF Removed
    <3>2. Home \in AnyPlace \ ({NoPlace} \cup {r})
      BY <1>1, TabAssumption DEF AnyPlace
    <3>3. TabsMove({Home}) /\ \A p \in {r} : ~Held(p)'
      BY <3>1, <3>2, TabsRecovered
    <3>4. {Home} \subseteq NetworkPlaces /\ {Home} \cap Roots = {}
      BY <1>1 DEF NetworkPlaces
    <3> QED
      BY <1>2, <1>23, <2>1, <2>2, <2>3, <3>3, <3>4
  <2> QED
    BY <2>4, <2>5
(* The user.                                                                *)
<1>26. ASSUME NEW p \in Roots \cup {Home}, GoToLocation(p)
       PROVE  NetInv' /\ TabsMove(NetworkPlaces)
  <2>1. /\ p \in items \cup {Home} /\ tabs' = Navigated(p)
        /\ UNCHANGED <<mountVars, locationVars, connectVars, disconnecting, currentIndex, closedTabs>>
    BY <1>26 DEF GoToLocation
  <2>2. TabsMove({p}) /\ {p} \subseteq NetworkPlaces
    BY <1>1, <1>3, <2>1, TabAssumption, TabNavigates DEF NetworkPlaces
  <2>3. \A r \in {p} \cap Roots : r \in Known \/ InQueue(r) \/ Announced(r)
    BY <1>1, <2>1 DEF SharesAreLeft
  <2> QED
    BY <1>2, <1>6, <1>9, <2>1, <2>2, <2>3
<1>27. CASE ArrangeTabsOnline
  <2>1. Arrange /\ UNCHANGED <<mountVars, locationVars, connectVars, disconnecting>>
    BY <1>27 DEF ArrangeTabsOnline
  <2>2. TabsMove({Home, NoPlace}) /\ {Home, NoPlace} \subseteq NetworkPlaces
        /\ {Home, NoPlace} \cap Roots = {}
    BY <1>1, <2>1, TabsArranged DEF NetworkPlaces
  <2> QED
    BY <1>2, <1>6, <1>9, <2>1, <2>2
<1> QED
  BY <1>10, <1>11, <1>12, <1>13, <1>14, <1>15, <1>16, <1>17, <1>19, <1>20, <1>21, <1>22, <1>24,
     <1>25, <1>26, <1>27 DEF NetworkNext

-----------------------------------------------------------------------------
(* Volumes and shares together.                                             *)
PlacesInv == VolumesInv /\ NetInv

LEMMA DifferentPlaces ==
    VolumePlaces \cap Roots = {} /\ NetworkPlaces \cap Volumes = {}
BY DistinctPlaces, RootsAssumption, PlacesAssumption DEF VolumePlaces, NetworkPlaces

LEMMA PlacesInitially ==
    ASSUME PlacesInit
    PROVE  PlacesInv
<1>1. DriveInit /\ TabInit /\ unheard = {} /\ NetworkInit
  BY DEF PlacesInit, VolumesInit
<1>2. DriveInv
  BY <1>1, DrivesInitially
<1>3. TabsOK /\ \A p : Held(p) => p \in {Home, NoPlace}
  BY <1>1, TabsInitially
<1>4. VolumesAreLeft
  BY <1>3, FixedPlaces DEF VolumesAreLeft
<1>5. /\ real = [r \in Roots |-> 0] /\ mounts = real /\ signals = <<>>
      /\ items = {} /\ refreshScheduled = FALSE /\ queue = <<>>
      /\ connecting = <<>> /\ awaiting = "none" /\ asking = "none" /\ disconnecting = <<>>
  BY <1>1 DEF NetworkInit
<1>6. NetTypeOK
  <2>1. real \in [Roots -> Nat] /\ mounts \in [Roots -> Nat]
    BY <1>5
  <2>2. signals \in Seq(Signals) /\ queue \in Seq(Roots \cup {"rebuild"})
    BY <1>5
  <2>3. items \subseteq Roots /\ refreshScheduled \in BOOLEAN /\ connecting = <<>> /\ disconnecting = <<>>
    BY <1>5
  <2> QED
    BY <2>1, <2>2, <2>3 DEF NetTypeOK
<1>7. \E told : Tells(told)
  <2>1. Len(signals) = 0
    BY <1>5
  <2>2. PICK told : told = [i \in 0 .. 0 |-> real]
    OBVIOUS
  <2>3. told \in [0 .. 0 -> [Roots -> Nat]] /\ told[0] = real
    BY <1>5, <2>2
  <2>4. \A i \in 0 .. 0 : \A r \in Roots : ~(real[r] > told[i][r])
    BY <1>5, <2>3
  <2>5. Tells(told)
    BY <1>5, <2>1, <2>3, <2>4 DEF Tells
  <2> QED
    BY <2>5
<1>8. SharesAreLeft
  BY <1>3, <1>5, RootsAssumption DEF SharesAreLeft, Known
<1>9. EveryQuestionIsOnTheScreen
  BY <1>5 DEF EveryQuestionIsOnTheScreen
<1> QED
  BY <1>2, <1>3, <1>4, <1>6, <1>7, <1>8, <1>9 DEF PlacesInv, VolumesInv, NetInv

LEMMA VolumesWhileOthersMove ==
    ASSUME VolumesInv, UNCHANGED storageVars, NEW places, TabsMove(places),
           places \cap Volumes = {}
    PROVE  VolumesInv'
<1>1. UNCHANGED <<objects, loading, refreshPending, busyObjects, busyDrives, calls, inbox,
                  kernel, exported, serviceUp, events, unmarked, unheard>>
  BY DEF storageVars, driveVars
<1>2. DriveInv'
  <2>1. DriveRest'
    BY <1>1 DEF VolumesInv, DriveInv, DriveRest, DriveTypeOK, OthersOK, NothingIsNew,
                ListIsOnItsWay, Arrived
  <2>2. CallsAreApart => CallsAreApart'
    BY <1>1 DEF CallsAreApart, NothingClashes, MarksStand, Marked, PowerOffsAreAlone, Arrived
  <2> QED
    BY <1>1, <2>1, <2>2 DEF VolumesInv, DriveInv
<1>3. VolumesAreLeft'
  BY <1>1 DEF VolumesInv, VolumesAreLeft, Leaving, Arrived, TabsMove
<1> QED
  BY <1>2, <1>3 DEF VolumesInv, TabsMove

LEMMA SharesWhileOthersMove ==
    ASSUME NetInv, UNCHANGED netVars, NEW places, TabsMove(places), places \cap Roots = {}
    PROVE  NetInv'
<1>1. UNCHANGED <<real, mounts, signals, items, refreshScheduled, queue, connecting, awaiting,
                  asking, disconnecting>>
  BY DEF netVars
<1>2. NetTypeOK' /\ EveryQuestionIsOnTheScreen'
  BY <1>1 DEF NetInv, NetTypeOK, EveryQuestionIsOnTheScreen
<1>3. \E told : Tells(told)'
  <2>1. PICK told : Tells(told)
    BY DEF NetInv
  <2>2. Tells(told)'
    BY <1>1, <2>1 DEF Tells
  <2> QED
    BY <2>2
<1>4. SharesAreLeft'
  BY <1>1, SharesStayLeft DEF NetInv, SharesAreLeft, InQueue, Announced
<1> QED
  BY <1>2, <1>3, <1>4 DEF NetInv

(* Every step keeps the invariant, powers off alone and keeps the current   *)
(* tab.                                                                     *)
LEMMA PlacesStep ==
    ASSUME PlacesInv, [PlacesNext]_placesVars
    PROVE  /\ PlacesInv'
           /\ PowersOffAlone \/ UNCHANGED driveVars
           /\ Len(tabs') < Len(tabs) => KeepsTheCurrentTab
<1>1. VolumesInv /\ NetInv /\ TabsOK
  BY DEF PlacesInv, VolumesInv
<1>2. CASE VolumesNext /\ UNCHANGED netVars
  <2>1. DriveInv' /\ VolumesAreLeft' /\ TabsMove(VolumePlaces)
    BY <1>1, <1>2, VolumeStep
  <2>2. NetInv'
    BY <1>1, <1>2, <2>1, SharesWhileOthersMove, DifferentPlaces
  <2> QED
    BY <1>1, <1>2, <2>1, <2>2, PowerOffStep DEF PlacesInv, VolumesInv, TabsMove
<1>3. CASE NetworkNext /\ UNCHANGED storageVars
  <2>1. NetInv' /\ TabsMove(NetworkPlaces)
    BY <1>1, <1>3, NetworkStep
  <2>2. VolumesInv'
    BY <1>1, <1>3, <2>1, VolumesWhileOthersMove, DifferentPlaces
  <2>3. UNCHANGED driveVars
    BY <1>3 DEF storageVars
  <2> QED
    BY <2>1, <2>2, <2>3 DEF PlacesInv, TabsMove
<1>4. CASE UNCHANGED placesVars
  <2>1. UNCHANGED storageVars /\ UNCHANGED netVars /\ UNCHANGED tabVars
    BY <1>4 DEF placesVars
  <2>2. TabsMove({}) /\ {} \cap Volumes = {} /\ {} \cap Roots = {}
    BY <1>1, <2>1, TabsStay
  <2>3. VolumesInv' /\ NetInv'
    BY <1>1, <2>1, <2>2, VolumesWhileOthersMove, SharesWhileOthersMove
  <2> QED
    BY <2>1, <2>2, <2>3 DEF PlacesInv, TabsMove, storageVars
<1> QED
  BY <1>2, <1>3, <1>4 DEF PlacesNext

LEMMA NobodyIsInWhatIsGone ==
    ASSUME PlacesInv
    PROVE  NobodyStaysInWhatIsGone /\ EveryQuestionIsOnTheScreen
<1>1. DriveRest /\ TabsOK /\ VolumesAreLeft /\ NetTypeOK /\ SharesAreLeft /\ EveryQuestionIsOnTheScreen
  BY DEF PlacesInv, VolumesInv, NetInv, DriveInv
<1>2. TabsAreSound /\ \A p : p \in PlacesShown \cup PlacesKept => Held(p)
  BY <1>1, SoundIsSound
<1>3. VolumesTypeOK
  <2>1. objects.mounted \subseteq objects.present
    BY <1>1 DEF DriveRest, DriveTypeOK, Systems
  <2> QED
    BY <1>1, <1>2, <2>1 DEF VolumesTypeOK, DriveRest, DriveTypeOK
<1>4. NobodyStaysInAnUnmountedVolume
  <2> SUFFICES ASSUME serviceUp, inbox = <<>>, calls = {}, exported = kernel
               PROVE  /\ objects = kernel
                      /\ (PlacesShown \cup PlacesKept) \cap Volumes \subseteq kernel.mounted \cup unheard
    BY DEF NobodyStaysInAnUnmountedVolume
  <2>1. Arrived = {}
    BY DEF Arrived
  <2>2. objects = kernel
    BY <1>1, <2>1 DEF DriveRest, ListIsOnItsWay
  <2>3. \A p : ~Leaving(p)
    BY <2>1 DEF Leaving
  <2> QED
    BY <1>1, <1>2, <2>2, <2>3 DEF VolumesAreLeft
<1>5. NobodyStaysInALostMount
  <2> SUFFICES ASSUME queue = <<>>, signals = <<>>
               PROVE  items = Known /\ (PlacesShown \cup PlacesKept) \cap Roots \subseteq items
    BY DEF NobodyStaysInALostMount
  <2>1. items = Known /\ \A p : ~InQueue(p) /\ ~Announced(p)
    BY <1>1 DEF SharesAreLeft, InQueue, Announced
  <2> QED
    BY <1>1, <1>2, <2>1 DEF SharesAreLeft
<1> QED
  BY <1>1, <1>3, <1>4, <1>5 DEF NobodyStaysInWhatIsGone

-----------------------------------------------------------------------------
(* Whoever unmounted it, and in whatever order its calls, answers, listings *)
(* and signals came: once all of it was dealt with, no pane, no hidden tab  *)
(* and no closed tab is in a volume or a share that is gone, but a volume   *)
(* whose unmounting nobody told the program of, and the rail lists what     *)
(* there is (DriveModel, the network controllers and the recovery through   *)
(* MountRecoveryRegistry and TabManager).                                   *)
THEOREM NobodyIsLeftInWhatIsGone ==
    PlacesSpec => []NobodyStaysInWhatIsGone
<1>1. PlacesInit => PlacesInv
  BY PlacesInitially
<1>2. PlacesInv /\ [PlacesNext]_placesVars => PlacesInv'
  BY PlacesStep
<1>3. PlacesInv => NobodyStaysInWhatIsGone
  BY NobodyIsInWhatIsGone
<1> QED
  BY <1>1, <1>2, <1>3, PTL DEF PlacesSpec

(* No question of GIO waits behind a prompt that is not shown, and no       *)
(* prompt is shown for a question that was answered or given up             *)
(* (NetworkConnectionController).                                           *)
THEOREM QuestionsAreOnTheScreen ==
    PlacesSpec => []EveryQuestionIsOnTheScreen
<1>1. PlacesInit => PlacesInv
  BY PlacesInitially
<1>2. PlacesInv /\ [PlacesNext]_placesVars => PlacesInv'
  BY PlacesStep
<1>3. PlacesInv => EveryQuestionIsOnTheScreen
  BY DEF PlacesInv, NetInv
<1> QED
  BY <1>1, <1>2, <1>3, PTL DEF PlacesSpec

(* A drive is powered off alone: no call for one of its volumes is under    *)
(* way with it, unless the end of UDisks was read with a call under way     *)
(* that still is (onServiceUnregistered clears the busy sets); nor was one  *)
(* of them mounted when it was asked for (powerOffPlan), whatever the       *)
(* listings missed.                                                         *)
THEOREM DrivesGoAlone ==
    PlacesSpec => PowerOffIsAlone
<1>1. PlacesInit => PlacesInv
  BY PlacesInitially
<1>2. PlacesInv /\ [PlacesNext]_placesVars => PlacesInv'
  BY PlacesStep
<1>3. PlacesInv /\ [PlacesNext]_placesVars => PowersOffAlone \/ UNCHANGED driveVars
  BY PlacesStep
<1>4. PowersOffAlone \/ UNCHANGED driveVars =>
        [\A p \in calls' : p.kind = "PowerOff" =>
           /\ unmarked' \/ \A m \in calls' :
                m.kind \in {"Mount", "Unmount"} => Drive[m.object] \notin p.drives
           /\ p \notin calls /\ p.result = "none" =>
                \A w \in objects.mounted : ~On(w, p.drives)]_driveVars
  BY DEF PowersOffAlone
<1> QED
  BY <1>1, <1>2, <1>3, <1>4, PTL DEF PlacesSpec, PowerOffIsAlone

(* Whichever tab is closed, the user keeps the one he looks at, unless it   *)
(* was that one, with any number of tabs (closeTab of TabManager).          *)
THEOREM TheCurrentTabIsKept ==
    PlacesSpec => ClosingKeepsTheCurrentTab
<1>1. PlacesInit => PlacesInv
  BY PlacesInitially
<1>2. PlacesInv /\ [PlacesNext]_placesVars => PlacesInv'
  BY PlacesStep
<1>3. PlacesInv /\ [PlacesNext]_placesVars =>
        [Len(tabs') < Len(tabs) =>
           /\ currentIndex' \in DOMAIN tabs'
           /\ (\E i \in DOMAIN tabs' : tabs'[i].id = CurrentTab.id)
                 => tabs'[currentIndex'].id = CurrentTab.id]_tabVars
  BY PlacesStep DEF KeepsTheCurrentTab
<1> QED
  BY <1>1, <1>2, <1>3, PTL DEF PlacesSpec, ClosingKeepsTheCurrentTab

=============================================================================

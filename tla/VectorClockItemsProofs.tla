----------------------- MODULE VectorClockItemsProofs -----------------------
(***************************************************************************)
(* Theorems about VectorClockItems, for any replica uids, generations and  *)
(* lengths of the arrays and texts: the loops of src/u1db_vectorclock.c    *)
(* return what VectorClock says.                                           *)
(***************************************************************************)
EXTENDS VectorClockItems, FiniteSetTheorems, TLAPS

ArrayOf(a, S) == Size(a) \in Nat /\ a \in [0..(Size(a) - 1) -> S]
SortedItems(a) == ArrayOf(a, Item) /\ Sorted(a)

\* The arrays two walks have come to k and l in: what lies before one of the
\* places comes before what lies after the other.
Walked(a, b, k, l) ==
  /\ k \in 0..Size(a) /\ l \in 0..Size(b)
  /\ \A m \in DOMAIN a, n \in DOMAIN b :
       /\ m < k /\ n >= l => a[m].uid < b[n].uid
       /\ m >= k /\ n < l => b[n].uid < a[m].uid
-----------------------------------------------------------------------------
(***************************************************************************)
(* Arrays.                                                                 *)
(***************************************************************************)

\* The size of an array, and its slots.
LEMMA SizeIs ==
  ASSUME NEW n \in Nat, NEW a, DOMAIN a = 0..(n - 1)
  PROVE  Size(a) = n
  <1>1. 0 \in Int /\ n - 1 \in Int
    OBVIOUS
  <1>2. Cardinality(0..(n - 1)) = IF 0 > n - 1 THEN 0 ELSE n - 1 - 0 + 1
    BY <1>1, FS_Interval
  <1>3. QED
    BY <1>2 DEF Size

\* The numbers uids are.
LEMMA ItemIs ==
  ASSUME NEW x \in Item
  PROVE  /\ x.uid \in Uid /\ x.uid \in Nat /\ x.uid # 0 /\ x.gen \in Nat /\ x.gen # 0
         /\ x # Blank
  <1>1. x.uid \in Uid /\ x.gen \in 1..(MaxGen + 1)
    BY DEF Item
  <1>2. x.uid \in Nat /\ x.uid # 0
    BY <1>1, UidAssumption
  <1>3. x.gen \in Nat /\ x.gen # 0
    BY <1>1
  <1>4. x # Blank
    BY <1>2 DEF Blank
  <1>5. QED
    BY <1>1, <1>2, <1>3, <1>4

\* What a sorted array represents.
LEMMA MeaningIs ==
  ASSUME NEW a, SortedItems(a)
  PROVE  /\ Meaning(a) \in [Uid -> Nat]
         /\ \A n \in DOMAIN a : Meaning(a)[a[n].uid] = a[n].gen
         /\ \A u \in Uid : (\A n \in DOMAIN a : a[n].uid # u) => Meaning(a)[u] = 0
  <1>1. /\ a \in [DOMAIN a -> Item] /\ DOMAIN a \subseteq Nat
        /\ \A m, n \in DOMAIN a : m < n => a[m].uid < a[n].uid
    BY DEF SortedItems, ArrayOf, Sorted
  <1> DEFINE at_uid(u) == {m \in DOMAIN a : a[m].uid = u}
  <1>2. \A u \in Uid : Meaning(a)[u] =
          IF at_uid(u) = {} THEN 0 ELSE a[CHOOSE m \in at_uid(u) : TRUE].gen
    BY DEF Meaning
  <1>3. ASSUME NEW n \in DOMAIN a
        PROVE  /\ a[n].uid \in Uid /\ Meaning(a)[a[n].uid] = a[n].gen
    <2>1. a[n].uid \in Uid
      BY <1>1, ItemIs
    <2>2. ASSUME NEW m \in DOMAIN a, a[m].uid = a[n].uid
          PROVE  m = n
      <3>1. a[m].uid \in Nat /\ m \in Nat /\ n \in Nat
        BY <1>1, ItemIs
      <3>2. ~(m < n) /\ ~(n < m)
        BY <1>1, <2>2, <3>1
      <3>3. QED
        BY <3>1, <3>2
    <2>3. at_uid(a[n].uid) = {n}
      BY <2>2
    <2>4. (CHOOSE m \in {n} : TRUE) = n
      OBVIOUS
    <2>5. QED
      BY <1>2, <2>1, <2>3, <2>4
  <1>4. ASSUME NEW u \in Uid
        PROVE  /\ Meaning(a)[u] \in Nat
               /\ (\A n \in DOMAIN a : a[n].uid # u) => Meaning(a)[u] = 0
    <2>1. CASE at_uid(u) = {}
      BY <1>2, <2>1
    <2>2. CASE at_uid(u) # {}
      <3>1. PICK n \in DOMAIN a : a[n].uid = u
        BY <2>2
      <3>2. a[n].gen \in Nat
        BY <1>1, ItemIs
      <3>3. QED
        BY <1>3, <3>1, <3>2
    <2>3. QED
      BY <2>1, <2>2
  <1>5. Meaning(a) = [u \in Uid |-> Meaning(a)[u]]
    BY DEF Meaning
  <1>6. QED
    BY <1>3, <1>4, <1>5

\* A walk passes an item of both arrays.
LEMMA WalkedBoth ==
  ASSUME NEW a, NEW b, SortedItems(a), SortedItems(b), NEW k, NEW l, Walked(a, b, k, l),
         k < Size(a), l < Size(b), a[k].uid = b[l].uid
  PROVE  Walked(a, b, k + 1, l + 1) /\ k \in DOMAIN a /\ l \in DOMAIN b
  <1>1. /\ a \in [0..(Size(a) - 1) -> Item] /\ b \in [0..(Size(b) - 1) -> Item]
        /\ Size(a) \in Nat /\ Size(b) \in Nat /\ k \in Nat /\ l \in Nat
    BY DEF SortedItems, ArrayOf, Walked
  <1>2. k \in 0..(Size(a) - 1) /\ l \in 0..(Size(b) - 1)
    BY <1>1
  <1>3. \A m \in DOMAIN a : a[m].uid \in Nat
    BY <1>1, ItemIs
  <1>4. \A n \in DOMAIN b : b[n].uid \in Nat
    BY <1>1, ItemIs
  <1>5. ASSUME NEW m \in DOMAIN a, NEW n \in DOMAIN b
        PROVE  /\ m < k + 1 /\ n >= l + 1 => a[m].uid < b[n].uid
               /\ m >= k + 1 /\ n < l + 1 => b[n].uid < a[m].uid
    <2>1. m \in Nat /\ n \in Nat
      BY <1>1
    <2>2. m >= k + 1 => a[k].uid < a[m].uid
      BY <1>1, <1>2, <2>1 DEF SortedItems, Sorted
    <2>3. n >= l + 1 => b[l].uid < b[n].uid
      BY <1>1, <1>2, <2>1 DEF SortedItems, Sorted
    <2>4. m < k => a[m].uid < b[l].uid
      BY <1>1, <1>2 DEF Walked
    <2>5. n < l => b[n].uid < a[k].uid
      BY <1>1, <1>2 DEF Walked
    <2>6. m < k + 1 => m < k \/ m = k
      BY <1>1, <2>1
    <2>7. n < l + 1 => n < l \/ n = l
      BY <1>1, <2>1
    <2>8. a[m].uid \in Nat /\ b[n].uid \in Nat /\ a[k].uid \in Nat /\ b[l].uid \in Nat
      BY <1>1, <1>2, <1>3, <1>4
    <2>9. m < k + 1 /\ n >= l + 1 => a[m].uid < b[n].uid
      BY <2>3, <2>4, <2>6, <2>8
    <2>10. m >= k + 1 /\ n < l + 1 => b[n].uid < a[m].uid
      BY <2>2, <2>5, <2>7, <2>8
    <2>11. QED
      BY <2>9, <2>10
  <1>6. k + 1 \in 0..Size(a) /\ l + 1 \in 0..Size(b)
    BY <1>1
  <1>7. QED
    BY <1>1, <1>2, <1>5, <1>6 DEF Walked

\* A walk passes an item of the first array alone.
LEMMA WalkedFirst ==
  ASSUME NEW a, NEW b, SortedItems(a), SortedItems(b), NEW k, NEW l, Walked(a, b, k, l),
         k < Size(a), l < Size(b), a[k].uid < b[l].uid
  PROVE  Walked(a, b, k + 1, l) /\ k \in DOMAIN a /\ l \in DOMAIN b
  <1>1. /\ a \in [0..(Size(a) - 1) -> Item] /\ b \in [0..(Size(b) - 1) -> Item]
        /\ Size(a) \in Nat /\ Size(b) \in Nat /\ k \in Nat /\ l \in Nat
    BY DEF SortedItems, ArrayOf, Walked
  <1>2. k \in 0..(Size(a) - 1) /\ l \in 0..(Size(b) - 1)
    BY <1>1
  <1>3. \A n \in DOMAIN b : b[n].uid \in Nat
    BY <1>1, ItemIs
  <1>4. ASSUME NEW m \in DOMAIN a, NEW n \in DOMAIN b
        PROVE  /\ m < k + 1 /\ n >= l => a[m].uid < b[n].uid
               /\ m >= k + 1 /\ n < l => b[n].uid < a[m].uid
    <2>1. m \in Nat /\ n \in Nat
      BY <1>1
    <2>2. a[k].uid \in Nat /\ b[l].uid \in Nat /\ b[n].uid \in Nat
      BY <1>1, <1>2, <1>3, ItemIs
    <2>3. n >= l => n = l \/ b[l].uid < b[n].uid
      BY <1>1, <1>2, <2>1 DEF SortedItems, Sorted
    <2>4. n >= l => a[k].uid < b[n].uid
      BY <2>2, <2>3
    <2>5. m < k + 1 => m < k \/ m = k
      BY <1>1, <2>1
    <2>6. m >= k + 1 => m >= k
      BY <1>1, <2>1
    <2>7. m < k /\ n >= l => a[m].uid < b[n].uid
      BY DEF Walked
    <2>8. m >= k /\ n < l => b[n].uid < a[m].uid
      BY DEF Walked
    <2>9. QED
      BY <2>4, <2>5, <2>6, <2>7, <2>8
  <1>5. k + 1 \in 0..Size(a)
    BY <1>1
  <1>6. QED
    BY <1>1, <1>2, <1>4, <1>5 DEF Walked

\* A walk passes an item of the second array alone.
LEMMA WalkedSecond ==
  ASSUME NEW a, NEW b, SortedItems(a), SortedItems(b), NEW k, NEW l, Walked(a, b, k, l),
         l < Size(b), k < Size(a) => b[l].uid < a[k].uid
  PROVE  Walked(a, b, k, l + 1) /\ l \in DOMAIN b
  <1>1. /\ a \in [0..(Size(a) - 1) -> Item] /\ b \in [0..(Size(b) - 1) -> Item]
        /\ Size(a) \in Nat /\ Size(b) \in Nat /\ k \in Nat /\ l \in Nat
    BY DEF SortedItems, ArrayOf, Walked
  <1>2. l \in 0..(Size(b) - 1)
    BY <1>1
  <1>3. \A m \in DOMAIN a : a[m].uid \in Nat
    BY <1>1, ItemIs
  <1>4. ASSUME NEW m \in DOMAIN a, NEW n \in DOMAIN b
        PROVE  /\ m < k /\ n >= l + 1 => a[m].uid < b[n].uid
               /\ m >= k /\ n < l + 1 => b[n].uid < a[m].uid
    <2>1. m \in Nat /\ n \in Nat
      BY <1>1
    <2>2. ASSUME m >= k PROVE b[l].uid < a[m].uid
      <3>1. k \in 0..(Size(a) - 1) /\ k < Size(a)
        BY <1>1, <2>1, <2>2
      <3>2. a[k].uid \in Nat /\ b[l].uid \in Nat /\ a[m].uid \in Nat
        BY <1>1, <1>2, <1>3, <3>1, ItemIs
      <3>3. m = k \/ a[k].uid < a[m].uid
        BY <1>1, <2>1, <2>2, <3>1 DEF SortedItems, Sorted
      <3>4. QED
        BY <3>1, <3>2, <3>3
    <2>3. n < l + 1 => n < l \/ n = l
      BY <1>1, <2>1
    <2>4. n >= l + 1 => n >= l
      BY <1>1, <2>1
    <2>5. m < k /\ n >= l => a[m].uid < b[n].uid
      BY DEF Walked
    <2>6. m >= k /\ n < l => b[n].uid < a[m].uid
      BY DEF Walked
    <2>7. QED
      BY <2>2, <2>3, <2>4, <2>5, <2>6
  <1>5. l + 1 \in 0..Size(b)
    BY <1>1
  <1>6. QED
    BY <1>1, <1>2, <1>4, <1>5 DEF Walked

-----------------------------------------------------------------------------
(***************************************************************************)
(* u1db__vectorclock_is_newer                                              *)
(***************************************************************************)

\* The first array has more of an item than the second.
NewerAt(m) == \A n \in DOMAIN other : other[n].uid = clock[m].uid => clock[m].gen > other[n].gen

IsNewerInv ==
  /\ at \in {"walk", "done"}
  /\ SortedItems(clock) /\ SortedItems(other)
  /\ at = "walk" =>
       /\ Walked(clock, other, i, j)
       /\ \A n \in DOMAIN other : n < j =>
            \E m \in DOMAIN clock : clock[m].uid = other[n].uid /\ clock[m].gen >= other[n].gen
       /\ answer <=> \E m \in DOMAIN clock : m < i /\ NewerAt(m)
  /\ IsNewerCompares

\* What comparing the items says of the clocks.
LEMMA ComparesClocks ==
  ASSUME SortedItems(clock), SortedItems(other)
  PROVE  VC!IsNewer(Meaning(clock), Meaning(other)) <=>
           /\ \A n \in DOMAIN other :
                \E m \in DOMAIN clock : clock[m].uid = other[n].uid /\ clock[m].gen >= other[n].gen
           /\ \E m \in DOMAIN clock : NewerAt(m)
  <1> DEFINE a == Meaning(clock)
             b == Meaning(other)
             all == \A n \in DOMAIN other :
                      \E m \in DOMAIN clock : clock[m].uid = other[n].uid /\ clock[m].gen >= other[n].gen
             some == \E m \in DOMAIN clock : NewerAt(m)
  <1>1. /\ a \in [Uid -> Nat] /\ \A n \in DOMAIN clock : a[clock[n].uid] = clock[n].gen
        /\ \A u \in Uid : (\A n \in DOMAIN clock : clock[n].uid # u) => a[u] = 0
    BY MeaningIs
  <1>2. /\ b \in [Uid -> Nat] /\ \A n \in DOMAIN other : b[other[n].uid] = other[n].gen
        /\ \A u \in Uid : (\A n \in DOMAIN other : other[n].uid # u) => b[u] = 0
    BY MeaningIs
  <1>3. VC!IsNewer(a, b) <=> (\A r \in Uid : b[r] <= a[r]) /\ (\E r \in Uid : b[r] < a[r])
    BY DEF VC!IsNewer
  <1>4. /\ \A n \in DOMAIN clock : clock[n].uid \in Uid /\ clock[n].gen \in Nat /\ clock[n].gen # 0
        /\ \A n \in DOMAIN other : other[n].uid \in Uid /\ other[n].gen \in Nat /\ other[n].gen # 0
    BY ItemIs DEF SortedItems, ArrayOf
  <1> HIDE DEF a, b
  <1>5. all => \A r \in Uid : b[r] <= a[r]
    <2> SUFFICES ASSUME all, NEW r \in Uid PROVE b[r] <= a[r]
      OBVIOUS
    <2>1. CASE \E n \in DOMAIN other : other[n].uid = r
      <3>1. PICK n \in DOMAIN other : other[n].uid = r
        BY <2>1
      <3>2. PICK m \in DOMAIN clock : clock[m].uid = r /\ clock[m].gen >= other[n].gen
        BY <3>1
      <3>3. a[r] = clock[m].gen /\ b[r] = other[n].gen
        BY <1>1, <1>2, <3>1, <3>2
      <3>4. QED
        BY <1>4, <3>2, <3>3
    <2>2. CASE \A n \in DOMAIN other : other[n].uid # r
      <3>1. b[r] = 0 /\ a[r] \in Nat
        BY <1>1, <1>2, <2>2
      <3>2. QED
        BY <3>1
    <2>3. QED
      BY <2>1, <2>2
  <1>6. (\A r \in Uid : b[r] <= a[r]) => all
    <2> SUFFICES ASSUME \A r \in Uid : b[r] <= a[r], NEW n \in DOMAIN other
                 PROVE  \E m \in DOMAIN clock : clock[m].uid = other[n].uid /\ clock[m].gen >= other[n].gen
      OBVIOUS
    <2>1. b[other[n].uid] = other[n].gen /\ b[other[n].uid] <= a[other[n].uid]
      BY <1>2, <1>4
    <2>2. a[other[n].uid] # 0
      BY <1>1, <1>4, <2>1
    <2>3. PICK m \in DOMAIN clock : clock[m].uid = other[n].uid
      BY <1>1, <1>4, <2>2
    <2>4. a[other[n].uid] = clock[m].gen
      BY <1>1, <2>3
    <2>5. QED
      BY <1>4, <2>1, <2>3, <2>4
  <1>7. some => \E r \in Uid : b[r] < a[r]
    <2> SUFFICES ASSUME NEW m \in DOMAIN clock, NewerAt(m) PROVE \E r \in Uid : b[r] < a[r]
      OBVIOUS
    <2> DEFINE r == clock[m].uid
    <2>1. a[r] = clock[m].gen /\ r \in Uid
      BY <1>1, <1>4
    <2>2. CASE \E n \in DOMAIN other : other[n].uid = r
      <3>1. PICK n \in DOMAIN other : other[n].uid = r
        BY <2>2
      <3>2. b[r] = other[n].gen /\ clock[m].gen > other[n].gen
        BY <1>2, <3>1 DEF NewerAt
      <3>3. QED
        BY <1>4, <2>1, <3>2
    <2>3. CASE \A n \in DOMAIN other : other[n].uid # r
      <3>1. b[r] = 0
        BY <1>2, <2>1, <2>3
      <3>2. QED
        BY <1>4, <2>1, <3>1
    <2>4. QED
      BY <2>2, <2>3
  <1>8. (\E r \in Uid : b[r] < a[r]) => some
    <2> SUFFICES ASSUME NEW r \in Uid, b[r] < a[r] PROVE some
      OBVIOUS
    <2>1. a[r] \in Nat /\ b[r] \in Nat
      BY <1>1, <1>2
    <2>2. a[r] # 0
      BY <2>1
    <2>3. PICK m \in DOMAIN clock : clock[m].uid = r
      BY <1>1, <2>2
    <2>4. a[r] = clock[m].gen
      BY <1>1, <2>3
    <2>5. NewerAt(m)
      <3> SUFFICES ASSUME NEW n \in DOMAIN other, other[n].uid = clock[m].uid
                   PROVE  clock[m].gen > other[n].gen
        BY DEF NewerAt
      <3>1. b[r] = other[n].gen
        BY <1>2, <2>3
      <3>2. QED
        BY <2>1, <2>4, <3>1
    <2>6. QED
      BY <2>3, <2>5
  <1> HIDE DEF all, some
  <1>9. QED
    BY <1>3, <1>5, <1>6, <1>7, <1>8 DEF all, some, a, b

\* Every step of is_newer keeps its invariant.
LEMMA IsNewerStep ==
  ASSUME IsNewerInv, op = "is_newer",
         CompareItems \/ OnlyInNewer \/ NewerInOther \/ EndOfWalk
  PROVE  IsNewerInv'
  <1>1. at = "walk" /\ clock' = clock /\ other' = other /\ op' = op
    BY DEF CompareItems, OnlyInNewer, NewerInOther, EndOfWalk, Walking, Given
  <1>2. /\ SortedItems(clock) /\ SortedItems(other) /\ Walked(clock, other, i, j)
        /\ \A n \in DOMAIN other : n < j =>
             \E m \in DOMAIN clock : clock[m].uid = other[n].uid /\ clock[m].gen >= other[n].gen
        /\ answer <=> \E m \in DOMAIN clock : m < i /\ NewerAt(m)
    BY <1>1 DEF IsNewerInv
  <1>3. /\ DOMAIN clock = 0..(Size(clock) - 1) /\ Size(clock) \in Nat
        /\ DOMAIN other = 0..(Size(other) - 1) /\ Size(other) \in Nat
        /\ i \in 0..Size(clock) /\ j \in 0..Size(other)
    BY <1>2 DEF SortedItems, ArrayOf, Walked
  <1>4. /\ \A m \in DOMAIN clock : clock[m].uid \in Nat /\ clock[m].gen \in Nat
        /\ \A n \in DOMAIN other : other[n].uid \in Nat /\ other[n].gen \in Nat
    BY <1>2, ItemIs DEF SortedItems, ArrayOf
  <1>5. SortedItems(clock)' /\ SortedItems(other)' /\ \A m : NewerAt(m)' <=> NewerAt(m)
    BY <1>1, <1>2 DEF NewerAt
  <1>6. /\ \A m \in DOMAIN clock : m < i + 1 <=> m < i \/ m = i
        /\ \A n \in DOMAIN other : n < j + 1 <=> n < j \/ n = j
    BY <1>3
  <1>7. ASSUME \/ CompareItems \/ OnlyInNewer,
               at' = "walk",
               Walked(clock, other, i', j'),
               \A n \in DOMAIN other : n < j' =>
                 \E m \in DOMAIN clock : clock[m].uid = other[n].uid /\ clock[m].gen >= other[n].gen,
               answer' <=> \E m \in DOMAIN clock : m < i' /\ NewerAt(m)
        PROVE  IsNewerInv'
    BY <1>1, <1>5, <1>7 DEF IsNewerInv, IsNewerCompares, Returns
  <1>8. CASE CompareItems
    <2>1. /\ i < Size(clock) /\ j < Size(other)
          /\ clock[i].uid = other[j].uid /\ clock[i].gen >= other[j].gen
          /\ answer' = (answer \/ clock[i].gen > other[j].gen)
          /\ i' = i + 1 /\ j' = j + 1 /\ at' = at
      BY <1>8 DEF CompareItems, BothLeft
    <2>2. Walked(clock, other, i', j') /\ i \in DOMAIN clock /\ j \in DOMAIN other
      BY <1>2, <2>1, WalkedBoth
    <2>3. \A n \in DOMAIN other : n < j' =>
            \E m \in DOMAIN clock : clock[m].uid = other[n].uid /\ clock[m].gen >= other[n].gen
      BY <1>2, <1>6, <2>1, <2>2
    <2>4. NewerAt(i) <=> clock[i].gen > other[j].gen
      <3>1. \A n \in DOMAIN other : other[n].uid = clock[i].uid => n = j
        <4> SUFFICES ASSUME NEW n \in DOMAIN other, other[n].uid = clock[i].uid PROVE n = j
          OBVIOUS
        <4>1. n \in Nat /\ j \in Nat
          BY <1>3
        <4>2. ~(n < j) /\ ~(j < n)
          BY <1>2, <1>4, <2>1, <2>2 DEF SortedItems, Sorted
        <4>3. QED
          BY <4>1, <4>2
      <3>2. QED
        BY <2>1, <2>2, <3>1 DEF NewerAt
    <2>5. answer' <=> \E m \in DOMAIN clock : m < i' /\ NewerAt(m)
      BY <1>2, <1>6, <2>1, <2>2, <2>4
    <2>6. QED
      BY <1>1, <1>7, <1>8, <2>1, <2>2, <2>3, <2>5
  <1>9. CASE OnlyInNewer
    <2>1. /\ i < Size(clock) /\ j < Size(other)
          /\ clock[i].uid < other[j].uid
          /\ answer' = TRUE
          /\ i' = i + 1 /\ j' = j /\ at' = at
      BY <1>9 DEF OnlyInNewer, BothLeft
    <2>2. Walked(clock, other, i', j') /\ i \in DOMAIN clock /\ j \in DOMAIN other
      BY <1>2, <2>1, WalkedFirst
    <2>3. NewerAt(i)
      <3> SUFFICES ASSUME NEW n \in DOMAIN other, other[n].uid = clock[i].uid PROVE FALSE
        BY DEF NewerAt
      <3>1. n \in Nat /\ j \in Nat /\ i \in Nat
        BY <1>3
      <3>2. n >= j \/ n < j
        BY <3>1
      <3>3. n >= j => clock[i].uid < other[n].uid
        BY <2>1, <2>2, <3>1 DEF Walked
      <3>4. n < j => other[n].uid < clock[i].uid
        BY <1>2, <2>2, <3>1 DEF Walked
      <3>5. QED
        BY <1>4, <2>2, <3>2, <3>3, <3>4
    <2>4. answer' <=> \E m \in DOMAIN clock : m < i' /\ NewerAt(m)
      BY <1>6, <2>1, <2>2, <2>3
    <2>5. QED
      BY <1>1, <1>2, <1>7, <1>9, <2>1, <2>2, <2>4
  <1>10. ASSUME at' = "done", answer' = VC!IsNewer(Meaning(clock), Meaning(other))
         PROVE  IsNewerInv'
    <2>1. answer' = VC!IsNewer(Meaning(clock'), Meaning(other'))
      BY <1>1, <1>10
    <2>2. IsNewerCompares'
      BY <2>1 DEF IsNewerCompares
    <2>3. QED
      BY <1>5, <1>10, <2>2 DEF IsNewerInv
  <1>11. CASE NewerInOther
    <2>1. /\ i < Size(clock) /\ j < Size(other)
          /\ \/ clock[i].uid = other[j].uid /\ clock[i].gen < other[j].gen
             \/ clock[i].uid > other[j].uid
          /\ at' = "done" /\ answer' = FALSE
      BY <1>11 DEF NewerInOther, BothLeft, Finish
    <2>2. i \in DOMAIN clock /\ j \in DOMAIN other
      BY <1>3, <2>1
    <2>3. ASSUME NEW m \in DOMAIN clock, clock[m].uid = other[j].uid, clock[m].gen >= other[j].gen
          PROVE  FALSE
      <3>1. m \in Nat /\ i \in Nat /\ j \in Nat
        BY <1>3
      <3>2. m < i => clock[m].uid < other[j].uid
        BY <1>2, <2>2, <3>1 DEF Walked
      <3>3. m > i => clock[i].uid < clock[m].uid
        BY <1>2, <2>2, <3>1 DEF SortedItems, Sorted
      <3>4. m < i \/ m > i \/ m = i
        BY <3>1
      <3>5. /\ clock[m].uid \in Nat /\ clock[i].uid \in Nat /\ other[j].uid \in Nat
            /\ clock[m].gen \in Nat /\ clock[i].gen \in Nat /\ other[j].gen \in Nat
        BY <1>4, <2>2
      <3>6. QED
        BY <2>1, <2>3, <3>2, <3>3, <3>4, <3>5
    <2>4. ~VC!IsNewer(Meaning(clock), Meaning(other))
      BY <1>2, <2>2, <2>3, ComparesClocks
    <2>5. answer' = VC!IsNewer(Meaning(clock), Meaning(other))
      BY <2>1, <2>4 DEF VC!IsNewer
    <2>6. QED
      BY <1>10, <2>1, <2>5
  <1>12. CASE EndOfWalk
    <2>1. /\ ~(i < Size(clock) /\ j < Size(other))
          /\ at' = "done" /\ answer' = (j = Size(other) /\ (answer \/ i < Size(clock)))
      BY <1>12 DEF EndOfWalk, BothLeft, Finish
    <2>2. CASE j = Size(other)
      <3>1. \A n \in DOMAIN other : n < j
        BY <1>3, <2>2
      <3>2. (\E m \in DOMAIN clock : NewerAt(m)) <=> answer \/ i < Size(clock)
        <4>1. ASSUME i < Size(clock) PROVE i \in DOMAIN clock /\ NewerAt(i)
          <5>1. i \in DOMAIN clock /\ i >= i
            BY <1>3, <4>1
          <5>2. \A n \in DOMAIN other : other[n].uid < clock[i].uid
            BY <1>2, <3>1, <5>1 DEF Walked
          <5>3. QED
            BY <1>4, <5>1, <5>2 DEF NewerAt
        <4>2. i < Size(clock) \/ \A m \in DOMAIN clock : m < i
          BY <1>3
        <4>3. QED
          BY <1>2, <4>1, <4>2
      <3>3. VC!IsNewer(Meaning(clock), Meaning(other)) <=> answer \/ i < Size(clock)
        BY <1>2, <3>1, <3>2, ComparesClocks
      <3>4. answer' = VC!IsNewer(Meaning(clock), Meaning(other))
        BY <2>1, <2>2, <3>3 DEF VC!IsNewer
      <3>5. QED
        BY <1>10, <2>1, <3>4
    <2>3. CASE j # Size(other)
      <3>1. j \in DOMAIN other /\ i = Size(clock) /\ j >= j
        BY <1>3, <2>1, <2>3
      <3>2. \A m \in DOMAIN clock : m < i
        BY <1>3, <3>1
      <3>3. \A m \in DOMAIN clock : clock[m].uid < other[j].uid
        BY <1>2, <3>1, <3>2 DEF Walked
      <3>4. ~VC!IsNewer(Meaning(clock), Meaning(other))
        BY <1>2, <1>4, <3>1, <3>3, ComparesClocks
      <3>5. answer' = VC!IsNewer(Meaning(clock), Meaning(other))
        BY <2>1, <2>3, <3>4 DEF VC!IsNewer
      <3>6. QED
        BY <1>10, <2>1, <3>5
    <2>4. QED
      BY <2>2, <2>3
  <1>13. QED
    BY <1>8, <1>9, <1>11, <1>12

-----------------------------------------------------------------------------
(***************************************************************************)
(* u1db__vectorclock_increment                                             *)
(***************************************************************************)

\* An array represents the clock whose generations its items have.
LEMMA MeaningOf ==
  ASSUME NEW a, SortedItems(a), NEW k \in [Uid -> Nat],
         \A n \in DOMAIN a : k[a[n].uid] = a[n].gen,
         \A u \in Uid : k[u] # 0 => \E n \in DOMAIN a : a[n].uid = u
  PROVE  Meaning(a) = k
  <1>1. /\ Meaning(a) \in [Uid -> Nat]
        /\ \A n \in DOMAIN a : Meaning(a)[a[n].uid] = a[n].gen
        /\ \A u \in Uid : (\A n \in DOMAIN a : a[n].uid # u) => Meaning(a)[u] = 0
    BY MeaningIs
  <1>2. ASSUME NEW u \in Uid PROVE Meaning(a)[u] = k[u]
    <2>1. CASE \E n \in DOMAIN a : a[n].uid = u
      BY <1>1, <2>1
    <2>2. CASE \A n \in DOMAIN a : a[n].uid # u
      BY <1>1, <2>2
    <2>3. QED
      BY <2>1, <2>2
  <1>3. QED
    BY <1>1, <1>2

IncrementInv ==
  /\ at \in {"search", "done"}
  /\ SortedItems(other) /\ uid \in Uid
  /\ \A n \in DOMAIN other : other[n].gen <= MaxGen
  /\ at = "search" =>
       /\ clock = other
       /\ i \in 0..Size(other)
       /\ \A m \in DOMAIN other : m < i => other[m].uid < uid
  /\ at = "done" => SortedItems(clock)
  /\ IncrementAdds

\* Every step of increment keeps its invariant.
LEMMA IncrementStep ==
  ASSUME IncrementInv, op = "increment", SearchItem \/ IncrementItem \/ AddItem
  PROVE  IncrementInv'
  <1>1. at = "search" /\ other' = other /\ uid' = uid /\ op' = op
    BY DEF SearchItem, IncrementItem, AddItem, Given
  <1>2. /\ SortedItems(other) /\ uid \in Uid /\ clock = other /\ i \in 0..Size(other)
        /\ \A n \in DOMAIN other : other[n].gen <= MaxGen
        /\ \A m \in DOMAIN other : m < i => other[m].uid < uid
    BY <1>1 DEF IncrementInv
  <1>3. /\ Size(other) \in Nat /\ other \in [0..(Size(other) - 1) -> Item]
        /\ DOMAIN other = 0..(Size(other) - 1) /\ i \in Nat /\ i <= Size(other)
    BY <1>2 DEF SortedItems, ArrayOf
  <1>4. /\ \A n \in DOMAIN other : other[n].uid \in Nat /\ other[n].uid \in Uid /\ other[n].gen \in Nat
        /\ \A n \in DOMAIN other : other[n].gen # 0
    BY <1>3, ItemIs
  <1>5. uid \in Nat
    BY <1>2, UidAssumption
  <1> DEFINE old == Meaning(other)
             new == VC!Increment(old, uid)
  <1>6. /\ old \in [Uid -> Nat]
        /\ \A n \in DOMAIN other : old[other[n].uid] = other[n].gen
        /\ \A u \in Uid : (\A n \in DOMAIN other : other[n].uid # u) => old[u] = 0
    BY <1>2, MeaningIs
  <1>7. /\ new \in [Uid -> Nat] /\ new[uid] = old[uid] + 1
        /\ \A u \in Uid : u # uid => new[u] = old[u]
    <2>1. new = [old EXCEPT ![uid] = @ + 1]
      BY DEF VC!Increment
    <2> HIDE DEF new, old
    <2>2. QED
      BY <1>2, <1>6, <2>1
  <1> HIDE DEF new, old
  <1>8. ASSUME at' = "done", SortedItems(clock'), Meaning(clock') = new
        PROVE  IncrementInv'
    <2>1. Meaning(clock') = VC!Increment(Meaning(other'), uid')
      BY <1>1, <1>8 DEF new, old
    <2>2. IncrementAdds'
      BY <1>8, <2>1 DEF IncrementAdds, SortedItems
    <2>3. QED
      BY <1>1, <1>2, <1>8, <2>2 DEF IncrementInv
  <1>9. CASE SearchItem
    <2>1. /\ i < Size(other) /\ other[i].uid < uid
          /\ i' = i + 1 /\ at' = at /\ clock' = clock
      BY <1>2, <1>9 DEF SearchItem, Stay
    <2>2. i + 1 \in 0..Size(other) /\ \A m \in DOMAIN other : m < i + 1 => m < i \/ m = i
      BY <1>3, <2>1
    <2>3. \A m \in DOMAIN other : m < i + 1 => other[m].uid < uid
      BY <1>2, <2>1, <2>2
    <2>4. IncrementAdds'
      BY <1>1, <2>1 DEF IncrementAdds, Returns
    <2>5. QED
      BY <1>1, <1>2, <2>1, <2>2, <2>3, <2>4 DEF IncrementInv
  <1>10. CASE IncrementItem
    <2>1. /\ i < Size(other) /\ other[i].uid = uid
          /\ clock' = [other EXCEPT ![i].gen = @ + 1] /\ at' = "done"
      BY <1>2, <1>10 DEF IncrementItem, Finish
    <2>2. i \in DOMAIN other
      BY <1>3, <2>1
    <2>3. /\ DOMAIN clock' = DOMAIN other
          /\ \A n \in DOMAIN other : clock'[n].uid = other[n].uid /\ clock'[n] \in Item
          /\ clock'[i].gen = other[i].gen + 1
          /\ \A n \in DOMAIN other : n # i => clock'[n] = other[n]
          /\ clock' \in [DOMAIN other -> Item]
      <3>1. other[i] \in Item /\ other[i].gen <= MaxGen /\ other[i].gen \in 1..(MaxGen + 1)
        BY <1>2, <1>3, <2>2 DEF Item
      <3>2. other[i].gen + 1 \in 1..(MaxGen + 1)
        BY <3>1, MaxGenAssumption
      <3>3. [other[i] EXCEPT !.gen = @ + 1] \in Item
        BY <3>1, <3>2 DEF Item
      <3>4. /\ clock' = [other EXCEPT ![i] = [other[i] EXCEPT !.gen = @ + 1]]
            /\ [other[i] EXCEPT !.gen = @ + 1].uid = other[i].uid
            /\ [other[i] EXCEPT !.gen = @ + 1].gen = other[i].gen + 1
        BY <2>1, <2>2, <3>1 DEF Item
      <3>5. QED
        BY <1>3, <2>2, <3>3, <3>4
    <2>4. Size(clock') = Size(other)
      BY <2>3 DEF Size
    <2>5. SortedItems(clock')
      BY <1>2, <1>3, <2>3, <2>4 DEF SortedItems, ArrayOf, Sorted
    <2>6. \A n \in DOMAIN clock' : new[clock'[n].uid] = clock'[n].gen
      <3> SUFFICES ASSUME NEW n \in DOMAIN other PROVE new[clock'[n].uid] = clock'[n].gen
        BY <2>3
      <3>1. CASE n = i
        BY <1>6, <1>7, <2>1, <2>2, <2>3, <3>1
      <3>2. CASE n # i
        <4>1. n \in Nat /\ i \in Nat
          BY <1>3
        <4>2. n < i \/ i < n
          BY <3>2, <4>1
        <4>3. other[n].uid < other[i].uid \/ other[i].uid < other[n].uid
          BY <1>2, <2>2, <4>2 DEF SortedItems, Sorted
        <4>4. other[n].uid # uid
          BY <1>4, <2>1, <2>2, <4>3
        <4>5. QED
          BY <1>4, <1>6, <1>7, <2>3, <3>2, <4>4
      <3>3. QED
        BY <3>1, <3>2
    <2>7. \A u \in Uid : new[u] # 0 => \E n \in DOMAIN clock' : clock'[n].uid = u
      <3> SUFFICES ASSUME NEW u \in Uid, new[u] # 0
                   PROVE  \E n \in DOMAIN other : other[n].uid = u
        BY <2>3
      <3>1. CASE u = uid
        BY <2>1, <2>2, <3>1
      <3>2. CASE u # uid
        BY <1>6, <1>7, <3>2
      <3>3. QED
        BY <3>1, <3>2
    <2>8. Meaning(clock') = new
      <3>1. \A a : SortedItems(a) /\ (\A n \in DOMAIN a : new[a[n].uid] = a[n].gen)
                   /\ (\A u \in Uid : new[u] # 0 => \E n \in DOMAIN a : a[n].uid = u)
                   => Meaning(a) = new
        BY <1>7, MeaningOf
      <3>2. QED
        BY <2>5, <2>6, <2>7, <3>1
    <2>9. QED
      BY <1>8, <2>1, <2>5, <2>8
  <1>11. CASE AddItem
    <2> DEFINE added == [uid |-> uid, gen |-> 1]
               size == Size(other)
    <2>1. /\ i < size => uid < other[i].uid
          /\ clock' = [n \in 0..size |->
               CASE n < i -> other[n] [] n = i -> added [] n > i -> other[n - 1]]
          /\ at' = "done"
      BY <1>2, <1>11 DEF AddItem, Finish
    <2>2. added \in Item
      BY <1>2, MaxGenAssumption DEF Item
    <2>3. added.uid = uid /\ added.gen = 1
      OBVIOUS
    <2> HIDE DEF added, size
    <2>4. DOMAIN clock' = 0..size /\ size \in Nat /\ i \in 0..size
      BY <1>3, <2>1 DEF size
    <2>5. /\ \A n \in 0..size : n < i => n \in DOMAIN other /\ clock'[n] = other[n]
          /\ clock'[i] = added
          /\ \A n \in 0..size : n > i => n - 1 \in DOMAIN other /\ clock'[n] = other[n - 1]
                                        /\ n - 1 >= i
      <3>1. ASSUME NEW n \in 0..size, n < i PROVE n \in DOMAIN other /\ clock'[n] = other[n]
        <4>1. n \in DOMAIN other /\ ~(n = i) /\ ~(n > i)
          BY <1>3, <2>4, <3>1 DEF size
        <4>2. QED
          BY <2>1, <3>1, <4>1
      <3>2. clock'[i] = added
        <4>1. ~(i < i) /\ ~(i > i)
          BY <1>3
        <4>2. QED
          BY <2>1, <2>4, <4>1
      <3>3. ASSUME NEW n \in 0..size, n > i
            PROVE  n - 1 \in DOMAIN other /\ clock'[n] = other[n - 1] /\ n - 1 >= i
        <4>1. n - 1 \in DOMAIN other /\ ~(n = i) /\ ~(n < i) /\ n - 1 >= i
          BY <1>3, <2>4, <3>3 DEF size
        <4>2. QED
          BY <2>1, <3>3, <4>1
      <3>4. QED
        BY <3>1, <3>2, <3>3
    <2>6. \A n \in 0..size : clock'[n] \in Item
      <3>1. \A n \in 0..size : n < i \/ n = i \/ n > i
        BY <1>3, <2>4
      <3>2. QED
        BY <1>3, <2>2, <2>5, <3>1
    <2>7. Size(clock') = size + 1
      <3>1. size + 1 \in Nat /\ size = (size + 1) - 1
        BY <2>4
      <3>2. DOMAIN clock' = 0..((size + 1) - 1)
        BY <2>4, <3>1
      <3> HIDE DEF size
      <3>3. QED
        BY <3>1, <3>2, SizeIs
    <2>8. ArrayOf(clock', Item)
      <3>1. size + 1 \in Nat /\ 0..((size + 1) - 1) = 0..size
        BY <2>4
      <3>2. clock' \in [0..size -> Item]
        BY <2>1, <2>6
      <3>3. QED
        BY <2>7, <3>1, <3>2 DEF ArrayOf
    <2>9. \A n \in DOMAIN other : n >= i => uid < other[n].uid
      <3> SUFFICES ASSUME NEW n \in DOMAIN other, n >= i PROVE uid < other[n].uid
        OBVIOUS
      <3>1. i \in DOMAIN other /\ i < size /\ (n = i \/ i < n)
        BY <1>3 DEF size
      <3>2. n = i \/ other[i].uid < other[n].uid
        BY <1>2, <3>1 DEF SortedItems, Sorted
      <3>3. QED
        BY <1>4, <1>5, <2>1, <3>1, <3>2
    <2>10. Sorted(clock')
      <3> SUFFICES ASSUME NEW m \in 0..size, NEW n \in 0..size, m < n
                   PROVE  clock'[m].uid < clock'[n].uid
        BY <2>4 DEF Sorted
      <3>0. m \in Nat /\ n \in Nat /\ i \in Nat
        BY <1>3, <2>4
      <3>1. CASE n < i
        <4>1. m < i
          BY <3>0, <3>1
        <4>2. QED
          BY <1>2, <2>5, <3>1, <4>1 DEF SortedItems, Sorted
      <3>2. CASE n = i
        BY <1>2, <2>3, <2>5, <3>2
      <3>3. CASE n > i /\ m < i
        <4>1. m < n - 1
          BY <3>0, <3>3
        <4>2. QED
          BY <1>2, <2>5, <3>3, <4>1 DEF SortedItems, Sorted
      <3>4. CASE n > i /\ m = i
        BY <2>3, <2>5, <2>9, <3>4
      <3>5. CASE n > i /\ m > i
        <4>1. m - 1 < n - 1
          BY <3>0
        <4>2. QED
          BY <1>2, <2>5, <3>5, <4>1 DEF SortedItems, Sorted
      <3>6. QED
        BY <3>0, <3>1, <3>2, <3>3, <3>4, <3>5
    <2>11. \A n \in DOMAIN other : other[n].uid # uid
      <3> SUFFICES ASSUME NEW n \in DOMAIN other PROVE other[n].uid # uid
        OBVIOUS
      <3>1. n < i \/ n >= i
        BY <1>3
      <3>2. QED
        BY <1>2, <1>4, <1>5, <2>9, <3>1
    <2>12. old[uid] = 0
      BY <1>2, <1>6, <2>11
    <2>13. \A n \in DOMAIN clock' : new[clock'[n].uid] = clock'[n].gen
      <3> SUFFICES ASSUME NEW n \in 0..size PROVE new[clock'[n].uid] = clock'[n].gen
        BY <2>4
      <3>1. n < i \/ n = i \/ n > i
        BY <1>3, <2>4
      <3>2. \A m \in DOMAIN other : new[other[m].uid] = other[m].gen
        BY <1>4, <1>6, <1>7, <2>11
      <3>3. new[uid] = 1
        BY <1>7, <2>12
      <3>4. QED
        BY <2>3, <2>5, <3>1, <3>2, <3>3
    <2>14. \A u \in Uid : new[u] # 0 => \E n \in DOMAIN clock' : clock'[n].uid = u
      <3> SUFFICES ASSUME NEW u \in Uid, new[u] # 0
                   PROVE  \E n \in 0..size : clock'[n].uid = u
        BY <2>4
      <3>1. CASE u = uid
        BY <2>3, <2>4, <2>5, <3>1
      <3>2. CASE u # uid
        <4>1. PICK m \in DOMAIN other : other[m].uid = u
          BY <1>6, <1>7, <3>2
        <4>2. CASE m < i
          BY <1>3, <2>4, <2>5, <4>1, <4>2 DEF size
        <4>3. CASE m >= i
          <5>1. m + 1 \in 0..size /\ m + 1 > i /\ (m + 1) - 1 = m
            BY <1>3, <2>4, <4>3 DEF size
          <5>2. clock'[m + 1] = other[m]
            BY <2>5, <5>1
          <5>3. QED
            BY <4>1, <5>1, <5>2
        <4>4. QED
          BY <1>3, <4>2, <4>3
      <3>3. QED
        BY <3>1, <3>2
    <2>15. SortedItems(clock')
      BY <2>8, <2>10 DEF SortedItems
    <2>16. Meaning(clock') = new
      <3>1. \A a : SortedItems(a) /\ (\A n \in DOMAIN a : new[a[n].uid] = a[n].gen)
                   /\ (\A u \in Uid : new[u] # 0 => \E n \in DOMAIN a : a[n].uid = u)
                   => Meaning(a) = new
        BY <1>7, MeaningOf
      <3>2. QED
        BY <2>13, <2>14, <2>15, <3>1
    <2>17. QED
      BY <1>8, <2>1, <2>15, <2>16
  <1>12. QED
    BY <1>9, <1>10, <1>11

-----------------------------------------------------------------------------
(***************************************************************************)
(* u1db__vectorclock_from_str                                              *)
(***************************************************************************)
Slot == Item \cup {Blank}
Field == [uid : Uid, gen : 1..MaxGen] \cup {Malformed}
Others(k, h) == {n \in 0..k : n # h}

\* The first k fields of the text t are in the slots to k but h, in order.
Filled(a, t, k, h) ==
  /\ \A m, n \in Others(k, h) : m < n => a[m].uid < a[n].uid
  /\ {a[n] : n \in Others(k, h)} = {t[n] : n \in 0..(k - 1)}

\* A field that is not malformed is an item.
LEMMA FieldIs ==
  ASSUME NEW x \in Field, x # Malformed
  PROVE  x \in Item
  <1>1. \A g \in 1..MaxGen : g \in 1..(MaxGen + 1)
    BY MaxGenAssumption
  <1>2. QED
    BY <1>1 DEF Field, Item

\* The field is put into the free slot.
LEMMA FieldPlaced ==
  ASSUME NEW size \in Nat, NEW a \in [0..(size - 1) -> Slot], NEW t,
         NEW k \in Nat, k < size, NEW h \in 0..k, t[k] \in Item,
         \A n \in 0..(k - 1) : t[n] \in Item,
         Filled(a, t, k, h),
         h > 0 => a[h - 1].uid < t[k].uid,
         \A n \in Others(k, h) : n > h => t[k].uid < a[n].uid
  PROVE  Filled([a EXCEPT ![h] = t[k]], t, k + 1, k + 1)
  <1> DEFINE b == [a EXCEPT ![h] = t[k]]
  <1>1. /\ h \in 0..(size - 1) /\ Others(k, h) \subseteq 0..(size - 1) /\ h \in Nat
        /\ Others(k, h) \subseteq Nat
    BY DEF Others
  <1>2. b[h] = t[k] /\ \A n \in Others(k, h) : b[n] = a[n]
    BY <1>1 DEF Others
  <1>3. Others(k + 1, k + 1) = Others(k, h) \cup {h}
    BY DEF Others
  <1>4. \A n \in Others(k, h) : a[n].uid \in Nat
    <2>1. \A n \in Others(k, h) : a[n] \in {t[m] : m \in 0..(k - 1)}
      BY DEF Filled
    <2>2. QED
      BY <2>1, ItemIs
  <1>5. t[k].uid \in Nat
    BY ItemIs
  <1>6. \A n \in Others(k, h) : n < h => a[n].uid < t[k].uid
    <2> SUFFICES ASSUME NEW n \in Others(k, h), n < h PROVE a[n].uid < t[k].uid
      OBVIOUS
    <2>1. n \in Nat /\ h > 0 /\ h - 1 \in Others(k, h) /\ (n = h - 1 \/ n < h - 1)
      BY <1>1 DEF Others
    <2>2. n = h - 1 \/ a[n].uid < a[h - 1].uid
      BY <2>1 DEF Filled
    <2>3. a[h - 1].uid < t[k].uid /\ a[h - 1].uid \in Nat /\ a[n].uid \in Nat
      BY <1>4, <2>1
    <2>4. QED
      BY <1>5, <2>2, <2>3
  <1>7. ASSUME NEW m \in Others(k + 1, k + 1), NEW n \in Others(k + 1, k + 1), m < n
        PROVE  b[m].uid < b[n].uid
    <2>1. CASE m = h
      <3>1. n \in Others(k, h) /\ n > h
        BY <1>1, <1>3, <1>7, <2>1
      <3>2. QED
        BY <1>2, <2>1, <3>1
    <2>2. CASE n = h
      <3>1. m \in Others(k, h) /\ m < h
        BY <1>1, <1>3, <1>7, <2>2
      <3>2. QED
        BY <1>2, <1>6, <2>2, <3>1
    <2>3. CASE m # h /\ n # h
      BY <1>2, <1>3, <1>7, <2>3 DEF Filled
    <2>4. QED
      BY <2>1, <2>2, <2>3
  <1>8. {b[n] : n \in Others(k + 1, k + 1)} = {t[n] : n \in 0..((k + 1) - 1)}
    <2>1. {b[n] : n \in Others(k + 1, k + 1)} = {a[n] : n \in Others(k, h)} \cup {t[k]}
      <3> HIDE DEF b
      <3>1. QED
        BY <1>2, <1>3
    <2>2. \A n : n \in 0..((k + 1) - 1) <=> n \in 0..(k - 1) \/ n = k
      OBVIOUS
    <2>3. {t[n] : n \in 0..((k + 1) - 1)} = {t[n] : n \in 0..(k - 1)} \cup {t[k]}
      BY <2>2
    <2>4. QED
      BY <2>1, <2>3 DEF Filled
  <1> HIDE DEF b
  <1>9. QED
    BY <1>7, <1>8 DEF Filled, b

\* The free slot moves down: the item before it moves into it.
LEMMA SlotMoved ==
  ASSUME NEW size \in Nat, NEW a \in [0..(size - 1) -> Slot], NEW t,
         NEW k \in Nat, k < size, NEW h \in 0..k, h > 0,
         Filled(a, t, k, h),
         t[k].uid < a[h - 1].uid,
         \A n \in Others(k, h) : n > h => t[k].uid < a[n].uid,
         NEW b, b = [a EXCEPT ![h] = a[h - 1], ![h - 1] = Blank]
  PROVE  /\ Filled(b, t, k, h - 1)
         /\ \A n \in Others(k, h - 1) : n > h - 1 => t[k].uid < b[n].uid
  <1>1. /\ h \in 0..(size - 1) /\ h - 1 \in 0..(size - 1) /\ h \in Nat /\ h - 1 \in Nat
        /\ Others(k, h) \subseteq 0..(size - 1) /\ h - 1 \in Others(k, h)
        /\ h \in Others(k, h - 1) /\ h # h - 1
    BY DEF Others
  <1>2. /\ b[h] = a[h - 1]
        /\ \A n \in Others(k, h - 1) : n # h => n \in Others(k, h) /\ n # h - 1 /\ b[n] = a[n]
    BY <1>1 DEF Others
  <1>3. \A n \in Others(k, h) : n # h - 1 => n \in Others(k, h - 1) /\ n # h
    BY DEF Others
  <1>4. ASSUME NEW m \in Others(k, h - 1), NEW n \in Others(k, h - 1), m < n
        PROVE  b[m].uid < b[n].uid
    <2>0. m \in Nat /\ n \in Nat
      BY DEF Others
    <2>1. CASE m = h
      <3>1. n # h /\ n \in Others(k, h) /\ h - 1 < n
        BY <1>1, <1>2, <1>4, <2>0, <2>1
      <3>2. a[h - 1].uid < a[n].uid
        BY <1>1, <3>1 DEF Filled
      <3>3. QED
        BY <1>2, <2>1, <3>1, <3>2
    <2>2. CASE n = h
      <3>1. m # h /\ m \in Others(k, h) /\ m < h - 1
        BY <1>1, <1>2, <1>4, <2>0, <2>2
      <3>2. a[m].uid < a[h - 1].uid
        BY <1>1, <3>1 DEF Filled
      <3>3. QED
        BY <1>2, <2>2, <3>1, <3>2
    <2>3. CASE m # h /\ n # h
      BY <1>2, <1>4, <2>3 DEF Filled
    <2>4. QED
      BY <2>1, <2>2, <2>3
  <1>5. {b[n] : n \in Others(k, h - 1)} = {a[n] : n \in Others(k, h)}
    <2>1. ASSUME NEW n \in Others(k, h - 1)
          PROVE  b[n] \in {a[m] : m \in Others(k, h)}
      BY <1>1, <1>2
    <2>2. ASSUME NEW n \in Others(k, h)
          PROVE  a[n] \in {b[m] : m \in Others(k, h - 1)}
      <3>1. CASE n = h - 1
        BY <1>1, <1>2, <3>1
      <3>2. CASE n # h - 1
        BY <1>2, <1>3, <3>2
      <3>3. QED
        BY <3>1, <3>2
    <2>3. QED
      BY <2>1, <2>2
  <1>6. ASSUME NEW n \in Others(k, h - 1), n > h - 1
        PROVE  t[k].uid < b[n].uid
    <2>1. n = h \/ n > h
      BY <1>1, <1>6 DEF Others
    <2>2. QED
      BY <1>1, <1>2, <2>1
  <1>7. QED
    BY <1>4, <1>5, <1>6 DEF Filled

Hole == IF at = "insert" THEN j ELSE i

FromStrInv ==
  /\ at \in {"field", "insert", "done"}
  /\ ArrayOf(text, Field) /\ ArrayOf(clock, Slot) /\ Size(clock) = Size(text)
  /\ at # "done" =>
       /\ i \in 0..Size(text)
       /\ \A n \in 0..(i - 1) : text[n] \in Item
       /\ \A m, n \in 0..(i - 1) : m # n => text[m].uid # text[n].uid
       /\ Filled(clock, text, i, Hole)
  /\ at = "insert" =>
       /\ i < Size(text) /\ text[i] \in Item /\ j \in 0..i
       /\ \A n \in Others(i, j) : n > j => text[i].uid < clock[n].uid
  /\ at = "done" /\ answer => ArrayOf(clock, Item)
  /\ FromStrSorts

\* The slots that are filled have the fields read so far, each in one of them.
LEMMA FilledIs ==
  ASSUME NEW a, NEW t, NEW k, NEW h, Filled(a, t, k, h), \A n \in 0..(k - 1) : t[n] \in Item
  PROVE  /\ \A n \in Others(k, h) : a[n] \in Item /\ \E m \in 0..(k - 1) : a[n] = t[m]
         /\ \A m \in 0..(k - 1) : \E n \in Others(k, h) : t[m] = a[n]
  <1>1. {a[n] : n \in Others(k, h)} = {t[n] : n \in 0..(k - 1)}
    BY DEF Filled
  <1>2. \A n \in Others(k, h) : \E m \in 0..(k - 1) : a[n] = t[m]
    BY <1>1
  <1>3. \A m \in 0..(k - 1) : \E n \in Others(k, h) : t[m] = a[n]
    BY <1>1
  <1>4. QED
    BY <1>2, <1>3

\* Every step of from_str keeps its invariant.
LEMMA FromStrStep ==
  ASSUME FromStrInv, op = "from_str", NextField \/ InsertItem
  PROVE  FromStrInv'
  <1>1. text' = text /\ op' = op /\ at \in {"field", "insert"}
    BY DEF NextField, InsertItem, Given
  <1> DEFINE size == Size(text)
  <1>2. /\ size \in Nat /\ text \in [0..(size - 1) -> Field] /\ clock \in [0..(size - 1) -> Slot]
        /\ DOMAIN text = 0..(size - 1) /\ DOMAIN clock = 0..(size - 1) /\ Size(clock) = size
        /\ ArrayOf(text, Field) /\ ArrayOf(clock, Slot)
    BY DEF FromStrInv, ArrayOf
  <1>3. /\ i \in 0..size /\ i \in Nat
        /\ \A n \in 0..(i - 1) : text[n] \in Item
        /\ \A m, n \in 0..(i - 1) : m # n => text[m].uid # text[n].uid
        /\ Filled(clock, text, i, Hole)
    BY <1>1 DEF FromStrInv
  <1>4. \A x \in Field : x = Malformed \/ x \in Item
    BY FieldIs
  <1> HIDE DEF size
  <1>5. ASSUME at' = "done", answer' = FALSE, clock' = clock,
               \/ \E n \in DOMAIN text : text[n] = Malformed
               \/ \E m, n \in DOMAIN text : m # n /\ text[m].uid = text[n].uid
        PROVE  FromStrInv'
    <2>1. Malformed \in {text[n] : n \in DOMAIN text} \/
          \E m, n \in DOMAIN text : m # n /\ text[m].uid = text[n].uid
      BY <1>5
    <2>2. FromStrSorts'
      BY <1>1, <1>5, <2>1 DEF FromStrSorts
    <2>3. QED
      BY <1>1, <1>2, <1>5, <2>2 DEF FromStrInv, size
  <1>6. ASSUME at' = "field", clock' \in [0..(size - 1) -> Slot], i' \in 0..size,
               \A n \in 0..(i' - 1) : text[n] \in Item,
               \A m, n \in 0..(i' - 1) : m # n => text[m].uid # text[n].uid,
               Filled(clock', text, i', i')
        PROVE  FromStrInv'
    <2>1. Size(clock') = size
      BY <1>2, <1>6, SizeIs
    <2>2. ArrayOf(clock', Slot)
      BY <1>2, <1>6, <2>1 DEF ArrayOf
    <2>3. Hole' = i'
      BY <1>6 DEF Hole
    <2>4. FromStrSorts'
      BY <1>6 DEF FromStrSorts, Returns
    <2>5. QED
      BY <1>1, <1>2, <1>6, <2>1, <2>2, <2>3, <2>4 DEF FromStrInv, size
  <1>7. ASSUME at' = "insert", clock' \in [0..(size - 1) -> Slot], i' = i,
               i < size, text[i] \in Item, j' \in 0..i,
               Filled(clock', text, i, j'),
               \A n \in Others(i, j') : n > j' => text[i].uid < clock'[n].uid
        PROVE  FromStrInv'
    <2>1. Size(clock') = size
      BY <1>2, <1>7, SizeIs
    <2>2. ArrayOf(clock', Slot)
      BY <1>2, <1>7, <2>1 DEF ArrayOf
    <2>3. Hole' = j'
      BY <1>7 DEF Hole
    <2>4. FromStrSorts'
      BY <1>7 DEF FromStrSorts, Returns
    <2>5. QED
      BY <1>1, <1>2, <1>3, <1>7, <2>1, <2>2, <2>3, <2>4 DEF FromStrInv, size
  <1>8. CASE NextField
    <2>0. at = "field" /\ Hole = i /\ clock' = clock /\ i' = i
      BY <1>8 DEF NextField, Hole
    <2>1. CASE i = size /\ at' = "done" /\ answer' = TRUE
      <3>1. DOMAIN text = 0..(i - 1) /\ Others(i, i) = 0..(i - 1) /\ DOMAIN clock = 0..(i - 1)
        BY <1>2, <1>3, <2>1 DEF Others
      <3>2. Malformed \notin {text[n] : n \in DOMAIN text}
        <4>1. ASSUME NEW n \in DOMAIN text PROVE text[n] # Malformed
          <5>1. text[n].uid # 0
            BY <1>3, <3>1, ItemIs
          <5>2. QED
            BY <5>1 DEF Malformed
        <4>2. QED
          BY <4>1
      <3>3. ~ \E m, n \in DOMAIN text : m # n /\ text[m].uid = text[n].uid
        BY <1>3, <3>1
      <3>4. Sorted(clock) /\ {clock[n] : n \in DOMAIN clock} = {text[n] : n \in DOMAIN text}
        BY <1>3, <2>0, <3>1 DEF Filled, Sorted
      <3>5. FromStrSorts'
        BY <1>1, <2>0, <2>1, <3>2, <3>3, <3>4 DEF FromStrSorts
      <3>6. \A n \in DOMAIN clock : clock[n] \in Item
        BY <1>3, <2>0, <3>1, FilledIs
      <3>7. ArrayOf(clock, Item)
        BY <1>2, <3>6 DEF ArrayOf
      <3>8. QED
        BY <1>1, <1>2, <2>0, <2>1, <3>5, <3>7 DEF FromStrInv, size
    <2>2. CASE i < size /\ text[i] = Malformed /\ at' = "done" /\ answer' = FALSE
      <3>1. i \in DOMAIN text
        BY <1>2, <1>3, <2>2
      <3>2. QED
        BY <1>5, <2>0, <2>2, <3>1
    <2>3. CASE i < size /\ text[i] # Malformed /\ at' = "insert" /\ j' = i
      <3>1. i \in 0..(size - 1)
        BY <1>2, <1>3, <2>3
      <3>2. text[i] \in Item
        BY <1>2, <1>4, <2>3, <3>1
      <3>3. i \in 0..i /\ \A n \in Others(i, i) : ~(n > i)
        BY <1>3 DEF Others
      <3>4. QED
        BY <1>2, <1>3, <1>7, <2>0, <2>3, <3>2, <3>3
    <2>4. QED
      BY <1>8, <2>1, <2>2, <2>3 DEF NextField, Finish, size
  <1>9. CASE InsertItem
    <2>0. at = "insert" /\ Hole = j
      BY <1>9 DEF InsertItem, Hole
    <2>1. /\ i < size /\ text[i] \in Item /\ j \in 0..i /\ j \in Nat
          /\ \A n \in Others(i, j) : n > j => text[i].uid < clock[n].uid
          /\ Filled(clock, text, i, j)
          /\ i \in 0..(size - 1) /\ j \in 0..(size - 1)
      BY <1>2, <1>3, <2>0 DEF FromStrInv, size
    <2>2. j > 0 => j - 1 \in Others(i, j) /\ j - 1 \in 0..(size - 1)
      BY <1>2, <2>1 DEF Others
    <2>3. CASE /\ j > 0 => clock[j - 1].uid < text[i].uid
               /\ clock' = [clock EXCEPT ![j] = text[i]]
               /\ at' = "field" /\ i' = i + 1
      <3>1. Filled(clock', text, i + 1, i + 1)
        BY <1>2, <1>3, <2>1, <2>3, FieldPlaced
      <3>2. clock' \in [0..(size - 1) -> Slot]
        BY <1>2, <2>1, <2>3 DEF Slot
      <3>3. /\ i + 1 \in 0..size
            /\ \A n \in 0..((i + 1) - 1) : n \in 0..(i - 1) \/ n = i
        BY <1>2, <1>3, <2>1
      <3>4. \A n \in 0..((i + 1) - 1) : text[n] \in Item
        BY <1>3, <2>1, <3>3
      <3>5. \A n \in 0..(i - 1) : text[n].uid # text[i].uid
        <4> SUFFICES ASSUME NEW n \in 0..(i - 1) PROVE text[n].uid # text[i].uid
          OBVIOUS
        <4>1. PICK m \in Others(i, j) : text[n] = clock[m] /\ clock[m] \in Item
          BY <1>3, <2>1, FilledIs
        <4>2. m \in Nat /\ (m > j \/ (j > 0 /\ (m = j - 1 \/ m < j - 1)))
          BY <2>1 DEF Others
        <4>3. clock[m].uid \in Nat /\ text[i].uid \in Nat
          BY <2>1, <4>1, ItemIs
        <4>4. CASE m > j
          BY <2>1, <4>1, <4>3, <4>4
        <4>5. CASE j > 0 /\ (m = j - 1 \/ m < j - 1)
          <5>1. clock[j - 1].uid \in Nat
            BY <1>3, <2>1, <2>2, <4>5, FilledIs, ItemIs
          <5>2. clock[m].uid = clock[j - 1].uid \/ clock[m].uid < clock[j - 1].uid
            BY <2>1, <2>2, <4>5 DEF Filled
          <5>3. QED
            BY <2>3, <4>1, <4>3, <4>5, <5>1, <5>2
        <4>6. QED
          BY <4>2, <4>4, <4>5
      <3>6. \A m, n \in 0..((i + 1) - 1) : m # n => text[m].uid # text[n].uid
        BY <1>3, <3>3, <3>5
      <3>7. QED
        BY <1>6, <2>3, <3>1, <3>2, <3>3, <3>4, <3>6
    <2>4. CASE /\ j > 0 /\ clock[j - 1].uid = text[i].uid
               /\ at' = "done" /\ answer' = FALSE /\ clock' = clock
      <3>1. PICK n \in 0..(i - 1) : clock[j - 1] = text[n]
        BY <1>3, <2>1, <2>2, <2>4, FilledIs
      <3>2. n \in DOMAIN text /\ i \in DOMAIN text /\ n # i
        BY <1>2, <1>3, <2>1
      <3>3. text[n].uid = text[i].uid
        BY <2>4, <3>1
      <3>4. QED
        BY <1>5, <2>4, <3>2, <3>3
    <2>5. CASE /\ j > 0 /\ clock[j - 1].uid > text[i].uid
               /\ clock' = [clock EXCEPT ![j] = clock[j - 1], ![j - 1] = Blank]
               /\ j' = j - 1 /\ at' = at /\ i' = i
      <3>1. text[i].uid < clock[j - 1].uid
        <4>1. text[i].uid \in Nat /\ clock[j - 1].uid \in Nat
          BY <1>3, <2>1, <2>2, <2>5, FilledIs, ItemIs
        <4>2. QED
          BY <2>5, <4>1
      <3>2. /\ Filled(clock', text, i, j - 1)
            /\ \A n \in Others(i, j - 1) : n > j - 1 => text[i].uid < clock'[n].uid
        <4>1. clock \in [0..(size - 1) -> Slot] /\ size \in Nat /\ i \in Nat
          BY <1>2, <1>3
        <4> DEFINE b == [clock EXCEPT ![j] = clock[j - 1], ![j - 1] = Blank]
        <4>2. b = [clock EXCEPT ![j] = clock[j - 1], ![j - 1] = Blank] /\ clock' = b
          BY <2>5
        <4> HIDE DEF b
        <4>3. \A h \in 0..i : \A c : h = j /\ c = b =>
                /\ Filled(c, text, i, h - 1)
                /\ \A n \in Others(i, h - 1) : n > h - 1 => text[i].uid < c[n].uid
          <5> SUFFICES ASSUME NEW h \in 0..i, h = j, NEW c, c = b
                       PROVE  /\ Filled(c, text, i, h - 1)
                              /\ \A n \in Others(i, h - 1) : n > h - 1 => text[i].uid < c[n].uid
            OBVIOUS
          <5>1. c = [clock EXCEPT ![h] = clock[h - 1], ![h - 1] = Blank]
            BY <4>2
          <5>2. /\ Filled(clock, text, i, h) /\ text[i].uid < clock[h - 1].uid /\ h > 0 /\ i < size
                /\ \A n \in Others(i, h) : n > h => text[i].uid < clock[n].uid
            BY <2>1, <2>5, <3>1
          <5>3. QED
            BY <4>1, <5>1, <5>2, SlotMoved
        <4>4. QED
          BY <2>1, <4>2, <4>3
      <3>3. clock' \in [0..(size - 1) -> Slot] /\ j - 1 \in 0..i
        BY <1>2, <1>3, <2>1, <2>2, <2>5 DEF Slot
      <3>4. QED
        BY <1>7, <2>0, <2>1, <2>5, <3>2, <3>3
    <2>6. QED
      BY <1>9, <2>3, <2>4, <2>5 DEF InsertItem, Finish, Stay
  <1>10. QED
    BY <1>8, <1>9

-----------------------------------------------------------------------------
(***************************************************************************)
(* u1db__vectorclock_maximize: the list of inserts.                        *)
(***************************************************************************)
Insert == [offset : Nat, from : Nat]

\* Where in the first array the k-th insert of the list q goes.
Place(q, k) == q[k].offset - (Len(q) - k)

\* The inserts of the list q, from the array b into the array t, go to places
\* up to r, each where it belongs, the last of them first.
Noted(t, b, q, r) ==
  /\ q \in Seq(Insert)
  /\ \A k \in 1..Len(q) :
       /\ q[k].from \in DOMAIN b /\ Place(q, k) \in 0..r
       /\ \A m \in DOMAIN t :
            /\ m < Place(q, k) => t[m].uid < b[q[k].from].uid
            /\ m >= Place(q, k) => b[q[k].from].uid < t[m].uid
  /\ \A k, l \in 1..Len(q) : k < l => Place(q, l) <= Place(q, k) /\ q[l].from < q[k].from

\* More places may be to come.
LEMMA NotedMore ==
  ASSUME NEW t, NEW b, NEW q, NEW r \in Nat, NEW s \in Nat, r <= s, Noted(t, b, q, r)
  PROVE  Noted(t, b, q, s)
  <1>1. \A x \in 0..r : x \in 0..s
    OBVIOUS
  <1>2. QED
    BY <1>1 DEF Noted

\* One more is put in front of the list.
LEMMA NotedOneMore ==
  ASSUME NEW t, NEW b, NEW q, NEW r \in Nat, NEW n \in DOMAIN b, n \in Nat,
         Noted(t, b, q, r),
         \A k \in 1..Len(q) : q[k].from < n,
         \A m \in DOMAIN t : (m < r => t[m].uid < b[n].uid) /\ (m >= r => b[n].uid < t[m].uid),
         NEW x \in Insert, x.offset = r + Len(q), x.from = n
  PROVE  /\ Noted(t, b, <<x>> \o q, r)
         /\ Len(<<x>> \o q) = Len(q) + 1
         /\ (<<x>> \o q)[1].from = n
         /\ \A k \in 1..Len(q) : (<<x>> \o q)[k + 1].from = q[k].from
  <1> SUFFICES ASSUME NEW p, p = <<x>> \o q
               PROVE  /\ Noted(t, b, p, r)
                      /\ Len(p) = Len(q) + 1
                      /\ p[1].from = n
                      /\ \A k \in 1..Len(q) : p[k + 1].from = q[k].from
    OBVIOUS
  <1>1. q \in Seq(Insert) /\ Len(q) \in Nat /\ x \in Insert
    BY DEF Noted
  <1>2. x.offset = r + Len(q) /\ x.from = n
    OBVIOUS
  <1>3. p = <<x>> \o q
    OBVIOUS
  <1>4. /\ p \in Seq(Insert) /\ Len(p) = Len(q) + 1 /\ p[1] = x
        /\ \A k \in 1..Len(q) : p[k + 1] = q[k]
    BY <1>1, <1>3
  <1>5. Place(p, 1) = r /\ \A k \in 1..Len(q) : Place(p, k + 1) = Place(q, k)
    <2>1. Place(p, 1) = r
      BY <1>1, <1>2, <1>4 DEF Place
    <2>2. ASSUME NEW k \in 1..Len(q) PROVE Place(p, k + 1) = Place(q, k)
      <3>1. q[k].offset \in Nat
        <4>1. q[k] \in Insert
          BY <1>1
        <4>2. QED
          BY <4>1 DEF Insert
      <3>2. QED
        BY <1>1, <1>4, <3>1 DEF Place
    <2>3. QED
      BY <2>1, <2>2
  <1>6. \A k \in 1..Len(p) : k = 1 \/ \E l \in 1..Len(q) : k = l + 1
    <2> SUFFICES ASSUME NEW k \in 1..Len(p), k # 1 PROVE \E l \in 1..Len(q) : k = l + 1
      OBVIOUS
    <2>1. k - 1 \in 1..Len(q) /\ k = (k - 1) + 1
      BY <1>1, <1>4
    <2>2. QED
      BY <2>1
  <1>7. ASSUME NEW k \in 1..Len(p)
        PROVE  /\ p[k].from \in DOMAIN b /\ Place(p, k) \in 0..r
               /\ \A m \in DOMAIN t :
                    /\ m < Place(p, k) => t[m].uid < b[p[k].from].uid
                    /\ m >= Place(p, k) => b[p[k].from].uid < t[m].uid
    <2>1. CASE k = 1
      BY <1>2, <1>4, <1>5, <2>1
    <2>2. CASE \E l \in 1..Len(q) : k = l + 1
      BY <1>4, <1>5, <2>2 DEF Noted
    <2>3. QED
      BY <1>6, <2>1, <2>2
  <1>8. ASSUME NEW k \in 1..Len(p), NEW l \in 1..Len(p), k < l
        PROVE  Place(p, l) <= Place(p, k) /\ p[l].from < p[k].from
    <2>1. PICK l1 \in 1..Len(q) : l = l1 + 1
      BY <1>1, <1>4, <1>6, <1>8
    <2>2. CASE k = 1
      <3>1. Place(q, l1) <= r
        BY DEF Noted
      <3>2. QED
        BY <1>2, <1>4, <1>5, <2>1, <2>2, <3>1
    <2>3. CASE \E k1 \in 1..Len(q) : k = k1 + 1
      <3>1. PICK k1 \in 1..Len(q) : k = k1 + 1
        BY <2>3
      <3>2. k1 < l1
        BY <1>1, <1>8, <2>1, <3>1
      <3>3. Place(q, l1) <= Place(q, k1) /\ q[l1].from < q[k1].from
        BY <3>2 DEF Noted
      <3>4. QED
        BY <1>4, <1>5, <2>1, <3>1, <3>3
    <2>4. QED
      BY <1>6, <2>2, <2>3
  <1>9. QED
    BY <1>2, <1>4, <1>7, <1>8 DEF Noted

\* The first of the list is taken from it.
LEMMA NotedOneLess ==
  ASSUME NEW t, NEW b, NEW q, NEW r \in Nat, Noted(t, b, q, r), q # <<>>
  PROVE  /\ Noted(t, b, Tail(q), Place(q, 1))
         /\ Place(q, 1) \in 0..r /\ Len(q) \in Nat \ {0} /\ Len(Tail(q)) = Len(q) - 1
         /\ \A k \in 1..Len(Tail(q)) : k + 1 \in 1..Len(q) /\ Tail(q)[k] = q[k + 1]
  <1> SUFFICES ASSUME NEW p, p = Tail(q)
               PROVE  /\ Noted(t, b, p, Place(q, 1))
                      /\ Place(q, 1) \in 0..r /\ Len(q) \in Nat \ {0} /\ Len(p) = Len(q) - 1
                      /\ \A k \in 1..Len(p) : k + 1 \in 1..Len(q) /\ p[k] = q[k + 1]
    OBVIOUS
  <1>1. q \in Seq(Insert) /\ Len(q) \in Nat \ {0}
    BY DEF Noted
  <1>2. /\ p \in Seq(Insert) /\ Len(p) = Len(q) - 1
        /\ \A k \in 1..Len(p) : k + 1 \in 1..Len(q) /\ p[k] = q[k + 1]
    BY <1>1
  <1>3. \A k \in 1..Len(p) : Place(p, k) = Place(q, k + 1)
    <2> SUFFICES ASSUME NEW k \in 1..Len(p) PROVE Place(p, k) = Place(q, k + 1)
      OBVIOUS
    <2>1. q[k + 1].offset \in Nat
      <3>1. q[k + 1] \in Insert
        BY <1>1, <1>2
      <3>2. QED
        BY <3>1 DEF Insert
    <2>2. QED
      BY <1>1, <1>2, <2>1 DEF Place
  <1>4. 1 \in 1..Len(q) /\ Place(q, 1) \in 0..r
    BY <1>1 DEF Noted
  <1>5. ASSUME NEW k \in 1..Len(p)
        PROVE  /\ p[k].from \in DOMAIN b /\ Place(p, k) \in 0..Place(q, 1)
               /\ \A m \in DOMAIN t :
                    /\ m < Place(p, k) => t[m].uid < b[p[k].from].uid
                    /\ m >= Place(p, k) => b[p[k].from].uid < t[m].uid
    <2>1. k + 1 \in 1..Len(q) /\ p[k] = q[k + 1] /\ 1 < k + 1
      BY <1>2
    <2>2. Place(q, k + 1) <= Place(q, 1) /\ Place(q, k + 1) \in 0..r
      BY <1>4, <2>1 DEF Noted
    <2>3. QED
      BY <1>3, <1>4, <2>1, <2>2 DEF Noted
  <1>6. ASSUME NEW k \in 1..Len(p), NEW l \in 1..Len(p), k < l
        PROVE  Place(p, l) <= Place(p, k) /\ p[l].from < p[k].from
    <2>1. k + 1 < l + 1
      BY <1>6
    <2>2. QED
      BY <1>2, <1>3, <2>1 DEF Noted
  <1>7. QED
    BY <1>1, <1>2, <1>4, <1>5, <1>6 DEF Noted

-----------------------------------------------------------------------------
(***************************************************************************)
(* u1db__vectorclock_maximize: the moves from the end.                     *)
(***************************************************************************)

\* The array a in the midst of the moves, with the inserts of q left, all of
\* them at r or before: the first r items are where they were in t, as many
\* slots are free as there are inserts, and the items after those are where
\* they belong. join is the clock the array is to represent.
Moved(t, b, join, a, q, r) ==
  /\ r \in 0..Size(t) /\ r + Len(q) <= Size(a)
  /\ Noted(t, b, q, r)
  /\ \A n \in DOMAIN a : n < r =>
       a[n] \in Item /\ a[n].uid = t[n].uid /\ a[n].gen = join[a[n].uid]
  /\ \A n \in DOMAIN a : n >= r + Len(q) =>
       /\ a[n] \in Item /\ a[n].gen = join[a[n].uid]
       /\ \A m \in DOMAIN t : m < r => t[m].uid < a[n].uid
       /\ \A k \in 1..Len(q) : b[q[k].from].uid < a[n].uid
  /\ \A m, n \in DOMAIN a : m >= r + Len(q) /\ m < n => a[m].uid < a[n].uid
  /\ \A u \in Uid : join[u] # 0 =>
       \/ \E n \in DOMAIN a : (n < r \/ n >= r + Len(q)) /\ a[n].uid = u
       \/ \E k \in 1..Len(q) : b[q[k].from].uid = u

\* With nothing left to insert the array is the clock's.
LEMMA MovedAll ==
  ASSUME NEW t, SortedItems(t), NEW b, NEW join \in [Uid -> Nat], NEW a, ArrayOf(a, Slot),
         Size(t) <= Size(a), NEW r, Moved(t, b, join, a, <<>>, r)
  PROVE  SortedItems(a) /\ Meaning(a) = join
  <1>1. /\ Len(<<>>) = 0 /\ r \in Nat /\ r + 0 = r /\ Size(t) \in Nat /\ r <= Size(t)
        /\ DOMAIN t = 0..(Size(t) - 1)
        /\ DOMAIN a = 0..(Size(a) - 1) /\ Size(a) \in Nat /\ a \in [0..(Size(a) - 1) -> Slot]
    BY DEF Moved, SortedItems, ArrayOf
  <1>2. \A n \in DOMAIN a : n \in Nat /\ (n < r \/ n >= r)
    BY <1>1
  <1>3. \A n \in DOMAIN a : n < r => n \in DOMAIN t
    BY <1>1
  <1>4. \A n \in DOMAIN a : a[n] \in Item /\ a[n].gen = join[a[n].uid]
    BY <1>1, <1>2 DEF Moved
  <1>5. ArrayOf(a, Item)
    BY <1>1, <1>4 DEF ArrayOf
  <1>6. Sorted(a)
    <2> SUFFICES ASSUME NEW m \in DOMAIN a, NEW n \in DOMAIN a, m < n
                 PROVE  a[m].uid < a[n].uid
      BY DEF Sorted
    <2>1. CASE m >= r
      BY <1>1, <2>1 DEF Moved
    <2>2. CASE m < r /\ n >= r
      BY <1>1, <1>3, <2>2 DEF Moved
    <2>3. CASE n < r /\ m < r
      <3>1. a[m].uid = t[m].uid /\ a[n].uid = t[n].uid
        BY <2>3 DEF Moved
      <3>2. t[m].uid < t[n].uid
        BY <1>3, <2>3 DEF SortedItems, Sorted
      <3>3. QED
        BY <3>1, <3>2
    <2>4. QED
      BY <1>2, <2>1, <2>2, <2>3
  <1>7. \A u \in Uid : join[u] # 0 => \E n \in DOMAIN a : a[n].uid = u
    <2>1. 1..Len(<<>>) = {}
      OBVIOUS
    <2>2. QED
      BY <2>1 DEF Moved
  <1>8. SortedItems(a)
    BY <1>5, <1>6 DEF SortedItems
  <1>9. QED
    BY <1>4, <1>7, <1>8, MeaningOf

\* One insert, with the items after it moved to make room.
LEMMA MoveOne ==
  ASSUME NEW t, SortedItems(t), NEW b, SortedItems(b), NEW join \in [Uid -> Nat],
         NEW a, ArrayOf(a, Slot), NEW q, q # <<>>, NEW r, Moved(t, b, join, a, q, r),
         \A k \in 1..Len(q) : join[b[q[k].from].uid] = b[q[k].from].gen,
         NEW o, o = q[1].offset, NEW p, p = Place(q, 1), NEW f, f = b[q[1].from],
         NEW c, c = [n \in DOMAIN a |-> c[n]],
         c[o] = f,
         \A n \in DOMAIN a : n > o /\ n < r + Len(q) => c[n] = a[p + (n - o - 1)],
         \A n \in DOMAIN a : n < o \/ n >= r + Len(q) => c[n] = a[n]
  PROVE  Moved(t, b, join, c, Tail(q), p) /\ ArrayOf(c, Slot)
  <1> DEFINE len == Len(q)
             s == Tail(q)
  <1>1. /\ r \in Nat /\ r <= Size(t) /\ r + len <= Size(a) /\ Size(t) \in Nat
        /\ DOMAIN t = 0..(Size(t) - 1) /\ DOMAIN a = 0..(Size(a) - 1) /\ Size(a) \in Nat
        /\ Noted(t, b, q, r)
    BY DEF Moved, SortedItems, ArrayOf
  <1>2. /\ Noted(t, b, s, p) /\ p \in 0..r /\ len \in Nat \ {0} /\ Len(s) = len - 1
        /\ \A k \in 1..Len(s) : k + 1 \in 1..len /\ s[k] = q[k + 1]
    BY <1>1, NotedOneLess
  <1>3. /\ q \in Seq(Insert) /\ 1 \in 1..len
        /\ q[1].from \in DOMAIN b /\ f \in Item
        /\ \A m \in DOMAIN t : (m < p => t[m].uid < f.uid) /\ (m >= p => f.uid < t[m].uid)
    <2>1. q \in Seq(Insert) /\ 1 \in 1..len
      BY <1>1, <1>2 DEF Noted
    <2>2. q[1].from \in DOMAIN b
      BY <1>1, <2>1 DEF Noted
    <2>3. f \in Item
      BY <2>2 DEF SortedItems, ArrayOf
    <2>4. \A m \in DOMAIN t : (m < p => t[m].uid < f.uid) /\ (m >= p => f.uid < t[m].uid)
      BY <1>1, <2>1 DEF Noted
    <2>5. QED
      BY <2>1, <2>2, <2>3, <2>4
  <1>4. o \in Nat /\ o = p + len - 1
    <2>1. q[1] \in Insert
      BY <1>3
    <2>2. q[1].offset \in Nat
      BY <2>1 DEF Insert
    <2>3. QED
      BY <1>2, <2>2 DEF Place
  <1>5. DOMAIN c = DOMAIN a /\ Size(c) = Size(a)
    BY DEF Size
  <1>6. /\ \A n \in DOMAIN a : n < r =>
             a[n] \in Item /\ a[n].uid = t[n].uid /\ a[n].gen = join[a[n].uid]
        /\ \A n \in DOMAIN a : n >= r + len =>
             /\ a[n] \in Item /\ a[n].gen = join[a[n].uid]
             /\ \A m \in DOMAIN t : m < r => t[m].uid < a[n].uid
             /\ \A k \in 1..len : b[q[k].from].uid < a[n].uid
        /\ \A m, n \in DOMAIN a : m >= r + len /\ m < n => a[m].uid < a[n].uid
        /\ \A u \in Uid : join[u] # 0 =>
             \/ \E n \in DOMAIN a : (n < r \/ n >= r + len) /\ a[n].uid = u
             \/ \E k \in 1..len : b[q[k].from].uid = u
    BY DEF Moved
  <1>7. \A x \in Item : x.uid \in Nat
    BY ItemIs
  <1>8. \A m \in DOMAIN t : t[m].uid \in Nat
    BY <1>7 DEF SortedItems, ArrayOf
  <1> HIDE DEF len, s
  \* The inserts left go before the one made, and before what was moved.
  <1>9. \A k \in 1..Len(s) :
          /\ b[s[k].from].uid < f.uid /\ b[s[k].from] \in Item
          /\ \A m \in DOMAIN t : m >= p => b[s[k].from].uid < t[m].uid
    <2> SUFFICES ASSUME NEW k \in 1..Len(s)
                 PROVE  /\ b[s[k].from].uid < f.uid /\ b[s[k].from] \in Item
                        /\ \A m \in DOMAIN t : m >= p => b[s[k].from].uid < t[m].uid
      OBVIOUS
    <2>1. k + 1 \in 1..len /\ s[k] = q[k + 1] /\ 1 < k + 1
      BY <1>2
    <2>2. s[k].from < q[1].from /\ Place(q, k + 1) <= p /\ s[k].from \in DOMAIN b
          /\ Place(q, k + 1) \in 0..r
      BY <1>1, <1>3, <2>1 DEF Noted, len
    <2>3. b[s[k].from].uid < f.uid
      BY <1>3, <2>2 DEF SortedItems, Sorted
    <2>4. b[s[k].from] \in Item
      BY <2>2 DEF SortedItems, ArrayOf
    <2>5. ASSUME NEW m \in DOMAIN t, m >= p PROVE b[s[k].from].uid < t[m].uid
      <3>1. m >= Place(q, k + 1)
        BY <1>1, <1>2, <2>2, <2>5
      <3>2. QED
        BY <1>1, <2>1, <3>1 DEF Noted, len
    <2>6. QED
      BY <2>3, <2>4, <2>5
  \* Where each slot of the new array comes from.
  <1>10. \A n \in DOMAIN a : n < p => c[n] = a[n] /\ n < r
    BY <1>1, <1>2, <1>4 DEF len
  <1>11. ASSUME NEW n \in DOMAIN a, n > o, n < r + len
         PROVE  /\ p + (n - o - 1) \in DOMAIN a /\ p + (n - o - 1) \in DOMAIN t
                /\ p + (n - o - 1) < r /\ p + (n - o - 1) >= p
                /\ c[n] = a[p + (n - o - 1)]
    <2>1. n \in Nat /\ p \in Nat /\ len \in Nat
      BY <1>1, <1>2
    <2>2. p + (n - o - 1) >= p /\ p + (n - o - 1) < r /\ p + (n - o - 1) \in Nat
      BY <1>1, <1>4, <1>11, <2>1
    <2>3. p + (n - o - 1) \in DOMAIN a /\ p + (n - o - 1) \in DOMAIN t
      BY <1>1, <1>11, <2>1, <2>2
    <2>4. c[n] = a[p + (n - o - 1)]
      BY <1>11 DEF len
    <2>5. QED
      BY <2>2, <2>3, <2>4
  <1>12. p + Len(s) = o /\ o < Size(a) /\ p \in Nat /\ len \in Nat
    BY <1>1, <1>2, <1>4
  <1>13. \A n \in DOMAIN a : n >= o => n = o \/ (n > o /\ n < r + len) \/ n >= r + len
    BY <1>1, <1>12
  <1>14. o \in DOMAIN a
    BY <1>1, <1>4, <1>12
  <1>15. ASSUME NEW n \in DOMAIN c, n < p
         PROVE  c[n] \in Item /\ c[n].uid = t[n].uid /\ c[n].gen = join[c[n].uid]
    BY <1>6, <1>10, <1>15
  <1>16. ASSUME NEW n \in DOMAIN c, n >= o
         PROVE  /\ c[n] \in Item /\ c[n].gen = join[c[n].uid]
                /\ \A m \in DOMAIN t : m < p => t[m].uid < c[n].uid
                /\ \A k \in 1..Len(s) : b[s[k].from].uid < c[n].uid
    <2>1. CASE n = o
      <3>1. f.gen = join[f.uid]
        BY <1>3 DEF len
      <3>2. QED
        BY <1>3, <1>9, <2>1, <3>1
    <2>2. CASE n > o /\ n < r + len
      <3> DEFINE m == p + (n - o - 1)
      <3>1. m \in DOMAIN a /\ m \in DOMAIN t /\ m < r /\ m >= p /\ c[n] = a[m]
        BY <1>11, <2>2
      <3> HIDE DEF m
      <3>2. c[n] \in Item /\ c[n].uid = t[m].uid /\ c[n].gen = join[c[n].uid]
        BY <1>6, <3>1
      <3>3. \A l \in DOMAIN t : l < p => t[l].uid < t[m].uid
        <4> SUFFICES ASSUME NEW l \in DOMAIN t, l < p PROVE t[l].uid < t[m].uid
          OBVIOUS
        <4>1. l < m
          BY <1>1, <1>12, <3>1
        <4>2. QED
          BY <3>1, <4>1 DEF SortedItems, Sorted
      <3>4. QED
        BY <1>9, <3>1, <3>2, <3>3
    <2>3. CASE n >= r + len
      <3>1. c[n] = a[n]
        BY <2>3 DEF len
      <3>2. \A m \in DOMAIN t : m < p => m < r
        BY <1>1, <1>2
      <3>3. QED
        BY <1>2, <1>6, <2>3, <3>1, <3>2
    <2>4. QED
      BY <1>13, <1>16, <2>1, <2>2, <2>3
  <1>17. ASSUME NEW m \in DOMAIN c, NEW n \in DOMAIN c, m >= o, m < n
         PROVE  c[m].uid < c[n].uid
    <2>1. n >= o /\ n # o
      BY <1>1, <1>4, <1>17
    <2>2. CASE n >= r + len
      <3>1. c[n] = a[n]
        BY <2>2 DEF len
      <3>2. CASE m = o
        BY <1>3, <1>6, <2>2, <3>1, <3>2 DEF len
      <3>3. CASE m > o /\ m < r + len
        BY <1>6, <1>11, <2>2, <3>1, <3>3
      <3>4. CASE m >= r + len
        BY <1>6, <1>17, <3>1, <3>4 DEF len
      <3>5. QED
        BY <1>13, <1>17, <3>2, <3>3, <3>4
    <2>3. CASE n > o /\ n < r + len
      <3> DEFINE n1 == p + (n - o - 1)
      <3>1. n1 \in DOMAIN a /\ n1 \in DOMAIN t /\ n1 < r /\ n1 >= p /\ c[n] = a[n1]
        BY <1>11, <2>3
      <3>2. c[n].uid = t[n1].uid
        BY <1>6, <3>1
      <3>3. CASE m = o
        BY <1>3, <3>1, <3>2, <3>3
      <3>4. CASE m > o /\ m < r + len
        <4> DEFINE m1 == p + (m - o - 1)
        <4>1. m1 \in DOMAIN a /\ m1 \in DOMAIN t /\ m1 < r /\ c[m] = a[m1]
          BY <1>11, <3>4
        <4>2. m1 < n1
          <5>1. m \in Nat /\ n \in Nat /\ o \in Nat /\ p \in Nat /\ m < n
            BY <1>1, <1>4, <1>12, <1>17
          <5>2. p + (m - o - 1) < p + (n - o - 1)
            BY <5>1
          <5>3. QED
            BY <5>2
        <4> HIDE DEF m1, n1
        <4>3. t[m1].uid < t[n1].uid
          BY <3>1, <4>1, <4>2 DEF SortedItems, Sorted
        <4>4. QED
          BY <1>6, <3>2, <4>1, <4>3
      <3>5. CASE m >= r + len
        BY <1>1, <1>12, <1>17, <2>3, <3>5
      <3>6. QED
        BY <1>13, <1>17, <3>3, <3>4, <3>5
    <2>4. QED
      BY <1>13, <2>1, <2>2, <2>3
  <1>18. ASSUME NEW u \in Uid, join[u] # 0
         PROVE  \/ \E n \in DOMAIN c : (n < p \/ n >= o) /\ c[n].uid = u
                \/ \E k \in 1..Len(s) : b[s[k].from].uid = u
    <2>1. CASE \E n \in DOMAIN a : n < r /\ a[n].uid = u
      <3>1. PICK n \in DOMAIN a : n < r /\ a[n].uid = u
        BY <2>1
      <3>2. CASE n < p
        BY <1>10, <3>1, <3>2
      <3>3. CASE n >= p
        <4> DEFINE n1 == n - p + o + 1
        <4>1. n1 \in DOMAIN a /\ n1 > o /\ n1 < r + len /\ p + (n1 - o - 1) = n
          <5>1. n \in Nat /\ n < r /\ n >= p /\ p \in Nat /\ len \in Nat /\ r \in Nat /\ o \in Nat
            BY <1>1, <1>4, <1>12, <3>1, <3>3
          <5>2. n1 > o /\ n1 < r + len /\ p + (n1 - o - 1) = n /\ n1 \in Nat
            BY <1>4, <5>1
          <5>3. n1 < Size(a)
            BY <1>1, <5>1, <5>2 DEF len
          <5>4. QED
            BY <1>1, <5>2, <5>3
        <4> HIDE DEF n1
        <4>2. c[n1] = a[n] /\ n1 >= o
          BY <1>1, <1>4, <1>11, <4>1
        <4>3. QED
          BY <3>1, <4>1, <4>2
      <3>4. QED
        BY <1>1, <1>12, <3>2, <3>3
    <2>2. CASE \E n \in DOMAIN a : n >= r + len /\ a[n].uid = u
      <3>1. PICK n \in DOMAIN a : n >= r + len /\ a[n].uid = u
        BY <2>2
      <3>2. c[n] = a[n]
        BY <3>1 DEF len
      <3>3. n >= o
        BY <1>1, <1>2, <1>4, <1>12, <3>1
      <3>4. QED
        BY <3>1, <3>2, <3>3
    <2>3. CASE \E k \in 1..len : b[q[k].from].uid = u
      <3>1. PICK k \in 1..len : b[q[k].from].uid = u
        BY <2>3
      <3>2. CASE k = 1
        <4>1. c[o].uid = u /\ o >= o
          BY <1>4, <3>1, <3>2
        <4>2. QED
          BY <1>14, <4>1
      <3>3. CASE k # 1
        <4>1. k - 1 \in 1..Len(s) /\ (k - 1) + 1 = k
          BY <1>2, <3>3
        <4>2. s[k - 1] = q[k]
          BY <1>2, <4>1
        <4>3. QED
          BY <3>1, <4>1, <4>2
      <3>4. QED
        BY <3>2, <3>3
    <2>4. QED
      BY <1>6, <1>18, <2>1, <2>2, <2>3
  <1>19. p \in 0..Size(t) /\ p + Len(s) <= Size(c)
    BY <1>1, <1>2, <1>5, <1>12
  <1>20. Moved(t, b, join, c, s, p)
    BY <1>2, <1>12, <1>15, <1>16, <1>17, <1>18, <1>19 DEF Moved
  <1>21. \A n \in DOMAIN a : c[n] \in Slot
    <2> SUFFICES ASSUME NEW n \in DOMAIN a PROVE c[n] \in Slot
      OBVIOUS
    <2>1. CASE n >= o
      BY <1>16, <2>1 DEF Slot
    <2>2. CASE n < o
      BY <2>2 DEF ArrayOf
    <2>3. QED
      BY <1>1, <1>4, <2>1, <2>2
  <1>22. ArrayOf(c, Slot)
    BY <1>1, <1>5, <1>21 DEF ArrayOf
  <1>23. QED
    BY <1>20, <1>22 DEF s

\* The clock that maximize is to make.
Join == VC!Maximize(Meaning(text), Meaning(other))

\* What the items of the two arrays say of it.
LEMMA JoinIs ==
  ASSUME SortedItems(text), SortedItems(other)
  PROVE  /\ Join \in [Uid -> Nat]
         /\ \A m \in DOMAIN text, n \in DOMAIN other : text[m].uid = other[n].uid =>
              Join[text[m].uid] = IF text[m].gen < other[n].gen THEN other[n].gen ELSE text[m].gen
         /\ \A m \in DOMAIN text : (\A n \in DOMAIN other : other[n].uid # text[m].uid) =>
              Join[text[m].uid] = text[m].gen
         /\ \A n \in DOMAIN other : (\A m \in DOMAIN text : text[m].uid # other[n].uid) =>
              Join[other[n].uid] = other[n].gen
         /\ \A u \in Uid : Join[u] # 0 =>
              \/ \E m \in DOMAIN text : text[m].uid = u
              \/ \E n \in DOMAIN other : other[n].uid = u
  <1> DEFINE a == Meaning(text)
             b == Meaning(other)
  <1>1. /\ a \in [Uid -> Nat]
        /\ \A n \in DOMAIN text : a[text[n].uid] = text[n].gen
        /\ \A u \in Uid : (\A n \in DOMAIN text : text[n].uid # u) => a[u] = 0
    BY MeaningIs
  <1>2. /\ b \in [Uid -> Nat]
        /\ \A n \in DOMAIN other : b[other[n].uid] = other[n].gen
        /\ \A u \in Uid : (\A n \in DOMAIN other : other[n].uid # u) => b[u] = 0
    BY MeaningIs
  <1>3. Join = [r \in Uid |-> IF a[r] < b[r] THEN b[r] ELSE a[r]]
    BY DEF Join, VC!Maximize
  <1>4. /\ \A n \in DOMAIN text : text[n].uid \in Uid /\ text[n].gen \in Nat
        /\ \A n \in DOMAIN other : other[n].uid \in Uid /\ other[n].gen \in Nat
    BY ItemIs DEF SortedItems, ArrayOf
  <1> HIDE DEF a, b
  <1>5. Join \in [Uid -> Nat]
    BY <1>1, <1>2, <1>3
  <1>6. ASSUME NEW m \in DOMAIN text, NEW n \in DOMAIN other, text[m].uid = other[n].uid
        PROVE  Join[text[m].uid] = IF text[m].gen < other[n].gen THEN other[n].gen ELSE text[m].gen
    BY <1>1, <1>2, <1>3, <1>4, <1>6
  <1>7. ASSUME NEW m \in DOMAIN text, \A n \in DOMAIN other : other[n].uid # text[m].uid
        PROVE  Join[text[m].uid] = text[m].gen
    <2>1. b[text[m].uid] = 0 /\ a[text[m].uid] = text[m].gen /\ text[m].gen \in Nat
      BY <1>1, <1>2, <1>4, <1>7
    <2>2. QED
      BY <1>3, <1>4, <2>1
  <1>8. ASSUME NEW n \in DOMAIN other, \A m \in DOMAIN text : text[m].uid # other[n].uid
        PROVE  Join[other[n].uid] = other[n].gen
    <2>1. a[other[n].uid] = 0 /\ b[other[n].uid] = other[n].gen /\ other[n].gen \in Nat
      BY <1>1, <1>2, <1>4, <1>8
    <2>2. QED
      BY <1>3, <1>4, <2>1
  <1>9. ASSUME NEW u \in Uid, Join[u] # 0,
               \A m \in DOMAIN text : text[m].uid # u, \A n \in DOMAIN other : other[n].uid # u
        PROVE  FALSE
    BY <1>1, <1>2, <1>3, <1>9
  <1>10. QED
    BY <1>5, <1>6, <1>7, <1>8, <1>9

\* The walk of maximize has come to i and j: the items before i have the
\* greater generation, those of the other array before j that the first lacks
\* are on the list.
Collected ==
  /\ Walked(text, other, i, j)
  /\ ArrayOf(clock, Item) /\ Size(clock) = Size(text)
  /\ \A m \in DOMAIN text :
       /\ clock[m].uid = text[m].uid
       /\ m < i => clock[m].gen = Join[text[m].uid]
       /\ m >= i => clock[m] = text[m]
  /\ Noted(text, other, needed, i)
  /\ \A k \in 1..Len(needed) : needed[k].from < j
  /\ \A n \in DOMAIN other : n < j =>
       \/ \E m \in DOMAIN text : text[m].uid = other[n].uid
       \/ \E k \in 1..Len(needed) : needed[k].from = n

MaximizeInv ==
  /\ at \in {"walk", "move", "done"}
  /\ SortedItems(text) /\ SortedItems(other)
  /\ at = "walk" => Collected
  /\ at = "move" =>
       /\ ArrayOf(clock, Slot) /\ Size(text) <= Size(clock)
       /\ needed # <<>> /\ end \in Int
       /\ Moved(text, other, Join, clock, needed, end - Len(needed) + 1)
  /\ at = "done" => SortedItems(clock)
  /\ MaximizeJoins

\* What is to be inserted has the generation it has in the other array.
LEMMA InsertedIs ==
  ASSUME SortedItems(text), SortedItems(other), NEW q, NEW r, Noted(text, other, q, r)
  PROVE  \A k \in 1..Len(q) : Join[other[q[k].from].uid] = other[q[k].from].gen
  <1> SUFFICES ASSUME NEW k \in 1..Len(q)
               PROVE  Join[other[q[k].from].uid] = other[q[k].from].gen
    OBVIOUS
  <1>1. /\ q[k].from \in DOMAIN other
        /\ Place(q, k) \in 0..r
        /\ \A m \in DOMAIN text :
             /\ m < Place(q, k) => text[m].uid < other[q[k].from].uid
             /\ m >= Place(q, k) => other[q[k].from].uid < text[m].uid
    BY DEF Noted
  <1>2. /\ \A m \in DOMAIN text : m \in Nat /\ text[m].uid \in Nat
        /\ \A n \in DOMAIN other : other[n].uid \in Nat
    BY ItemIs DEF SortedItems, ArrayOf
  <1>3. Place(q, k) \in Int
    BY <1>1
  <1>4. ASSUME NEW m \in DOMAIN text PROVE text[m].uid # other[q[k].from].uid
    <2>1. m < Place(q, k) \/ m >= Place(q, k)
      BY <1>2, <1>3
    <2>2. QED
      BY <1>1, <1>2, <2>1
  <1>5. QED
    BY <1>1, <1>4, JoinIs

\* At the end of the walk all is ready to be moved.
LEMMA CollectedAll ==
  ASSUME SortedItems(text), SortedItems(other), Collected, j = Size(other),
         NEW a, DOMAIN a = 0..(Size(text) + Len(needed) - 1),
         \A n \in DOMAIN text : a[n] = clock[n]
  PROVE  /\ Moved(text, other, Join, a, needed, Size(text))
         /\ Size(a) = Size(text) + Len(needed) /\ Size(text) \in Nat /\ Len(needed) \in Nat
  <1> DEFINE r == Size(text)
             len == Len(needed)
  <1>1. /\ needed \in Seq(Insert) /\ len \in Nat /\ r \in Nat
        /\ DOMAIN text = 0..(r - 1) /\ DOMAIN other = 0..(Size(other) - 1)
        /\ Size(other) \in Nat /\ i \in 0..r
        /\ Walked(text, other, i, j) /\ Noted(text, other, needed, i)
    BY DEF Collected, Noted, SortedItems, ArrayOf, Walked
  <1>2. Size(a) = r + len
    <2>1. r + len \in Nat /\ DOMAIN a = 0..((r + len) - 1)
      BY <1>1
    <2> HIDE DEF r, len
    <2>2. QED
      BY <2>1, SizeIs
  <1>3. Noted(text, other, needed, r)
    <2>1. i \in Nat /\ i <= r
      BY <1>1
    <2>2. QED
      BY <1>1, <2>1, NotedMore
  <1>4. ASSUME NEW n \in DOMAIN text
        PROVE  clock[n] \in Item /\ clock[n].uid = text[n].uid /\ clock[n].gen = Join[clock[n].uid]
    <2>1. clock[n] \in Item /\ clock[n].uid = text[n].uid
      BY <1>1 DEF Collected, ArrayOf
    <2>2. CASE n < i
      BY <2>1, <2>2 DEF Collected
    <2>3. CASE n >= i
      <3>1. \A m \in DOMAIN other : m < j
        BY <1>1
      <3>2. \A m \in DOMAIN other : other[m].uid < text[n].uid
        BY <1>1, <2>3, <3>1 DEF Walked
      <3>3. \A m \in DOMAIN other : other[m].uid \in Nat
        BY ItemIs DEF SortedItems, ArrayOf
      <3>4. text[n].uid \in Nat
        BY ItemIs DEF SortedItems, ArrayOf
      <3>5. \A m \in DOMAIN other : other[m].uid # text[n].uid
        BY <3>2, <3>3, <3>4
      <3>6. Join[text[n].uid] = text[n].gen
        BY <3>5, JoinIs
      <3>7. clock[n] = text[n]
        BY <2>3 DEF Collected
      <3>8. QED
        BY <2>1, <3>6, <3>7
    <2>4. QED
      BY <1>1, <2>2, <2>3, <2>1
  <1> HIDE DEF r, len
  <1>5. \A n \in DOMAIN a : n < r => n \in DOMAIN text
    BY <1>1 DEF r, len
  <1>6. \A n \in DOMAIN a : ~(n >= r + len)
    BY <1>1 DEF r, len
  <1>7. \A n \in DOMAIN text : n \in DOMAIN a /\ n < r
    BY <1>1 DEF r, len
  <1>8. ASSUME NEW u \in Uid, Join[u] # 0
        PROVE  \/ \E n \in DOMAIN a : (n < r \/ n >= r + len) /\ a[n].uid = u
               \/ \E k \in 1..len : other[needed[k].from].uid = u
    <2>1. ASSUME NEW m \in DOMAIN text, text[m].uid = u
          PROVE  \E n \in DOMAIN a : (n < r \/ n >= r + len) /\ a[n].uid = u
      BY <1>4, <1>7, <2>1
    <2>2. ASSUME NEW n \in DOMAIN other, other[n].uid = u, \A m \in DOMAIN text : text[m].uid # u
          PROVE  \E k \in 1..len : other[needed[k].from].uid = u
      <3>1. n < j
        BY <1>1
      <3>2. QED
        BY <2>2, <3>1 DEF Collected, len
    <2>3. QED
      BY <1>8, <2>1, <2>2, JoinIs
  <1>9. r \in 0..r /\ r + len <= Size(a)
    BY <1>1, <1>2
  <1>10. \A n \in DOMAIN a : n < r =>
           a[n] \in Item /\ a[n].uid = text[n].uid /\ a[n].gen = Join[a[n].uid]
    BY <1>4, <1>5
  <1>11. Moved(text, other, Join, a, needed, r)
    BY <1>3, <1>6, <1>8, <1>9, <1>10 DEF Moved, r, len
  <1>12. QED
    BY <1>1, <1>2, <1>11 DEF r, len

\* Every step of maximize keeps its invariant.
LEMMA MaximizeStep ==
  ASSUME MaximizeInv, op = "maximize", end \in Int,
         MaximizeItem \/ PassItem \/ NoteInsert \/ Expand \/ MoveItems
  PROVE  MaximizeInv'
  <1>1. text' = text /\ other' = other /\ op' = op /\ at \in {"walk", "move"}
    BY DEF MaximizeItem, PassItem, NoteInsert, Expand, MoveItems, Walking, Given
  <1>2. SortedItems(text) /\ SortedItems(other) /\ SortedItems(text') /\ SortedItems(other')
    BY <1>1 DEF MaximizeInv
  <1>3. Join' = Join
    BY <1>1 DEF Join
  <1>4. /\ DOMAIN text = 0..(Size(text) - 1) /\ Size(text) \in Nat
        /\ DOMAIN other = 0..(Size(other) - 1) /\ Size(other) \in Nat
    BY <1>2 DEF SortedItems, ArrayOf
  <1>5. /\ \A m \in DOMAIN text : text[m].uid \in Nat /\ text[m].gen \in Nat /\ m \in Nat
        /\ \A n \in DOMAIN other : other[n].uid \in Nat /\ other[n].gen \in Nat /\ n \in Nat
    BY <1>2, <1>4, ItemIs DEF SortedItems, ArrayOf
  <1>6. ASSUME at' = "walk", Walked(text, other, i', j'), ArrayOf(clock', Item),
               Size(clock') = Size(text),
               \A m \in DOMAIN text :
                 /\ clock'[m].uid = text[m].uid
                 /\ m < i' => clock'[m].gen = Join[text[m].uid]
                 /\ m >= i' => clock'[m] = text[m],
               Noted(text, other, needed', i'),
               \A k \in 1..Len(needed') : needed'[k].from < j',
               \A n \in DOMAIN other : n < j' =>
                 \/ \E m \in DOMAIN text : text[m].uid = other[n].uid
                 \/ \E k \in 1..Len(needed') : needed'[k].from = n
        PROVE  MaximizeInv'
    <2>1. Collected'
      BY <1>1, <1>3, <1>6 DEF Collected
    <2>2. MaximizeJoins'
      BY <1>6 DEF MaximizeJoins, Returns
    <2>3. QED
      BY <1>2, <1>6, <2>1, <2>2 DEF MaximizeInv
  <1>7. ASSUME at' = "done", SortedItems(clock'), Meaning(clock') = Join
        PROVE  MaximizeInv'
    <2>1. Meaning(clock') = VC!Maximize(Meaning(text'), Meaning(other'))
      BY <1>1, <1>7 DEF Join
    <2>2. MaximizeJoins'
      BY <1>7, <2>1 DEF MaximizeJoins, SortedItems
    <2>3. QED
      BY <1>2, <1>7, <2>2 DEF MaximizeInv
  <1>8. ASSUME at = "walk"
        PROVE  /\ Collected /\ Walked(text, other, i, j) /\ ArrayOf(clock, Item)
               /\ Size(clock) = Size(text) /\ DOMAIN clock = DOMAIN text
               /\ clock \in [DOMAIN text -> Item]
               /\ \A m \in DOMAIN text :
                    /\ clock[m].uid = text[m].uid
                    /\ m < i => clock[m].gen = Join[text[m].uid]
                    /\ m >= i => clock[m] = text[m]
               /\ Noted(text, other, needed, i)
               /\ \A k \in 1..Len(needed) : needed[k].from < j
               /\ \A n \in DOMAIN other : n < j =>
                    \/ \E m \in DOMAIN text : text[m].uid = other[n].uid
                    \/ \E k \in 1..Len(needed) : needed[k].from = n
               /\ i \in 0..Size(text) /\ j \in 0..Size(other) /\ i \in Nat /\ j \in Nat
               /\ needed \in Seq(Insert) /\ Len(needed) \in Nat
               /\ \A k \in 1..Len(needed) : needed[k].from \in Nat
               /\ \A m \in DOMAIN text : m < i + 1 <=> m < i \/ m = i
               /\ \A n \in DOMAIN other : n < j + 1 <=> n < j \/ n = j
    <2>1. Collected
      BY <1>8 DEF MaximizeInv
    <2>2. /\ Walked(text, other, i, j) /\ ArrayOf(clock, Item) /\ Size(clock) = Size(text)
          /\ Noted(text, other, needed, i)
          /\ \A m \in DOMAIN text :
               /\ clock[m].uid = text[m].uid
               /\ m < i => clock[m].gen = Join[text[m].uid]
               /\ m >= i => clock[m] = text[m]
          /\ \A k \in 1..Len(needed) : needed[k].from < j
          /\ \A n \in DOMAIN other : n < j =>
               \/ \E m \in DOMAIN text : text[m].uid = other[n].uid
               \/ \E k \in 1..Len(needed) : needed[k].from = n
      BY <2>1 DEF Collected
    <2>3. i \in 0..Size(text) /\ j \in 0..Size(other)
      BY <2>2 DEF Walked
    <2>4. i \in Nat /\ j \in Nat
      BY <1>4, <2>3
    <2>5. clock \in [DOMAIN text -> Item] /\ DOMAIN clock = DOMAIN text
      BY <1>4, <2>2 DEF ArrayOf
    <2>6. needed \in Seq(Insert) /\ \A k \in 1..Len(needed) : needed[k].from \in DOMAIN other
      BY <2>2 DEF Noted
    <2>7. Len(needed) \in Nat /\ \A k \in 1..Len(needed) : needed[k].from \in Nat
      BY <1>5, <2>6
    <2>8. /\ \A m \in DOMAIN text : m < i + 1 <=> m < i \/ m = i
          /\ \A n \in DOMAIN other : n < j + 1 <=> n < j \/ n = j
      BY <1>5, <2>4
    <2>9. QED
      BY <2>1, <2>2, <2>3, <2>4, <2>5, <2>6, <2>7, <2>8
  <1>9. CASE MaximizeItem
    <2>1. /\ at = "walk" /\ i < Size(clock) /\ j < Size(other) /\ clock[i].uid = other[j].uid
          /\ clock' = IF clock[i].gen < other[j].gen
                      THEN [clock EXCEPT ![i].gen = other[j].gen] ELSE clock
          /\ i' = i + 1 /\ j' = j + 1 /\ at' = at /\ needed' = needed
      BY <1>9 DEF MaximizeItem, Walking, BothLeft, Stay
    <2>2. i < Size(text) /\ i \in DOMAIN text /\ j \in DOMAIN other /\ i >= i
      BY <1>4, <1>8, <2>1
    <2>3. clock[i] = text[i] /\ text[i].uid = other[j].uid
      BY <1>8, <2>1, <2>2
    <2>4. Walked(text, other, i + 1, j + 1)
      BY <1>2, <1>8, <2>1, <2>2, <2>3, WalkedBoth
    <2>5. text[i] \in Item /\ other[j] \in Item
      BY <1>2, <2>2 DEF SortedItems, ArrayOf
    <2>6. Join[text[i].uid] = IF text[i].gen < other[j].gen THEN other[j].gen ELSE text[i].gen
      BY <1>2, <2>2, <2>3, JoinIs
    <2>7. /\ clock' \in [DOMAIN text -> Item] /\ DOMAIN clock' = DOMAIN clock
          /\ clock'[i].uid = text[i].uid /\ clock'[i].gen = Join[text[i].uid]
          /\ \A m \in DOMAIN text : m # i => clock'[m] = clock[m]
      <3>1. CASE text[i].gen < other[j].gen
        <4>1. clock' = [clock EXCEPT ![i].gen = other[j].gen]
          BY <2>1, <2>3, <3>1
        <4>2. clock' = [clock EXCEPT ![i] = [text[i] EXCEPT !.gen = other[j].gen]]
          BY <1>8, <2>2, <2>3, <4>1
        <4>3. /\ [text[i] EXCEPT !.gen = other[j].gen] \in Item
              /\ [text[i] EXCEPT !.gen = other[j].gen].uid = text[i].uid
              /\ [text[i] EXCEPT !.gen = other[j].gen].gen = other[j].gen
          BY <2>5 DEF Item
        <4>4. clock \in [DOMAIN text -> Item]
          BY <1>8, <2>1
        <4> DEFINE x == [text[i] EXCEPT !.gen = other[j].gen]
        <4>5. clock' = [clock EXCEPT ![i] = x] /\ x \in Item /\ x.uid = text[i].uid /\ x.gen = Join[text[i].uid]
          BY <2>6, <3>1, <4>2, <4>3
        <4> HIDE DEF x
        <4>6. QED
          BY <2>2, <4>4, <4>5
      <3>2. CASE ~(text[i].gen < other[j].gen)
        BY <1>8, <2>1, <2>2, <2>3, <2>6, <3>2
      <3>3. QED
        BY <3>1, <3>2
    <2>8. Size(clock') = Size(text)
      BY <1>8, <2>7 DEF Size
    <2>9. ArrayOf(clock', Item)
      BY <1>4, <2>7, <2>8 DEF ArrayOf
    <2>10. ASSUME NEW m \in DOMAIN text
           PROVE  /\ clock'[m].uid = text[m].uid
                  /\ m < i + 1 => clock'[m].gen = Join[text[m].uid]
                  /\ m >= i + 1 => clock'[m] = text[m]
      <3>1. CASE m = i
        BY <1>8, <2>7, <3>1
      <3>2. CASE m # i
        <4>1. (m >= i + 1 => m >= i) /\ (m < i + 1 => m < i)
          BY <1>5, <1>8, <2>1, <3>2
        <4>2. clock'[m] = clock[m]
          BY <2>7, <3>2
        <4>3. QED
          BY <1>8, <2>1, <4>1, <4>2
      <3>3. QED
        BY <3>1, <3>2
    <2>11. Noted(text, other, needed, i + 1)
      <3>1. i + 1 \in Nat /\ i <= i + 1
        BY <1>8, <2>1
      <3>2. QED
        BY <1>8, <2>1, <3>1, NotedMore
    <2>12. \A k \in 1..Len(needed) : needed[k].from < j + 1
      <3>1. \A x \in Nat : x < j => x < j + 1
        BY <1>8, <2>1
      <3>2. QED
        BY <1>8, <2>1, <3>1
    <2>13. \A n \in DOMAIN other : n < j + 1 =>
             \/ \E m \in DOMAIN text : text[m].uid = other[n].uid
             \/ \E k \in 1..Len(needed) : needed[k].from = n
      BY <1>8, <2>1, <2>2, <2>3
    <2>14. QED
      BY <1>6, <2>1, <2>4, <2>8, <2>9, <2>10, <2>11, <2>12, <2>13
  <1>10. CASE PassItem
    <2>1. /\ at = "walk" /\ i < Size(clock) /\ j < Size(other) /\ clock[i].uid < other[j].uid
          /\ clock' = clock /\ i' = i + 1 /\ j' = j /\ at' = at /\ needed' = needed
      BY <1>10 DEF PassItem, Walking, BothLeft, Stay
    <2>2. i < Size(text) /\ i \in DOMAIN text /\ j \in DOMAIN other /\ i >= i
      BY <1>4, <1>8, <2>1
    <2>3. clock[i] = text[i] /\ text[i].uid < other[j].uid
      BY <1>8, <2>1, <2>2
    <2>4. Walked(text, other, i + 1, j)
      BY <1>2, <1>8, <2>1, <2>2, <2>3, WalkedFirst
    <2>5. \A n \in DOMAIN other : other[n].uid # text[i].uid
      <3> SUFFICES ASSUME NEW n \in DOMAIN other PROVE other[n].uid # text[i].uid
        OBVIOUS
      <3>1. n < j \/ n >= j
        BY <1>5, <1>8, <2>1
      <3>2. n < j => other[n].uid < text[i].uid
        BY <1>8, <2>1, <2>2 DEF Walked
      <3>3. n >= j => text[i].uid < other[n].uid
        <4>1. i < i + 1
          BY <1>8, <2>1
        <4>2. QED
          BY <2>2, <2>4, <4>1 DEF Walked
      <3>4. QED
        BY <1>5, <2>2, <3>1, <3>2, <3>3
    <2>6. Join[text[i].uid] = text[i].gen
      BY <1>2, <2>2, <2>5, JoinIs
    <2>7. ASSUME NEW m \in DOMAIN text
          PROVE  /\ clock[m].uid = text[m].uid
                 /\ m < i + 1 => clock[m].gen = Join[text[m].uid]
                 /\ m >= i + 1 => clock[m] = text[m]
      <3>1. m >= i + 1 => m >= i
        BY <1>5, <1>8, <2>1
      <3>2. QED
        BY <1>8, <2>1, <2>3, <2>6, <3>1
    <2>8. Noted(text, other, needed, i + 1)
      <3>1. i + 1 \in Nat /\ i <= i + 1
        BY <1>8, <2>1
      <3>2. QED
        BY <1>8, <2>1, <3>1, NotedMore
    <2>9. QED
      BY <1>6, <1>8, <2>1, <2>4, <2>7, <2>8
  <1>11. CASE NoteInsert
    <2>1. /\ at = "walk" /\ j < Size(other)
          /\ i < Size(clock) => other[j].uid < clock[i].uid
          /\ needed' = <<[offset |-> i + Len(needed), from |-> j]>> \o needed
          /\ clock' = clock /\ i' = i /\ j' = j + 1 /\ at' = at
      BY <1>11 DEF NoteInsert, Walking, Stay
    <2>2. j < Size(other) /\ j \in DOMAIN other
      BY <1>4, <1>8, <2>1
    <2>3. i < Size(text) => other[j].uid < text[i].uid
      <3>1. i < Size(text) => i \in DOMAIN text /\ i >= i
        BY <1>4, <1>8, <2>1
      <3>2. i < Size(text) => clock[i] = text[i]
        BY <1>8, <2>1, <3>1
      <3>3. QED
        BY <1>8, <2>1, <3>2
    <2>4. Walked(text, other, i, j + 1)
      BY <1>2, <1>8, <2>1, <2>2, <2>3, WalkedSecond
    <2>5. \A m \in DOMAIN text : (m < i => text[m].uid < other[j].uid) /\ (m >= i => other[j].uid < text[m].uid)
      <3>1. j < j + 1 /\ j >= j
        BY <1>8, <2>1
      <3>2. \A m \in DOMAIN text : m < i => text[m].uid < other[j].uid
        BY <1>8, <2>1, <2>2, <3>1 DEF Walked
      <3>3. \A m \in DOMAIN text : m >= i => other[j].uid < text[m].uid
        BY <2>2, <2>4, <3>1 DEF Walked
      <3>4. QED
        BY <3>2, <3>3
    <2>6. /\ Noted(text, other, needed', i) /\ Len(needed') = Len(needed) + 1
          /\ needed'[1].from = j
          /\ \A k \in 1..Len(needed) : needed'[k + 1].from = needed[k].from
      <3> DEFINE q == needed
                 new == needed'
      <3>1. /\ Noted(text, other, q, i) /\ i \in Nat /\ j \in Nat /\ j \in DOMAIN other
            /\ \A k \in 1..Len(q) : q[k].from < j
            /\ Len(q) \in Nat
        BY <1>8, <2>1, <2>2
      <3> DEFINE x == [offset |-> i + Len(q), from |-> j]
      <3>2. x \in Insert /\ x.offset = i + Len(q) /\ x.from = j
        BY <3>1 DEF Insert
      <3>3. new = <<x>> \o q
        BY <2>1
      <3> HIDE DEF q, new, x
      <3>4. /\ Noted(text, other, new, i) /\ Len(new) = Len(q) + 1
            /\ new[1].from = j /\ \A k \in 1..Len(q) : new[k + 1].from = q[k].from
        <4>1. \A m \in DOMAIN text : (m < i => text[m].uid < other[j].uid) /\ (m >= i => other[j].uid < text[m].uid)
          BY <2>5
        <4>2. QED
          BY <3>1, <3>2, <3>3, <4>1, NotedOneMore
      <3>5. QED
        BY <3>4 DEF q, new
    <2>7. \A k \in 1..Len(needed') : k = 1 \/ (k - 1 \in 1..Len(needed) /\ k = (k - 1) + 1)
      BY <1>8, <2>1, <2>6
    <2>8. \A k \in 1..Len(needed') : needed'[k].from < j + 1
      <3> SUFFICES ASSUME NEW k \in 1..Len(needed') PROVE needed'[k].from < j + 1
        OBVIOUS
      <3>1. CASE k = 1
        BY <1>8, <2>1, <2>6, <3>1
      <3>2. CASE k - 1 \in 1..Len(needed) /\ k = (k - 1) + 1
        <4>1. needed'[k].from = needed[k - 1].from
          BY <2>6, <3>2
        <4>2. needed[k - 1].from < j /\ needed[k - 1].from \in Nat
          BY <1>8, <2>1, <3>2
        <4>3. QED
          BY <1>8, <2>1, <4>1, <4>2
      <3>3. QED
        BY <2>7, <3>1, <3>2
    <2>9. \A n \in DOMAIN other : n < j + 1 =>
            \/ \E m \in DOMAIN text : text[m].uid = other[n].uid
            \/ \E k \in 1..Len(needed') : needed'[k].from = n
      <3>1. 1 \in 1..Len(needed') /\ \A k \in 1..Len(needed) : k + 1 \in 1..Len(needed')
        BY <1>8, <2>1, <2>6
      <3>2. QED
        <4> SUFFICES ASSUME NEW n \in DOMAIN other, n < j + 1
                     PROVE  \/ \E m \in DOMAIN text : text[m].uid = other[n].uid
                            \/ \E k \in 1..Len(needed') : needed'[k].from = n
          OBVIOUS
        <4>1. CASE n = j
          BY <2>6, <3>1, <4>1
        <4>2. ASSUME NEW k \in 1..Len(needed), needed[k].from = n
              PROVE  \E l \in 1..Len(needed') : needed'[l].from = n
          BY <2>6, <3>1, <4>2
        <4>3. CASE n < j
          BY <1>8, <2>1, <4>2, <4>3
        <4>4. QED
          BY <1>8, <2>1, <4>1, <4>3
    <2>10. QED
      BY <1>6, <1>8, <2>1, <2>4, <2>6, <2>8, <2>9
  <1>12. CASE Expand
    <2>1. at = "walk" /\ j = Size(other) /\ needed' = needed
      BY <1>12 DEF Expand, Walking
    <2>2. CASE needed = <<>>
      <3>1. clock' = clock /\ at' = "done"
        BY <1>12, <2>2 DEF Expand, Finish
      <3>2. Len(needed) = 0 /\ DOMAIN clock = 0..(Size(text) + Len(needed) - 1)
        BY <1>4, <1>8, <2>1, <2>2
      <3>3. Moved(text, other, Join, clock, <<>>, Size(text))
        BY <1>2, <1>8, <2>1, <2>2, <3>2, CollectedAll
      <3>4. ArrayOf(clock, Slot) /\ Size(text) <= Size(clock)
        BY <1>4, <1>8, <2>1 DEF ArrayOf, Slot
      <3>5. Join \in [Uid -> Nat]
        BY <1>2, JoinIs
      <3>6. SortedItems(clock) /\ Meaning(clock) = Join
        BY <1>2, <3>3, <3>4, <3>5, MovedAll
      <3>7. QED
        BY <1>7, <3>1, <3>6
    <2>3. CASE needed # <<>>
      <3> DEFINE len == Len(needed)
                 size == Size(text)
      <3>1. /\ at' = "move" /\ end' = size + len - 1
            /\ clock' = [n \in 0..(size + len - 1) |-> IF n < size THEN clock[n] ELSE Blank]
        BY <1>8, <1>12, <2>1, <2>3 DEF Expand
      <3>2. size \in Nat /\ len \in Nat /\ DOMAIN text = 0..(size - 1)
        BY <1>4, <1>8, <2>1
      <3>3. /\ DOMAIN clock' = 0..(size + len - 1)
            /\ \A n \in DOMAIN text : clock'[n] = clock[n]
        <4>1. \A n \in DOMAIN text : n \in 0..(size + len - 1) /\ n < size
          BY <3>2
        <4>2. QED
          BY <3>1, <4>1
      <3>4. /\ Moved(text, other, Join, clock', needed, size)
            /\ Size(clock') = size + len
        <4>1. \A a : DOMAIN a = 0..(Size(text) + Len(needed) - 1)
                     /\ (\A n \in DOMAIN text : a[n] = clock[n])
                     => Moved(text, other, Join, a, needed, Size(text))
                        /\ Size(a) = Size(text) + Len(needed)
          BY <1>2, <1>8, <2>1, CollectedAll
        <4>2. QED
          BY <3>3, <4>1
      <3>5. \A n \in 0..(size + len - 1) : n < size => clock[n] \in Item
        <4>1. \A n \in 0..(size + len - 1) : n < size => n \in DOMAIN text
          BY <3>2
        <4>2. QED
          BY <1>8, <2>1, <4>1
      <3> HIDE DEF size, len
      <3>6. ArrayOf(clock', Slot)
        <4>1. clock' \in [0..(size + len - 1) -> Slot]
          BY <3>1, <3>5 DEF Slot
        <4>2. QED
          BY <3>2, <3>4, <4>1 DEF ArrayOf
      <3>7. end' \in Int /\ size = end' - len + 1 /\ size <= Size(clock')
        BY <3>1, <3>2, <3>4
      <3>8. Moved(text', other', Join', clock', needed', end' - Len(needed') + 1)
        BY <1>1, <1>3, <2>1, <3>4, <3>7 DEF len
      <3>9. MaximizeJoins'
        BY <3>1 DEF MaximizeJoins, Returns
      <3>10. QED
        BY <1>1, <1>2, <2>1, <2>3, <3>1, <3>6, <3>7, <3>8, <3>9 DEF MaximizeInv, size
    <2>4. QED
      BY <2>2, <2>3
  <1>13. CASE MoveItems
    <2> DEFINE r == end - Len(needed) + 1
               o == needed[1].offset
               p == Place(needed, 1)
               f == other[needed[1].from]
               c == clock'
               len == Len(needed)
    <2>1. /\ at = "move" /\ needed # <<>>
          /\ clock' = [n \in DOMAIN clock |->
               CASE n = Head(needed).offset -> other[Head(needed).from]
                 [] n > Head(needed).offset /\ n <= Head(needed).offset + (end - Head(needed).offset) ->
                      clock[(Head(needed).offset - Len(needed) + 1) + (n - Head(needed).offset - 1)]
                 [] OTHER -> clock[n]]
          /\ end' = Head(needed).offset - 1 /\ needed' = Tail(needed)
          /\ IF Tail(needed) = <<>> THEN at' = "done" ELSE at' = at
      BY <1>13 DEF MoveItems, Finish, Stay
    <2>2. /\ ArrayOf(clock, Slot) /\ Size(text) <= Size(clock)
          /\ Moved(text, other, Join, clock, needed, r)
      BY <2>1 DEF MaximizeInv
    <2>3. /\ r \in Nat /\ r \in 0..Size(text) /\ r + len <= Size(clock)
          /\ Noted(text, other, needed, r)
          /\ DOMAIN clock = 0..(Size(clock) - 1) /\ Size(clock) \in Nat
      <3>1. r \in 0..Size(text) /\ r + Len(needed) <= Size(clock) /\ Noted(text, other, needed, r)
        BY <2>2 DEF Moved
      <3>2. DOMAIN clock = 0..(Size(clock) - 1) /\ Size(clock) \in Nat
        BY <2>2 DEF ArrayOf
      <3>3. r \in Nat
        BY <1>4, <3>1
      <3>4. QED
        BY <3>1, <3>2, <3>3
    <2>4. /\ needed \in Seq(Insert) /\ len \in Nat \ {0} /\ Head(needed) = needed[1]
          /\ needed[1] \in Insert
      <3>1. needed \in Seq(Insert)
        BY <2>3 DEF Noted
      <3>2. QED
        BY <2>1, <3>1
    <2>5. o \in Nat /\ p = o - len + 1 /\ p \in 0..r /\ p \in Nat /\ Tail(needed) \in Seq(Insert)
          /\ Len(Tail(needed)) = len - 1
      <3>1. o \in Nat
        BY <2>4 DEF Insert
      <3>2. p = o - len + 1
        BY <2>4, <3>1 DEF Place
      <3>3. p \in 0..r
        BY <2>3, <2>4 DEF Noted
      <3>4. p \in Nat
        BY <2>3, <3>3
      <3>5. QED
        BY <2>1, <2>4, <3>1, <3>2, <3>3, <3>4
    <2>6. r + len = end + 1
      BY <2>3, <2>4
    <2>7. c = [n \in DOMAIN clock |->
                 CASE n = o -> f
                   [] n > o /\ n <= o + (end - o) -> clock[(o - len + 1) + (n - o - 1)]
                   [] OTHER -> clock[n]]
      BY <2>1, <2>4
    <2>8. Join \in [Uid -> Nat] /\ \A k \in 1..len : Join[other[needed[k].from].uid] = other[needed[k].from].gen
      BY <1>2, <2>3, JoinIs, InsertedIs
    <2> HIDE DEF r, o, p, f, c, len
    <2>9. DOMAIN c = DOMAIN clock /\ c = [n \in DOMAIN clock |-> c[n]]
      BY <2>7
    <2>10. o \in DOMAIN clock
      <3>1. o = p + len - 1
        BY <2>4, <2>5
      <3>2. p \in Nat /\ p <= r
        BY <2>3, <2>5
      <3>3. o < Size(clock)
        BY <2>3, <2>4, <2>5, <3>1, <3>2
      <3>4. QED
        BY <2>3, <2>5, <3>3
    <2>11. c[o] = f
      <3>1. ~(o > o)
        BY <2>5
      <3>2. QED
        BY <2>7, <2>10, <3>1
    <2>12. \A n \in DOMAIN clock : n > o /\ n < r + len => c[n] = clock[p + (n - o - 1)]
      <3> SUFFICES ASSUME NEW n \in DOMAIN clock, n > o, n < r + len
                   PROVE  c[n] = clock[p + (n - o - 1)]
        OBVIOUS
      <3>1. n # o /\ n <= o + (end - o)
        BY <2>3, <2>5, <2>6
      <3>2. QED
        BY <2>5, <2>7, <3>1
    <2>13. \A n \in DOMAIN clock : n < o \/ n >= r + len => c[n] = clock[n]
      <3> SUFFICES ASSUME NEW n \in DOMAIN clock, n < o \/ n >= r + len
                   PROVE  c[n] = clock[n]
        OBVIOUS
      <3>1. n # o /\ ~(n > o /\ n <= o + (end - o))
        <4>1. n \in Nat /\ o < r + len
          <5>1. n \in Nat /\ p <= r
            BY <2>3, <2>5
          <5>2. QED
            BY <2>3, <2>4, <2>5, <5>1
        <4>2. QED
          BY <2>3, <2>4, <2>5, <2>6, <4>1
      <3>2. QED
        BY <2>7, <3>1
    <2>14. Moved(text, other, Join, c, Tail(needed), p) /\ ArrayOf(c, Slot)
      <3>1. o = needed[1].offset /\ p = Place(needed, 1) /\ f = other[needed[1].from] /\ len = Len(needed)
        BY DEF o, p, f, len
      <3> DEFINE q == needed
                 join == Join
      <3>2. /\ q # <<>> /\ ArrayOf(clock, Slot) /\ Moved(text, other, join, clock, q, r)
            /\ \A k \in 1..Len(q) : join[other[q[k].from].uid] = other[q[k].from].gen
            /\ join \in [Uid -> Nat]
            /\ o = q[1].offset /\ p = Place(q, 1) /\ f = other[q[1].from]
            /\ c = [n \in DOMAIN clock |-> c[n]] /\ c[o] = f
            /\ \A n \in DOMAIN clock : n > o /\ n < r + Len(q) => c[n] = clock[p + (n - o - 1)]
            /\ \A n \in DOMAIN clock : n < o \/ n >= r + Len(q) => c[n] = clock[n]
        BY <2>1, <2>2, <2>8, <2>9, <2>11, <2>12, <2>13, <3>1
      <3>3. Moved(text, other, join, c, Tail(q), p) /\ ArrayOf(c, Slot)
        <4> HIDE DEF q, join
        <4>1. QED
          BY <1>2, <3>2, MoveOne
      <3>4. QED
        BY <3>3
    <2>15. Size(c) = Size(clock)
      BY <2>9 DEF Size
    <2>16. CASE Tail(needed) = <<>>
      <3>1. SortedItems(c) /\ Meaning(c) = Join
        <4>1. Moved(text, other, Join, c, <<>>, p) /\ ArrayOf(c, Slot) /\ Size(text) <= Size(c)
          BY <2>2, <2>14, <2>15, <2>16
        <4>2. QED
          BY <1>2, <2>8, <4>1, MovedAll
      <3>2. QED
        BY <1>7, <2>1, <2>16, <3>1 DEF c
    <2>17. CASE Tail(needed) # <<>>
      <3>1. at' = "move" /\ needed' = Tail(needed) /\ end' = o - 1
        BY <2>1, <2>4, <2>17 DEF o
      <3>2. end' \in Int /\ end' - Len(needed') + 1 = p
        BY <2>4, <2>5, <3>1
      <3>3. Moved(text', other', Join', clock', needed', end' - Len(needed') + 1)
        BY <1>1, <1>3, <2>14, <3>1, <3>2 DEF c
      <3>4. MaximizeJoins'
        BY <3>1 DEF MaximizeJoins, Returns
      <3>5. ArrayOf(clock', Slot) /\ Size(text') <= Size(clock')
        BY <1>1, <2>2, <2>14, <2>15 DEF c
      <3>6. QED
        BY <1>2, <2>17, <3>1, <3>2, <3>3, <3>4, <3>5 DEF MaximizeInv
    <2>18. QED
      BY <2>16, <2>17
  <1>14. QED
    BY <1>9, <1>10, <1>11, <1>12, <1>13

-----------------------------------------------------------------------------
(***************************************************************************)
(* The module's invariant.                                                 *)
(***************************************************************************)
ItemsIInv ==
  /\ op \in {"from_str", "increment", "maximize", "is_newer"}
  /\ uid \in Uid /\ i \in Nat /\ j \in Nat /\ end \in Int
  /\ needed \in Seq(Insert)
  /\ answer \in BOOLEAN
  /\ ArrayOf(other, Item)
  /\ op = "from_str" => FromStrInv
  /\ op = "increment" => IncrementInv
  /\ op = "maximize" => MaximizeInv
  /\ op = "is_newer" => IsNewerInv

\* The sorted arrays that the functions are given.
LEMMA ArraysAre ==
  ASSUME NEW a \in Arrays
  PROVE  SortedItems(a) /\ \A n \in DOMAIN a : a[n].gen <= MaxGen
  <1>1. PICK n \in 0..Cardinality(Uid) :
          a \in [0..(n - 1) -> [uid : Uid, gen : 1..MaxGen]] /\ Sorted(a)
    BY DEF Arrays
  <1>2. n \in Nat
    OBVIOUS
  <1>3. Size(a) = n
    BY <1>1, <1>2, SizeIs
  <1>4. \A g \in 1..MaxGen : g \in 1..(MaxGen + 1) /\ g <= MaxGen
    BY MaxGenAssumption
  <1>5. \A m \in DOMAIN a : a[m] \in Item /\ a[m].gen <= MaxGen
    BY <1>1, <1>4 DEF Item
  <1>6. a \in [0..(n - 1) -> Item]
    BY <1>1, <1>5
  <1>7. QED
    BY <1>1, <1>2, <1>3, <1>5, <1>6 DEF SortedItems, ArrayOf

\* The invariant holds at the beginning.
LEMMA ItemsInit == Init => ItemsIInv
  <1> SUFFICES ASSUME Init PROVE ItemsIInv
    OBVIOUS
  <1>1. i = 0 /\ j = 0 /\ needed = <<>> /\ end = 0
    BY DEF Init
  <1>2. needed \in Seq(Insert) /\ Len(needed) = 0 /\ 1..Len(needed) = {}
    BY <1>1
  <1>3. (CHOOSE u \in Uid : TRUE) \in Uid
    BY UidAssumption
  <1>4. CASE op = "from_str" /\ at = "field"
    <2>1. /\ text \in Texts /\ clock = [n \in DOMAIN text |-> Blank]
          /\ other = NoArray /\ uid \in Uid /\ answer = TRUE
      BY <1>3, <1>4 DEF Init
    <2>2. PICK n \in 0..MaxFields : text \in [0..(n - 1) -> Field]
      BY <2>1 DEF Texts, Field
    <2>3. n \in Nat
      BY <2>2, MaxGenAssumption
    <2>4. DOMAIN text = 0..(n - 1) /\ DOMAIN clock = 0..(n - 1)
      BY <2>1, <2>2
    <2>5. Size(text) = n /\ Size(clock) = n
      BY <2>3, <2>4, SizeIs
    <2>6. clock \in [0..(n - 1) -> Slot]
      BY <2>1, <2>4 DEF Slot
    <2>7. ArrayOf(text, Field) /\ ArrayOf(clock, Slot)
      BY <2>2, <2>3, <2>5, <2>6 DEF ArrayOf
    <2>8. Hole = 0 /\ Others(0, 0) = {} /\ 0..(0 - 1) = {} /\ 0 \in 0..n
      BY <1>1, <1>4, <2>3 DEF Hole, Others
    <2>9. Filled(clock, text, 0, 0)
      BY <2>8 DEF Filled
    <2>10. FromStrInv
      BY <1>1, <1>4, <2>5, <2>7, <2>8, <2>9 DEF FromStrInv, FromStrSorts, Returns
    <2>11. ArrayOf(other, Item)
      <3>1. DOMAIN NoArray = 0..(0 - 1) /\ 0 \in Nat
        BY DEF NoArray
      <3>2. Size(NoArray) = 0
        BY <3>1, SizeIs
      <3>3. NoArray \in [0..(0 - 1) -> Item]
        BY <3>1 DEF NoArray
      <3>4. QED
        BY <2>1, <3>1, <3>2, <3>3 DEF ArrayOf
    <2>12. QED
      BY <1>1, <1>2, <1>4, <2>1, <2>10, <2>11 DEF ItemsIInv
  <1>5. CASE op = "increment" /\ at = "search"
    <2>1. clock \in Arrays /\ other = clock /\ uid \in Uid /\ answer = TRUE
      BY <1>5 DEF Init
    <2>2. SortedItems(other) /\ \A n \in DOMAIN other : other[n].gen <= MaxGen
      BY <2>1, ArraysAre
    <2>3. /\ ArrayOf(other, Item) /\ Size(other) \in Nat /\ DOMAIN other = 0..(Size(other) - 1)
          /\ 0 \in 0..Size(other)
      BY <2>2 DEF SortedItems, ArrayOf
    <2>4. \A m \in DOMAIN other : ~(m < 0)
      BY <2>3
    <2>5. IncrementInv
      BY <1>1, <1>5, <2>1, <2>2, <2>3, <2>4 DEF IncrementInv, IncrementAdds, Returns
    <2>6. QED
      BY <1>1, <1>2, <1>5, <2>1, <2>3, <2>5 DEF ItemsIInv
  <1>6. CASE op \in {"maximize", "is_newer"} /\ at = "walk"
    <2>1. clock \in Arrays /\ other \in Arrays /\ text = clock /\ uid \in Uid /\ answer = FALSE
      BY <1>3, <1>6 DEF Init
    <2>2. SortedItems(clock) /\ SortedItems(other)
      BY <2>1, ArraysAre
    <2>3. /\ ArrayOf(other, Item) /\ Size(other) \in Nat /\ DOMAIN other = 0..(Size(other) - 1)
          /\ ArrayOf(clock, Item) /\ Size(clock) \in Nat /\ DOMAIN clock = 0..(Size(clock) - 1)
          /\ 0 \in 0..Size(other) /\ 0 \in 0..Size(clock)
      BY <2>2 DEF SortedItems, ArrayOf
    <2>4. (\A m \in DOMAIN clock : ~(m < 0)) /\ (\A m \in DOMAIN other : ~(m < 0))
      BY <2>3
    <2>5. Walked(clock, other, i, j)
      BY <1>1, <2>3, <2>4 DEF Walked
    <2>6. answer \in BOOLEAN /\ uid \in Uid
      BY <2>1
    <2>7. CASE op = "maximize"
      <3>1. Noted(text, other, needed, i)
        BY <1>2 DEF Noted
      <3>2. Collected
        BY <1>1, <1>2, <2>1, <2>3, <2>4, <2>5, <3>1 DEF Collected
      <3>3. MaximizeInv
        BY <1>6, <2>1, <2>2, <2>7, <3>2 DEF MaximizeInv, MaximizeJoins, Returns
      <3>4. QED
        BY <1>1, <1>2, <2>3, <2>6, <2>7, <3>3 DEF ItemsIInv
    <2>8. CASE op = "is_newer"
      <3>1. IsNewerInv
        BY <1>1, <1>6, <2>1, <2>2, <2>4, <2>5, <2>8 DEF IsNewerInv, IsNewerCompares, Returns
      <3>2. QED
        BY <1>1, <1>2, <2>3, <2>6, <2>8, <3>1 DEF ItemsIInv
    <2>9. QED
      BY <1>6, <2>7, <2>8
  <1>7. QED
    BY <1>4, <1>5, <1>6 DEF Init

\* Every step of a function is one of its own loop.
LEMMA StepsOfTheFunction ==
  ASSUME ItemsIInv, Next
  PROVE  /\ op' = op
         /\ op = "from_str" => NextField \/ InsertItem
         /\ op = "increment" => SearchItem \/ IncrementItem \/ AddItem
         /\ op = "maximize" => MaximizeItem \/ PassItem \/ NoteInsert \/ Expand \/ MoveItems
         /\ op = "is_newer" => CompareItems \/ OnlyInNewer \/ NewerInOther \/ EndOfWalk
  <1>1. /\ op \in {"from_str", "increment", "maximize", "is_newer"}
        /\ op = "from_str" => at \in {"field", "insert", "done"}
        /\ op = "increment" => at \in {"search", "done"}
        /\ op = "maximize" => at \in {"walk", "move", "done"}
        /\ op = "is_newer" => at \in {"walk", "done"}
    BY DEF ItemsIInv, FromStrInv, IncrementInv, MaximizeInv, IsNewerInv
  <1>2. CASE NextField \/ InsertItem
    <2>1. at \in {"field", "insert"} /\ op' = op
      BY <1>2 DEF NextField, InsertItem, Given
    <2>2. QED
      BY <1>1, <1>2, <2>1
  <1>3. CASE SearchItem \/ IncrementItem \/ AddItem
    <2>1. at = "search" /\ op' = op
      BY <1>3 DEF SearchItem, IncrementItem, AddItem, Given
    <2>2. QED
      BY <1>1, <1>3, <2>1
  <1>4. CASE MaximizeItem \/ PassItem \/ NoteInsert \/ Expand
    <2>1. op = "maximize" /\ op' = op
      BY <1>4 DEF MaximizeItem, PassItem, NoteInsert, Expand, Walking, Given
    <2>2. QED
      BY <1>4, <2>1
  <1>5. CASE MoveItems
    <2>1. at = "move" /\ op' = op
      BY <1>5 DEF MoveItems, Given
    <2>2. QED
      BY <1>1, <1>5, <2>1
  <1>6. CASE CompareItems \/ OnlyInNewer \/ NewerInOther \/ EndOfWalk
    <2>1. op = "is_newer" /\ op' = op
      BY <1>6 DEF CompareItems, OnlyInNewer, NewerInOther, EndOfWalk, Walking, Given
    <2>2. QED
      BY <1>6, <2>1
  <1>7. QED
    BY <1>2, <1>3, <1>4, <1>5, <1>6 DEF Next

\* Every step leaves what the loops count with of its type.
LEMMA CountersKept ==
  ASSUME ItemsIInv, Next
  PROVE  /\ op' \in {"from_str", "increment", "maximize", "is_newer"}
         /\ uid' \in Uid /\ i' \in Nat /\ j' \in Nat /\ end' \in Int
         /\ needed' \in Seq(Insert)
         /\ answer' \in BOOLEAN
         /\ ArrayOf(other, Item)'
  <1>1. /\ op \in {"from_str", "increment", "maximize", "is_newer"}
        /\ uid \in Uid /\ i \in Nat /\ j \in Nat /\ end \in Int
        /\ needed \in Seq(Insert) /\ answer \in BOOLEAN /\ ArrayOf(other, Item)
    BY DEF ItemsIInv
  <1>2. op' = op /\ uid' = uid /\ other' = other
    BY DEF Next, NextField, InsertItem, SearchItem, IncrementItem, AddItem, MaximizeItem, PassItem,
           NoteInsert, Expand, MoveItems, CompareItems, OnlyInNewer, NewerInOther, EndOfWalk, Given
  <1>3. i' = i \/ i' = i + 1
    BY DEF Next, NextField, InsertItem, SearchItem, IncrementItem, AddItem, MaximizeItem, PassItem,
           NoteInsert, Expand, MoveItems, CompareItems, OnlyInNewer, NewerInOther, EndOfWalk
  <1>4. j' = j \/ j' = j + 1 \/ j' = i \/ (j > 0 /\ j' = j - 1)
    BY DEF Next, NextField, InsertItem, SearchItem, IncrementItem, AddItem, MaximizeItem, PassItem,
           NoteInsert, Expand, MoveItems, CompareItems, OnlyInNewer, NewerInOther, EndOfWalk
  <1>5. i' \in Nat /\ j' \in Nat
    BY <1>1, <1>3, <1>4
  <1>6. answer' \in BOOLEAN
    <2>1. CASE CompareItems
      BY <2>1 DEF CompareItems
    <2>2. CASE OnlyInNewer \/ NewerInOther
      BY <2>2 DEF OnlyInNewer, NewerInOther, Finish
    <2>3. CASE EndOfWalk
      BY <2>3 DEF EndOfWalk, Finish
    <2>4. CASE NextField \/ InsertItem \/ SearchItem \/ IncrementItem \/ AddItem
      BY <1>1, <2>4 DEF NextField, InsertItem, SearchItem, IncrementItem, AddItem, Finish, Stay
    <2>5. CASE MaximizeItem \/ PassItem \/ NoteInsert \/ Expand \/ MoveItems
      BY <1>1, <2>5 DEF MaximizeItem, PassItem, NoteInsert, Expand, MoveItems, Finish, Stay
    <2>6. QED
      BY <2>1, <2>2, <2>3, <2>4, <2>5 DEF Next
  <1>7. needed' \in Seq(Insert) /\ end' \in Int
    <2>1. CASE NoteInsert
      <3> DEFINE x == [offset |-> i + Len(needed), from |-> j]
      <3>1. x \in Insert /\ needed' = <<x>> \o needed /\ end' = end
        BY <1>1, <2>1 DEF NoteInsert, Insert
      <3> HIDE DEF x
      <3>2. QED
        BY <1>1, <3>1
    <2>2. CASE Expand
      <3>1. needed' = needed
        BY <2>2 DEF Expand
      <3>2. CASE needed = <<>>
        BY <1>1, <2>2, <3>1, <3>2 DEF Expand
      <3>3. CASE needed # <<>>
        <4>1. end' = Size(clock) + Len(needed) - 1 /\ op = "maximize" /\ at = "walk"
          BY <2>2, <3>3 DEF Expand, Walking
        <4>2. Size(clock) \in Nat /\ Len(needed) \in Nat
          BY <1>1, <4>1 DEF ItemsIInv, MaximizeInv, Collected, ArrayOf
        <4>3. QED
          BY <1>1, <3>1, <4>1, <4>2
      <3>4. QED
        BY <3>2, <3>3
    <2>3. CASE MoveItems
      <3>1. needed # <<>> /\ needed' = Tail(needed) /\ end' = Head(needed).offset - 1
        BY <2>3 DEF MoveItems
      <3>2. Head(needed) \in Insert /\ Tail(needed) \in Seq(Insert)
        BY <1>1, <3>1
      <3>3. Head(needed).offset \in Nat
        BY <3>2 DEF Insert
      <3>4. QED
        BY <3>1, <3>2, <3>3
    <2>4. CASE UNCHANGED <<needed, end>>
      BY <1>1, <2>4
    <2>5. QED
      BY <2>1, <2>2, <2>3, <2>4
         DEF Next, NextField, InsertItem, SearchItem, IncrementItem, AddItem, MaximizeItem, PassItem,
             CompareItems, OnlyInNewer, NewerInOther, EndOfWalk
  <1>8. ArrayOf(other, Item)'
    BY <1>1, <1>2
  <1>9. QED
    BY <1>1, <1>2, <1>5, <1>6, <1>7, <1>8

\* Every step keeps the invariant.
LEMMA ItemsStep == ItemsIInv /\ [Next]_vars => ItemsIInv'
  <1> SUFFICES ASSUME ItemsIInv, [Next]_vars PROVE ItemsIInv'
    OBVIOUS
  <1>1. CASE Next
    <2>1. /\ op' = op
          /\ op = "from_str" => NextField \/ InsertItem
          /\ op = "increment" => SearchItem \/ IncrementItem \/ AddItem
          /\ op = "maximize" => MaximizeItem \/ PassItem \/ NoteInsert \/ Expand \/ MoveItems
          /\ op = "is_newer" => CompareItems \/ OnlyInNewer \/ NewerInOther \/ EndOfWalk
      BY <1>1, StepsOfTheFunction
    <2>2. op = "from_str" => FromStrInv'
      BY <2>1, FromStrStep DEF ItemsIInv
    <2>3. op = "increment" => IncrementInv'
      BY <2>1, IncrementStep DEF ItemsIInv
    <2>4. op = "maximize" => MaximizeInv'
      BY <2>1, MaximizeStep DEF ItemsIInv
    <2>5. op = "is_newer" => IsNewerInv'
      BY <2>1, IsNewerStep DEF ItemsIInv
    <2>6. QED
      BY <1>1, <2>1, <2>2, <2>3, <2>4, <2>5, CountersKept DEF ItemsIInv
  <1>2. CASE UNCHANGED vars
    <2>1. /\ op' = op /\ at' = at /\ text' = text /\ clock' = clock /\ other' = other /\ uid' = uid
          /\ i' = i /\ j' = j /\ needed' = needed /\ end' = end /\ answer' = answer
      BY <1>2 DEF vars
    <2>2. FromStrInv' <=> FromStrInv
      BY <2>1 DEF FromStrInv, FromStrSorts, Returns, Hole
    <2>3. IncrementInv' <=> IncrementInv
      BY <2>1 DEF IncrementInv, IncrementAdds, Returns
    <2>4. MaximizeInv' <=> MaximizeInv
      BY <2>1 DEF MaximizeInv, MaximizeJoins, Returns, Collected, Join
    <2>5. IsNewerInv' <=> IsNewerInv
      BY <2>1 DEF IsNewerInv, IsNewerCompares, Returns, NewerAt
    <2>6. QED
      BY <2>1, <2>2, <2>3, <2>4, <2>5 DEF ItemsIInv
  <1>3. QED
    BY <1>1, <1>2

\* In every state the program can be in, the invariant holds.
LEMMA ItemsInductive == Spec => []ItemsIInv
  BY ItemsInit, ItemsStep, PTL DEF Spec

\* Every variable has its type, and no array that a function returns has an
\* empty slot.
THEOREM TypeCorrect == Spec => []TypeOK
  <1>1. ItemsIInv => TypeOK
    <2> SUFFICES ASSUME ItemsIInv PROVE TypeOK
      OBVIOUS
    <2>1. /\ op \in {"from_str", "increment", "maximize", "is_newer"}
          /\ uid \in Uid /\ i \in Nat /\ j \in Nat /\ end \in Int
          /\ needed \in Seq([offset : Nat, from : Nat])
          /\ answer \in BOOLEAN /\ ArrayOf(other, Item)
      BY DEF ItemsIInv, Insert
    <2>2. at \in {"field", "insert", "search", "walk", "move", "done"}
      BY <2>1 DEF ItemsIInv, FromStrInv, IncrementInv, MaximizeInv, IsNewerInv
    <2>3. ArrayOf(clock, Slot) /\ (at = "done" /\ answer => ArrayOf(clock, Item))
      <3>1. CASE op = "from_str"
        BY <3>1 DEF ItemsIInv, FromStrInv
      <3>2. \A a : ArrayOf(a, Item) => ArrayOf(a, Slot)
        BY DEF ArrayOf, Slot
      <3>3. CASE op = "increment"
        BY <3>2, <3>3 DEF ItemsIInv, IncrementInv, SortedItems
      <3>4. CASE op = "maximize"
        BY <3>2, <3>4 DEF ItemsIInv, MaximizeInv, Collected, SortedItems
      <3>5. CASE op = "is_newer"
        BY <3>2, <3>5 DEF ItemsIInv, IsNewerInv, SortedItems
      <3>6. QED
        BY <2>1, <3>1, <3>3, <3>4, <3>5
    <2>4. {other[n] : n \in DOMAIN other} \subseteq Item
      BY <2>1 DEF ArrayOf
    <2>5. DOMAIN clock = 0..(Size(clock) - 1) /\ Slots(Item \cup {Blank})
      BY <2>3 DEF ArrayOf, Slots, Slot
    <2>6. at = "done" /\ answer => Slots(Item)
      BY <2>3 DEF ArrayOf, Slots
    <2>7. QED
      BY <2>1, <2>2, <2>4, <2>5, <2>6 DEF TypeOK
  <1>2. QED
    BY <1>1, ItemsInductive, PTL

\* u1db__vectorclock_from_str: of every text, of any length, it makes the
\* sorted array of its fields, or refuses it where a field is malformed or a
\* replica is named twice.
THEOREM FromStrAlwaysSorts == Spec => []FromStrSorts
  <1>1. ItemsIInv => FromStrSorts
    BY DEF ItemsIInv, FromStrInv, FromStrSorts, Returns
  <1>2. QED
    BY <1>1, ItemsInductive, PTL

\* u1db__vectorclock_increment: the array it leaves is sorted and is that of
\* the clock with one more for the replica, wherever its item is or belongs.
THEOREM IncrementAlwaysAdds == Spec => []IncrementAdds
  <1>1. ItemsIInv => IncrementAdds
    BY DEF ItemsIInv, IncrementInv, IncrementAdds, Returns
  <1>2. QED
    BY <1>1, ItemsInductive, PTL

\* u1db__vectorclock_maximize: of any two arrays, the inserts moved in from the
\* end make the sorted array of the greater generation of every replica.
THEOREM MaximizeAlwaysJoins == Spec => []MaximizeJoins
  <1>1. ItemsIInv => MaximizeJoins
    BY DEF ItemsIInv, MaximizeInv, MaximizeJoins, Returns
  <1>2. QED
    BY <1>1, ItemsInductive, PTL

\* u1db__vectorclock_is_newer: the walk over the two arrays answers whether the
\* one clock is newer than the other.
THEOREM IsNewerAlwaysCompares == Spec => []IsNewerCompares
  <1>1. ItemsIInv => IsNewerCompares
    BY DEF ItemsIInv, IsNewerInv, IsNewerCompares, Returns
  <1>2. QED
    BY <1>1, ItemsInductive, PTL

\* No loop reads a slot whose replica_uid is NULL, nor one beyond the array.
THEOREM OnlyItemsAreEverRead == Spec => []OnlyItemsAreRead
  <1>1. ItemsIInv => OnlyItemsAreRead
    <2> SUFFICES ASSUME ItemsIInv PROVE OnlyItemsAreRead
      OBVIOUS
    <2>1. ASSUME at = "insert", j > 0 PROVE clock[j - 1] # Blank
      <3>1. FromStrInv
        BY <2>1 DEF ItemsIInv, IncrementInv, MaximizeInv, IsNewerInv
      <3>2. /\ i < Size(text) /\ j \in 0..i /\ i \in 0..Size(text) /\ Size(text) \in Nat
            /\ Filled(clock, text, i, j) /\ \A n \in 0..(i - 1) : text[n] \in Item
        BY <2>1, <3>1 DEF FromStrInv, Hole, ArrayOf
      <3>3. j - 1 \in Others(i, j)
        BY <2>1, <3>2 DEF Others
      <3>4. clock[j - 1] \in Item
        BY <3>2, <3>3, FilledIs
      <3>5. QED
        BY <3>4, ItemIs
    <2> DEFINE offset == Head(needed).offset
               source == offset - Len(needed) + 1
               count == end - offset
    <2>2. ASSUME at = "move", needed # <<>>, count > 0
          PROVE  source \in Nat /\ \A n \in source..(source + count - 1) : n \in DOMAIN clock /\ clock[n] # Blank
      <3> DEFINE r == end - Len(needed) + 1
      <3>1. /\ MaximizeInv /\ needed \in Seq(Insert) /\ end \in Int
        BY <2>2 DEF ItemsIInv, FromStrInv, IncrementInv, IsNewerInv
      <3>2. Moved(text, other, Join, clock, needed, r) /\ ArrayOf(clock, Slot) /\ Size(text) \in Nat
        BY <2>2, <3>1 DEF MaximizeInv, SortedItems, ArrayOf
      <3>3. /\ r \in Nat /\ r + Len(needed) <= Size(clock) /\ Noted(text, other, needed, r)
            /\ DOMAIN clock = 0..(Size(clock) - 1) /\ Size(clock) \in Nat
            /\ \A n \in DOMAIN clock : n < r => clock[n] \in Item
        <4>1. /\ r \in 0..Size(text) /\ r + Len(needed) <= Size(clock) /\ Noted(text, other, needed, r)
              /\ \A n \in DOMAIN clock : n < r => clock[n] \in Item
          BY <3>2 DEF Moved
        <4>2. r \in Nat
          BY <3>2, <4>1
        <4>3. DOMAIN clock = 0..(Size(clock) - 1) /\ Size(clock) \in Nat
          BY <3>2 DEF ArrayOf
        <4>4. QED
          BY <4>1, <4>2, <4>3
      <3>4. Len(needed) \in Nat \ {0} /\ Head(needed) = needed[1] /\ needed[1] \in Insert
        BY <2>2, <3>1
      <3>5. offset \in Nat
        BY <3>4 DEF Insert
      <3>6. source \in 0..r
        <4>1. Place(needed, 1) = source
          BY <3>4, <3>5 DEF Place
        <4>2. QED
          BY <3>3, <3>4, <4>1 DEF Noted
      <3>7. source + count - 1 = r - 1
        BY <3>1, <3>4, <3>5
      <3> HIDE DEF source, count, r, offset
      <3>8. ASSUME NEW n \in source..(source + count - 1)
            PROVE  n \in DOMAIN clock /\ clock[n] # Blank
        <4>1. source \in Nat /\ n \in source..(r - 1)
          BY <3>3, <3>6, <3>7
        <4>2. n \in Nat /\ n < r
          BY <3>3, <4>1
        <4>3. n < Size(clock)
          BY <3>3, <3>4, <4>2
        <4>4. n \in DOMAIN clock
          BY <3>3, <4>2, <4>3
        <4>5. QED
          BY <3>3, <4>2, <4>4, ItemIs
      <3>9. source \in Nat
        BY <3>3, <3>6
      <3>10. QED
        BY <3>8, <3>9
    <2>3. QED
      BY <2>1, <2>2 DEF OnlyItemsAreRead
  <1>2. QED
    BY <1>1, ItemsInductive, PTL
=============================================================================

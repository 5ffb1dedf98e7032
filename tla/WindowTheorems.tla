--------------------------- MODULE WindowTheorems ---------------------------
(***************************************************************************)
(* Facts about the operations of the execution window, for any set of IDs  *)
(* and any capacity: what a sublist contains, and that no operation takes  *)
(* the window out of its type or above its capacity, nor the guard set out *)
(* of step if batches have no duplicates and no ID that is ready is        *)
(* released.  The theorems about the modules that compose the window       *)
(* (WindowClients, Relay) cite these.                                      *)
(***************************************************************************)
EXTENDS ExecutionWindow, FunctionTheorems, FiniteSetTheorems, SequenceTheorems, TLAPS

(* The rank of a kept position lies between 1 and the number of them, and  *)
(* grows with the position.                                                *)
LEMMA RankStrict ==
    ASSUME NEW n \in Nat, NEW keep \in SUBSET (1..n)
    PROVE  /\ IsFiniteSet(keep)
           /\ Cardinality(keep) \in Nat
           /\ Cardinality(keep) <= n
           /\ \A i \in keep : Rank(i, keep) \in 1..Cardinality(keep)
           /\ \A i, k \in keep : i < k => Rank(i, keep) < Rank(k, keep)
<1>1. /\ IsFiniteSet(keep)
      /\ Cardinality(keep) \in Nat
      /\ Cardinality(keep) <= n
  <2>1. IsFiniteSet(1..n) /\ Cardinality(1..n) = n
    BY FS_Interval
  <2>2. QED
    BY <2>1, FS_Subset, FS_CardinalityType
<1> DEFINE upTo(i) == {j \in keep : j <= i}
<1>2. \A i \in keep : /\ IsFiniteSet(upTo(i))
                      /\ Cardinality(upTo(i)) \in Nat
                      /\ Cardinality(upTo(i)) <= Cardinality(keep)
  BY <1>1, FS_Subset, FS_CardinalityType
<1>3. \A i \in keep : Cardinality(upTo(i)) # 0
  <2> TAKE i \in keep
  <2>1. i \in upTo(i)
    OBVIOUS
  <2>2. QED
    BY <1>2, <2>1, FS_EmptySet
<1>4. \A i, k \in keep : i < k => Cardinality(upTo(i)) < Cardinality(upTo(k))
  <2> SUFFICES ASSUME NEW i \in keep, NEW k \in keep, i < k
               PROVE  Cardinality(upTo(i)) < Cardinality(upTo(k))
    OBVIOUS
  <2>1. upTo(i) \in SUBSET upTo(k) /\ k \in upTo(k) /\ k \notin upTo(i)
    <3>1. i \in Int /\ k \in Int /\ \A j \in keep : j \in Int
      OBVIOUS
    <3>2. \A j \in keep : j <= i => j <= k
      BY <3>1
    <3>3. k <= k /\ ~(k <= i)
      BY <3>1
    <3>4. QED
      BY <3>2, <3>3
  <2>2. /\ Cardinality(upTo(i)) <= Cardinality(upTo(k))
        /\ Cardinality(upTo(k)) = Cardinality(upTo(i)) => upTo(k) = upTo(i)
    <3> HIDE DEF upTo
    <3>1. QED
      BY <1>2, <2>1, FS_Subset
  <2>3. Cardinality(upTo(i)) # Cardinality(upTo(k))
    BY <2>1, <2>2
  <2>4. QED
    BY <1>2, <2>2, <2>3
<1>5. \A i \in keep : Rank(i, keep) = Cardinality(upTo(i))
  BY DEF Rank
<1> HIDE DEF upTo
<1>6. QED
  BY <1>1, <1>2, <1>3, <1>4, <1>5

(* Every rank is taken: there is a k-th kept position for every k.         *)
LEMMA RankOnto ==
    ASSUME NEW n \in Nat, NEW keep \in SUBSET (1..n),
           NEW k \in 1..Cardinality(keep)
    PROVE  \E i \in keep : Rank(i, keep) = k
<1> DEFINE rank == [i \in keep |-> Rank(i, keep)]
<1>1. rank \in [keep -> 1..Cardinality(keep)]
  BY RankStrict
<1>2. \A i, j \in keep : rank[i] = rank[j] => i = j
  <2> SUFFICES ASSUME NEW i \in keep, NEW j \in keep, i # j
               PROVE  Rank(i, keep) # Rank(j, keep)
    OBVIOUS
  <2>1. CASE i < j
    BY <2>1, RankStrict
  <2>2. CASE j < i
    BY <2>2, RankStrict
  <2>3. QED
    BY <2>1, <2>2
<1> HIDE DEF rank
<1>3. rank \in Injection(keep, 1..Cardinality(keep))
  BY <1>1, <1>2, Fun_IsInj
<1>4. /\ IsFiniteSet(1..Cardinality(keep))
      /\ Cardinality(1..Cardinality(keep)) = Cardinality(keep)
  <2>1. Cardinality(keep) \in Nat
    BY RankStrict
  <2>2. QED
    BY <2>1, FS_Interval
<1>5. rank \in Surjection(keep, 1..Cardinality(keep))
  BY <1>3, <1>4, FS_Injection
<1>6. \E i \in keep : rank[i] = k
  BY <1>5 DEF Surjection
<1>7. QED
  BY <1>6 DEF rank

(* A sublist has as many elements as positions were kept, and exactly the  *)
(* elements at those positions.                                            *)
LEMMA SublistProperties ==
    ASSUME NEW S, NEW list \in Seq(S), NEW keep \in SUBSET (DOMAIN list)
    PROVE  /\ Sublist(list, keep) \in Seq(S)
           /\ Len(Sublist(list, keep)) = Cardinality(keep)
           /\ Len(Sublist(list, keep)) <= Len(list)
           /\ Elements(Sublist(list, keep)) = {list[i] : i \in keep}
<1> DEFINE size == Cardinality(keep)
           at(k) == CHOOSE i \in keep : Rank(i, keep) = k
<1>1. /\ Len(list) \in Nat
      /\ DOMAIN list = 1..Len(list)
      /\ \A i \in keep : list[i] \in S
  BY LenProperties, ElementOfSeq
<1>2. /\ size \in Nat
      /\ size <= Len(list)
      /\ \A i \in keep : Rank(i, keep) \in 1..size
  BY <1>1, RankStrict
<1>3. \A k \in 1..size : at(k) \in keep /\ Rank(at(k), keep) = k
  BY <1>1, RankOnto
<1>4. \A i \in keep : at(Rank(i, keep)) = i
  <2> TAKE i \in keep
  <2>1. /\ at(Rank(i, keep)) \in keep
        /\ Rank(at(Rank(i, keep)), keep) = Rank(i, keep)
    BY <1>2, <1>3
  <2>2. \A j \in keep : j # i => Rank(j, keep) # Rank(i, keep)
    <3> SUFFICES ASSUME NEW j \in keep, j # i
                 PROVE  Rank(j, keep) # Rank(i, keep)
      OBVIOUS
    <3>1. CASE i < j
      BY <1>1, <1>2, <3>1, RankStrict
    <3>2. CASE j < i
      BY <1>1, <1>2, <3>2, RankStrict
    <3>3. QED
      BY <1>1, <3>1, <3>2
  <2>3. QED
    BY <2>1, <2>2
<1>5. Sublist(list, keep) = [k \in 1..size |-> list[at(k)]]
  BY DEF Sublist
<1> HIDE DEF size, at
<1>6. /\ Sublist(list, keep) \in Seq(S)
      /\ Len(Sublist(list, keep)) = size
      /\ DOMAIN Sublist(list, keep) = 1..size
  BY <1>1, <1>2, <1>3, <1>5
<1>7. Elements(Sublist(list, keep)) = {list[i] : i \in keep}
  BY <1>2, <1>3, <1>4, <1>5, <1>6 DEF Elements
<1>8. QED
  BY <1>2, <1>6, <1>7 DEF size

LEMMA RoomBesideNat ==
    ASSUME NEW occupied \in Nat
    PROVE  RoomBeside(occupied) \in Nat
  BY CapacityAssumption DEF RoomBeside

(* LREM leaves a list of the same IDs, no longer than it was.              *)
LEMMA LremProperties ==
    ASSUME NEW S, NEW list \in Seq(S), NEW ids
    PROVE  /\ Lrem(list, ids) \in Seq(S)
           /\ Len(Lrem(list, ids)) \in Nat
           /\ Len(Lrem(list, ids)) <= Len(list)
           /\ Elements(Lrem(list, ids)) = Elements(list) \ ids
<1> DEFINE keep == {i \in DOMAIN list : list[i] \notin ids}
<1>1. /\ Sublist(list, keep) \in Seq(S)
      /\ Len(Sublist(list, keep)) <= Len(list)
      /\ Elements(Sublist(list, keep)) = {list[i] : i \in keep}
  BY SublistProperties
<1>2. {list[i] : i \in keep} = Elements(list) \ ids
  BY DEF Elements
<1>3. QED
  BY <1>1, <1>2, LenProperties DEF Lrem

(* The reply of ENQUEUE_LUA: new IDs of the batch, as many as fit at most. *)
LEMMA AcceptedProperties ==
    ASSUME WindowTypeOK, NEW ids \in Seq(Deliveries)
    PROVE  /\ Accepted(ids) \in Seq(Deliveries)
           /\ Len(Accepted(ids)) \in Nat
           /\ Len(Accepted(ids)) <= Len(ids)
           /\ Len(Accepted(ids)) <= RoomBeside(Occupancy)
           /\ Elements(Accepted(ids)) \subseteq Elements(ids) \ dedupe
<1> DEFINE keep == {i \in DOMAIN ids : ids[i] \notin dedupe}
           fresh == Sublist(ids, keep)
           room == RoomBeside(Occupancy)
           count == IF Len(fresh) <= room THEN Len(fresh) ELSE room
<1>1. /\ fresh \in Seq(Deliveries)
      /\ Len(fresh) <= Len(ids)
      /\ Elements(fresh) = {ids[i] : i \in keep}
  BY SublistProperties
<1>2. Len(fresh) \in Nat /\ Len(ids) \in Nat /\ DOMAIN fresh = 1..Len(fresh)
  BY <1>1, LenProperties
<1>3. room \in Nat
  <2>1. Occupancy \in Nat
    BY LenProperties DEF WindowTypeOK, Occupancy
  <2>2. QED
    BY <2>1, RoomBesideNat
<1>4. Elements(fresh) \subseteq Elements(ids) \ dedupe
  BY <1>1 DEF Elements
<1>5. Accepted(ids) = SubSeq(fresh, 1, count)
  BY DEF Accepted, AcceptedInto
<1> HIDE DEF fresh, room
<1>6. count \in 0..Len(fresh) /\ count <= room
  BY <1>2, <1>3
<1> HIDE DEF count
<1>7. \A i \in 1..count : fresh[i] \in Deliveries
  BY <1>1, <1>2, <1>6, ElementOfSeq
<1>8. /\ SubSeq(fresh, 1, count) \in Seq(Deliveries)
      /\ Len(SubSeq(fresh, 1, count)) = count
      /\ \A i \in 1..count : SubSeq(fresh, 1, count)[i] = fresh[i]
  <2>1. count \in Int
    BY <1>6
  <2>2. QED
    BY <1>6, <1>7, <2>1, SubSeqProperties
<1>9. Elements(SubSeq(fresh, 1, count)) \subseteq Elements(fresh)
  <2>1. DOMAIN SubSeq(fresh, 1, count) = 1..count
    BY <1>8, LenProperties
  <2>2. QED
    BY <1>2, <1>6, <1>8, <2>1 DEF Elements
<1>10. QED
  BY <1>1, <1>2, <1>4, <1>5, <1>6, <1>8, <1>9 DEF room

(***************************************************************************)
(* Every operation keeps the window typed and within its capacity, with no *)
(* assumption on who calls it or on what the caller believes.              *)
(***************************************************************************)
LEMMA EnqueueSafe ==
    ASSUME WindowTypeOK, NEW ids \in Seq(Deliveries), Enqueue(ids)
    PROVE  WindowTypeOK' /\ (WindowBounded => WindowBounded')
<1>1. /\ Accepted(ids) \in Seq(Deliveries)
      /\ Len(Accepted(ids)) \in Nat
      /\ Len(Accepted(ids)) <= RoomBeside(Occupancy)
  BY AcceptedProperties
<1>2. Elements(Accepted(ids)) \subseteq Deliveries
  BY <1>1, LenProperties, ElementOfSeq DEF Elements
<1>3. WindowTypeOK'
  BY <1>1, <1>2, ConcatProperties DEF Enqueue, WindowTypeOK
<1>4. ASSUME WindowBounded
      PROVE  WindowBounded'
  <2>1. Len(ready') = Len(ready) + Len(Accepted(ids)) /\ inFlight' = inFlight
    BY <1>1, ConcatProperties DEF Enqueue, WindowTypeOK
  <2>2. Len(ready) \in Nat /\ Len(inFlight) \in Nat
    BY LenProperties DEF WindowTypeOK
  <2>3. QED
    BY <1>1, <1>4, <2>1, <2>2, CapacityAssumption
    DEF WindowBounded, Occupancy, RoomBeside
<1>5. QED
  BY <1>3, <1>4

LEMMA ClaimSafe ==
    ASSUME WindowTypeOK, NEW d, Claim(d)
    PROVE  /\ d \in Deliveries
           /\ WindowTypeOK'
           /\ WindowBounded => WindowBounded'
<1>1. /\ d \in Deliveries
      /\ ready' \in Seq(Deliveries)
      /\ Len(ready') = Len(ready) - 1
  BY HeadTailProperties DEF Claim, WindowTypeOK
<1>2. /\ inFlight' \in Seq(Deliveries)
      /\ Len(inFlight') = Len(inFlight) + 1
  BY <1>1, AppendProperties DEF Claim, WindowTypeOK
<1>3. Len(ready) \in Nat /\ Len(inFlight) \in Nat
  BY LenProperties DEF WindowTypeOK
<1>4. QED
  BY <1>1, <1>2, <1>3 DEF Claim, WindowTypeOK, WindowBounded, Occupancy

LEMMA ReleaseSafe ==
    ASSUME WindowTypeOK, NEW ids, Release(ids)
    PROVE  WindowTypeOK' /\ (WindowBounded => WindowBounded')
<1>1. /\ inFlight' \in Seq(Deliveries)
      /\ Len(inFlight') \in Nat
      /\ Len(inFlight') <= Len(inFlight)
  BY LremProperties DEF Release, WindowTypeOK
<1>2. Len(ready) \in Nat /\ Len(inFlight) \in Nat
  BY LenProperties DEF WindowTypeOK
<1>3. QED
  BY <1>1, <1>2, CapacityAssumption
  DEF Release, WindowTypeOK, WindowBounded, Occupancy

LEMMA CompleteSafe ==
    ASSUME WindowTypeOK, NEW d, Complete(d)
    PROVE  WindowTypeOK' /\ (WindowBounded => WindowBounded')
<1>1. Release({d})
  BY DEF Complete, Release
<1>2. QED
  BY <1>1, ReleaseSafe

LEMMA EmptyWindowSafe ==
    /\ WindowInit => WindowTypeOK /\ WindowBounded
    /\ RedisRestart => WindowTypeOK' /\ WindowBounded'
<1>1. <<>> \in Seq(Deliveries) /\ Len(<<>>) = 0
  BY EmptySeq
<1>2. 0 + 0 <= Capacity
  BY CapacityAssumption
<1>3. QED
  BY <1>1, <1>2
  DEF WindowInit, RedisRestart, WindowTypeOK, WindowBounded, Occupancy

LEMMA UnchangedWindowSafe ==
    ASSUME UNCHANGED windowVars, WindowTypeOK
    PROVE  WindowTypeOK' /\ (WindowBounded => WindowBounded')
  BY DEF windowVars, WindowTypeOK, WindowBounded, Occupancy

----------------------------------------------------------------------------
(* Lists without duplicates.                                               *)

Distinct(list) == \A i, j \in DOMAIN list : list[i] = list[j] => i = j

(* A list has no more elements than positions, and as many exactly if it   *)
(* has no duplicates.                                                      *)
LEMMA ElementsCounted ==
    ASSUME NEW S, NEW list \in Seq(S)
    PROVE  /\ IsFiniteSet(Elements(list))
           /\ Elements(list) \subseteq S
           /\ Cardinality(Elements(list)) \in Nat
           /\ Cardinality(Elements(list)) <= Len(list)
           /\ Cardinality(Elements(list)) = Len(list) <=> Distinct(list)
<1>1. /\ Len(list) \in Nat /\ DOMAIN list = 1..Len(list)
      /\ list \in [1..Len(list) -> S]
  BY LenProperties
<1>2. /\ IsFiniteSet(1..Len(list)) /\ Cardinality(1..Len(list)) = Len(list)
  BY <1>1, FS_Interval
<1>3. list \in [1..Len(list) -> Elements(list)]
  BY <1>1 DEF Elements
<1>4. list \in Surjection(1..Len(list), Elements(list))
  BY <1>1, <1>3 DEF Surjection, Elements
<1>5. /\ IsFiniteSet(Elements(list))
      /\ Cardinality(Elements(list)) <= Len(list)
      /\ Cardinality(Elements(list)) = Len(list)
            <=> list \in Injection(1..Len(list), Elements(list))
  BY <1>2, <1>4, FS_Surjection
<1>6. list \in Injection(1..Len(list), Elements(list)) <=> Distinct(list)
  BY <1>1, <1>3 DEF Injection, IsInjective, Distinct
<1>7. Elements(list) \subseteq S
  BY <1>1 DEF Elements
<1> QED BY <1>5, <1>6, <1>7, FS_CardinalityType

(* What is left of such a list is one.                                     *)
LEMMA SublistDistinct ==
    ASSUME NEW S, NEW list \in Seq(S), Distinct(list), NEW keep \in SUBSET (DOMAIN list)
    PROVE  Distinct(Sublist(list, keep))
<1> DEFINE image == {list[i] : i \in keep}
           f == [i \in keep |-> list[i]]
<1>1. DOMAIN list = 1..Len(list) /\ Len(list) \in Nat
  BY LenProperties
<1>2. IsFiniteSet(keep)
  BY <1>1, RankStrict
<1>3. f \in Surjection(keep, image)
  BY DEF Surjection
<1>4. f \in Injection(keep, image)
  <2>1. f \in [keep -> image]
    OBVIOUS
  <2>2. \A i, j \in keep : f[i] = f[j] => i = j
    BY DEF Distinct
  <2> QED BY <2>1, <2>2, Fun_IsInj
<1> HIDE DEF f
<1>5. Cardinality(image) = Cardinality(keep)
  BY <1>2, <1>3, <1>4, FS_Surjection
<1>6. /\ Sublist(list, keep) \in Seq(S)
      /\ Len(Sublist(list, keep)) = Cardinality(keep)
      /\ Elements(Sublist(list, keep)) = image
  BY SublistProperties
<1> HIDE DEF image
<1> QED BY <1>5, <1>6, ElementsCounted

LEMMA LremDistinct ==
    ASSUME NEW S, NEW list \in Seq(S), Distinct(list), NEW ids
    PROVE  Distinct(Lrem(list, ids))
  BY SublistDistinct DEF Lrem

LEMMA ConcatDistinct ==
    ASSUME NEW S, NEW s \in Seq(S), NEW t \in Seq(S)
    PROVE  /\ Elements(s \o t) = Elements(s) \cup Elements(t)
           /\ Distinct(s) /\ Distinct(t) /\ Elements(s) \cap Elements(t) = {}
                => Distinct(s \o t)
<1>1. /\ Len(s) \in Nat /\ DOMAIN s = 1..Len(s)
      /\ Len(t) \in Nat /\ DOMAIN t = 1..Len(t)
  BY LenProperties
<1>2. /\ s \o t \in Seq(S)
      /\ Len(s \o t) = Len(s) + Len(t)
      /\ \A i \in 1..Len(s) + Len(t) :
            (s \o t)[i] = IF i <= Len(s) THEN s[i] ELSE t[i - Len(s)]
  BY ConcatProperties
<1>3. DOMAIN (s \o t) = 1..Len(s) + Len(t)
  BY <1>2, LenProperties
<1> DEFINE both == s \o t
<1> HIDE DEF both
<1>4. Elements(both) \subseteq Elements(s) \cup Elements(t)
  <2>1. ASSUME NEW i \in 1..Len(s) + Len(t) PROVE both[i] \in Elements(s) \cup Elements(t)
    <3>1. CASE i <= Len(s)
      <4>1. i \in DOMAIN s /\ both[i] = s[i] BY <1>1, <1>2, <3>1 DEF both
      <4> QED BY <4>1 DEF Elements
    <3>2. CASE ~ (i <= Len(s))
      <4>1. i - Len(s) \in DOMAIN t /\ both[i] = t[i - Len(s)] BY <1>1, <1>2, <3>2 DEF both
      <4> QED BY <4>1 DEF Elements
    <3> QED BY <3>1, <3>2
  <2> QED BY <1>3, <2>1 DEF Elements, both
<1>5. Elements(s) \subseteq Elements(both)
  <2>1. ASSUME NEW i \in DOMAIN s PROVE i \in DOMAIN both /\ both[i] = s[i]
    BY <1>1, <1>2, <1>3, <2>1 DEF both
  <2> QED BY <2>1 DEF Elements
<1>6. Elements(t) \subseteq Elements(both)
  <2>1. ASSUME NEW i \in DOMAIN t
        PROVE  i + Len(s) \in DOMAIN both /\ both[i + Len(s)] = t[i]
    BY <1>1, <1>2, <1>3, <2>1 DEF both
  <2> QED BY <2>1 DEF Elements
<1>7. Elements(both) = Elements(s) \cup Elements(t)
  BY <1>4, <1>5, <1>6
<1>8. ASSUME Distinct(s), Distinct(t), Elements(s) \cap Elements(t) = {}
      PROVE  Distinct(both)
  <2>1. /\ IsFiniteSet(Elements(s)) /\ Cardinality(Elements(s)) = Len(s)
        /\ IsFiniteSet(Elements(t)) /\ Cardinality(Elements(t)) = Len(t)
    BY <1>8, ElementsCounted
  <2>2. Cardinality(Elements(both)) = Len(s) + Len(t)
    <3>1. Cardinality(Elements(s) \cup Elements(t)) =
            Cardinality(Elements(s)) + Cardinality(Elements(t))
                - Cardinality(Elements(s) \cap Elements(t))
      BY <2>1, FS_Union
    <3>2. Cardinality(Elements(s) \cap Elements(t)) = 0
      BY <1>8, FS_EmptySet
    <3> QED BY <1>1, <1>7, <2>1, <3>1, <3>2
  <2> QED BY <1>2, <2>2, ElementsCounted DEF both
<1> QED BY <1>7, <1>8 DEF both

(* What ENQUEUE_LUA accepts: without duplicates if the batch has none, and *)
(* all that is new, or as many as there is room for.                       *)
LEMMA AcceptedExact ==
    ASSUME WindowTypeOK, NEW ids \in Seq(Deliveries), Distinct(ids)
    PROVE  /\ Distinct(Accepted(ids))
           /\ \/ Elements(Accepted(ids)) = Elements(ids) \ dedupe
              \/ Len(Accepted(ids)) = RoomBeside(Occupancy)
<1> DEFINE keep == {i \in DOMAIN ids : ids[i] \notin dedupe}
           fresh == Sublist(ids, keep)
           room == RoomBeside(Occupancy)
           count == IF Len(fresh) <= room THEN Len(fresh) ELSE room
<1>1. /\ fresh \in Seq(Deliveries)
      /\ Elements(fresh) = {ids[i] : i \in keep}
      /\ Distinct(fresh)
  BY SublistProperties, SublistDistinct
<1>2. Elements(fresh) = Elements(ids) \ dedupe
  BY <1>1 DEF Elements
<1>3. Accepted(ids) = SubSeq(fresh, 1, count)
  BY DEF Accepted, AcceptedInto
<1>4. room \in Nat
  <2>1. Occupancy \in Nat
    BY LenProperties DEF WindowTypeOK, Occupancy
  <2> QED BY <2>1, RoomBesideNat
<1> HIDE DEF fresh, room
<1>5. Len(fresh) \in Nat /\ DOMAIN fresh = 1..Len(fresh)
  BY <1>1, LenProperties
<1>6. count \in 0..Len(fresh)
  BY <1>4, <1>5
<1>7. \A i \in 1..count : fresh[i] \in Deliveries
  BY <1>1, <1>5, <1>6, ElementOfSeq
<1>8. /\ SubSeq(fresh, 1, count) \in Seq(Deliveries)
      /\ Len(SubSeq(fresh, 1, count)) = count
      /\ DOMAIN SubSeq(fresh, 1, count) = 1..count
      /\ \A i \in 1..count : SubSeq(fresh, 1, count)[i] = fresh[i]
  <2> HIDE DEF count
  <2>1. count \in Int BY <1>6
  <2>2. /\ SubSeq(fresh, 1, count) \in Seq(Deliveries)
        /\ Len(SubSeq(fresh, 1, count)) = count
        /\ \A i \in 1..count : SubSeq(fresh, 1, count)[i] = fresh[i]
    BY <1>6, <1>7, <2>1, SubSeqProperties
  <2> QED BY <2>2, LenProperties
<1> DEFINE taken == SubSeq(fresh, 1, count)
<1>9. Distinct(taken)
  <2> HIDE DEF count
  <2> QED BY <1>1, <1>5, <1>6, <1>8 DEF Distinct
<1>10. CASE Len(fresh) <= room
  <2>1. count = Len(fresh) BY <1>10
  <2>2. Elements(taken) = Elements(fresh)
    <3> HIDE DEF count
    <3> QED BY <1>5, <1>8, <2>1 DEF Elements
  <2> QED BY <1>2, <1>3, <1>9, <2>2
<1>11. CASE ~ (Len(fresh) <= room)
  <2>1. count = room BY <1>11
  <2>2. Len(taken) = room BY <1>8, <2>1
  <2> QED BY <1>3, <1>9, <2>2 DEF room
<1> QED BY <1>10, <1>11

----------------------------------------------------------------------------
(* The invariant of the window: no ID is in two places, and the guard set  *)
(* holds those that are in one.                                            *)

ExactInv ==
    /\ Distinct(ready)
    /\ Distinct(inFlight)
    /\ Elements(ready) \cap Elements(inFlight) = {}
    /\ dedupe = Resident

WindowInv == WindowTypeOK /\ WindowBounded /\ ExactInv

LEMMA ExactIsExact ==
    ASSUME WindowTypeOK, ExactInv
    PROVE  /\ DedupeExact
           /\ IsFiniteSet(Elements(ready)) /\ Cardinality(Elements(ready)) = Len(ready)
           /\ IsFiniteSet(Elements(inFlight))
           /\ Cardinality(Elements(inFlight)) = Len(inFlight)
<1>1. /\ IsFiniteSet(Elements(ready)) /\ Cardinality(Elements(ready)) = Len(ready)
      /\ IsFiniteSet(Elements(inFlight)) /\ Cardinality(Elements(inFlight)) = Len(inFlight)
      /\ Len(ready) \in Nat /\ Len(inFlight) \in Nat
  BY ElementsCounted, LenProperties DEF WindowTypeOK, ExactInv
<1>2. Cardinality(Elements(ready) \cap Elements(inFlight)) = 0
  BY FS_EmptySet DEF ExactInv
<1>3. Cardinality(Elements(ready) \cup Elements(inFlight)) =
        Cardinality(Elements(ready)) + Cardinality(Elements(inFlight))
            - Cardinality(Elements(ready) \cap Elements(inFlight))
  BY <1>1, FS_Union
<1>4. Cardinality(Resident) = Occupancy
  BY <1>1, <1>2, <1>3 DEF Resident, Occupancy
<1> QED BY <1>1, <1>4 DEF DedupeExact, ExactInv

LEMMA EnqueueExact ==
    ASSUME WindowInv, NEW ids \in Seq(Deliveries), Distinct(ids), Enqueue(ids)
    PROVE  /\ WindowInv'
           /\ Resident' = Resident \cup Elements(Accepted(ids))
           /\ Elements(ready') = Elements(ready) \cup Elements(Accepted(ids))
           /\ Elements(inFlight') = Elements(inFlight)
<1>1. WindowTypeOK /\ WindowBounded /\ ExactInv
  BY DEF WindowInv
<1>2. WindowTypeOK' /\ WindowBounded'
  BY <1>1, EnqueueSafe
<1>3. /\ Accepted(ids) \in Seq(Deliveries)
      /\ Elements(Accepted(ids)) \subseteq Elements(ids) \ dedupe
      /\ Distinct(Accepted(ids))
  BY <1>1, AcceptedProperties, AcceptedExact
<1>4. /\ ready' = ready \o Accepted(ids)
      /\ dedupe' = dedupe \cup Elements(Accepted(ids))
      /\ inFlight' = inFlight
  BY DEF Enqueue
<1>5. Elements(ready) \cap Elements(Accepted(ids)) = {}
  BY <1>1, <1>3 DEF ExactInv, Resident
<1>6. ready \in Seq(Deliveries)
  BY <1>1 DEF WindowTypeOK
<1>7. Elements(ready') = Elements(ready) \cup Elements(Accepted(ids)) /\ Distinct(ready')
  BY <1>1, <1>3, <1>4, <1>5, <1>6, ConcatDistinct DEF ExactInv
<1>8. Resident' = Resident \cup Elements(Accepted(ids))
  BY <1>4, <1>7 DEF Resident
<1>9. ExactInv'
  BY <1>1, <1>3, <1>4, <1>7, <1>8 DEF ExactInv, Resident
<1> QED BY <1>2, <1>4, <1>7, <1>8, <1>9 DEF WindowInv

(* BLMOVE: what was ready still is, but for the ID that is in flight now.  *)
LEMMA ClaimMoves ==
    ASSUME WindowTypeOK, NEW d, Claim(d)
    PROVE  /\ Elements(ready) \subseteq Elements(ready') \cup {d}
           /\ Elements(inFlight') = Elements(inFlight) \cup {d}
<1>1. /\ ready \in Seq(Deliveries) /\ ready # <<>> /\ d = Head(ready) /\ ready' = Tail(ready)
      /\ inFlight \in Seq(Deliveries) /\ inFlight' = Append(inFlight, d) /\ d \in Deliveries
  BY ClaimSafe DEF Claim, WindowTypeOK
<1>2. Elements(ready) \subseteq Elements(ready') \cup {d}
  <2>1. /\ Len(ready) \in Nat \ {0} /\ DOMAIN ready = 1..Len(ready)
        /\ d = ready[1]
    BY <1>1, EmptySeq, LenProperties
  <2>2. /\ DOMAIN ready' = 1..Len(ready) - 1
        /\ \A i \in 1..Len(ready) - 1 : ready'[i] = ready[i + 1]
    BY <1>1, HeadTailProperties, LenProperties
  <2>3. ASSUME NEW i \in DOMAIN ready, ready[i] # d
        PROVE  ready[i] \in Elements(ready')
    <3>1. i - 1 \in 1..Len(ready) - 1 /\ (i - 1) + 1 = i
      BY <2>1, <2>3
    <3> QED BY <2>2, <3>1 DEF Elements
  <2> QED BY <2>3 DEF Elements
<1>3. /\ Len(inFlight) \in Nat /\ DOMAIN inFlight = 1..Len(inFlight)
      /\ DOMAIN inFlight' = 1..Len(inFlight) + 1
      /\ \A i \in 1..Len(inFlight) : inFlight'[i] = inFlight[i]
      /\ inFlight'[Len(inFlight) + 1] = d
  <2>1. /\ inFlight' \in Seq(Deliveries) /\ Len(inFlight') = Len(inFlight) + 1
        /\ \A i \in 1..Len(inFlight) : inFlight'[i] = inFlight[i]
        /\ inFlight'[Len(inFlight) + 1] = d
    BY <1>1, AppendProperties
  <2> QED BY <1>1, <2>1, LenProperties
<1>4. Elements(inFlight') = Elements(inFlight) \cup {d}
  <2>1. \A i \in 1..Len(inFlight) + 1 : i = Len(inFlight) + 1 \/ i \in 1..Len(inFlight)
    BY <1>3
  <2>2. Len(inFlight) + 1 \in DOMAIN inFlight' /\ DOMAIN inFlight \subseteq DOMAIN inFlight'
    BY <1>3
  <2> QED BY <1>3, <2>1, <2>2 DEF Elements
<1> QED BY <1>2, <1>4

LEMMA ClaimExact ==
    ASSUME WindowInv, NEW d, Claim(d)
    PROVE  /\ WindowInv'
           /\ Resident' = Resident
           /\ d \in Elements(ready)
           /\ Elements(ready') = Elements(ready) \ {d}
           /\ Elements(inFlight') = Elements(inFlight) \cup {d}
<1>1. WindowTypeOK /\ WindowBounded /\ ExactInv
  BY DEF WindowInv
<1>2. d \in Deliveries /\ WindowTypeOK' /\ WindowBounded'
  BY <1>1, ClaimSafe
<1>3. /\ ready \in Seq(Deliveries) /\ ready # <<>> /\ d = Head(ready) /\ ready' = Tail(ready)
      /\ inFlight \in Seq(Deliveries) /\ inFlight' = Append(inFlight, d) /\ dedupe' = dedupe
  BY <1>1 DEF Claim, WindowTypeOK
<1>4. /\ Len(ready) \in Nat \ {0} /\ DOMAIN ready = 1..Len(ready)
      /\ ready' \in Seq(Deliveries) /\ Len(ready') = Len(ready) - 1
      /\ DOMAIN ready' = 1..Len(ready) - 1
      /\ \A i \in 1..Len(ready) - 1 : ready'[i] = ready[i + 1]
      /\ d = ready[1]
  <2>1. Len(ready) \in Nat \ {0} /\ DOMAIN ready = 1..Len(ready)
    BY <1>3, EmptySeq, LenProperties
  <2>2. /\ ready' \in Seq(Deliveries) /\ Len(ready') = Len(ready) - 1
        /\ \A i \in 1..Len(ready) - 1 : ready'[i] = ready[i + 1]
    BY <1>3, HeadTailProperties
  <2>3. DOMAIN ready' = 1..Len(ready) - 1
    BY <2>2, LenProperties
  <2>4. d = ready[1]
    BY <1>3
  <2> QED BY <2>1, <2>2, <2>3, <2>4
<1>5. Distinct(ready') /\ Elements(ready') = Elements(ready) \ {d} /\ d \in Elements(ready)
  <2>1. Distinct(ready) BY <1>1 DEF ExactInv
  <2>2. Distinct(ready')
    <3> SUFFICES ASSUME NEW i \in 1..Len(ready) - 1, NEW j \in 1..Len(ready) - 1,
                        ready'[i] = ready'[j]
                 PROVE  i = j
      BY <1>4 DEF Distinct
    <3>1. i + 1 \in DOMAIN ready /\ j + 1 \in DOMAIN ready /\ ready[i + 1] = ready[j + 1]
      BY <1>4
    <3>2. i + 1 = j + 1
      BY <2>1, <3>1 DEF Distinct
    <3> QED BY <3>2
  <2>3. d \in Elements(ready)
    <3>1. 1 \in DOMAIN ready BY <1>4
    <3> QED BY <1>4, <3>1 DEF Elements
  <2>4. ASSUME NEW i \in 1..Len(ready) - 1 PROVE ready'[i] \in Elements(ready) \ {d}
    <3>1. i + 1 \in DOMAIN ready /\ 1 \in DOMAIN ready /\ i + 1 # 1 /\ ready'[i] = ready[i + 1]
      BY <1>4
    <3>2. ready[i + 1] # ready[1]
      BY <2>1, <3>1 DEF Distinct
    <3> QED BY <1>4, <3>1, <3>2 DEF Elements
  <2>5. ASSUME NEW i \in DOMAIN ready, ready[i] # d PROVE ready[i] \in Elements(ready')
    <3>1. i - 1 \in 1..Len(ready) - 1 /\ (i - 1) + 1 = i
      BY <1>4, <2>5
    <3>2. ready'[i - 1] = ready[i]
      BY <1>4, <3>1
    <3> QED BY <1>4, <3>1, <3>2 DEF Elements
  <2>6. Elements(ready') = Elements(ready) \ {d}
    BY <1>4, <2>4, <2>5 DEF Elements
  <2> QED BY <2>2, <2>3, <2>6
<1>6. /\ Len(inFlight) \in Nat /\ DOMAIN inFlight = 1..Len(inFlight)
      /\ inFlight' \in Seq(Deliveries)
      /\ DOMAIN inFlight' = 1..Len(inFlight) + 1
      /\ \A i \in 1..Len(inFlight) : inFlight'[i] = inFlight[i]
      /\ inFlight'[Len(inFlight) + 1] = d
  <2>1. /\ inFlight' \in Seq(Deliveries) /\ Len(inFlight') = Len(inFlight) + 1
        /\ \A i \in 1..Len(inFlight) : inFlight'[i] = inFlight[i]
        /\ inFlight'[Len(inFlight) + 1] = d
    BY <1>2, <1>3, AppendProperties
  <2> QED BY <1>3, <2>1, LenProperties
<1>7. Elements(inFlight') = Elements(inFlight) \cup {d}
  BY <1>1, ClaimMoves
<1>8. d \notin Elements(inFlight)
  BY <1>1, <1>5 DEF ExactInv
<1>9. Distinct(inFlight')
  <2>1. Distinct(inFlight) BY <1>1 DEF ExactInv
  <2>2. \A i \in 1..Len(inFlight) : inFlight[i] # d
    BY <1>6, <1>8 DEF Elements
  <2>3. \A i \in 1..Len(inFlight) + 1 : i = Len(inFlight) + 1 \/ i \in 1..Len(inFlight)
    BY <1>6
  <2> QED BY <1>6, <2>1, <2>2, <2>3 DEF Distinct
<1>10. Resident' = Resident
  BY <1>5, <1>7 DEF Resident
<1>11. ExactInv'
  BY <1>1, <1>3, <1>5, <1>7, <1>8, <1>9, <1>10 DEF ExactInv
<1> QED BY <1>2, <1>5, <1>7, <1>10, <1>11 DEF WindowInv

LEMMA ReleaseExact ==
    ASSUME WindowInv, NEW ids, ids \cap Elements(ready) = {}, Release(ids)
    PROVE  /\ WindowInv'
           /\ Resident' = Resident \ ids
           /\ Elements(inFlight') = Elements(inFlight) \ ids
<1>1. WindowTypeOK /\ WindowBounded /\ ExactInv
  BY DEF WindowInv
<1>2. WindowTypeOK' /\ WindowBounded'
  BY <1>1, ReleaseSafe
<1>3. inFlight \in Seq(Deliveries) /\ Distinct(inFlight)
  BY <1>1 DEF WindowTypeOK, ExactInv
<1>4. inFlight' = Lrem(inFlight, ids) /\ dedupe' = dedupe \ ids /\ ready' = ready
  BY DEF Release
<1>5. Elements(inFlight') = Elements(inFlight) \ ids /\ Distinct(inFlight')
  BY <1>3, <1>4, LremProperties, LremDistinct
<1>6. Resident' = Resident \ ids
  BY <1>1, <1>4, <1>5 DEF Resident, ExactInv
<1>7. ExactInv'
  BY <1>1, <1>4, <1>5, <1>6 DEF ExactInv
<1> QED BY <1>2, <1>5, <1>6, <1>7 DEF WindowInv

LEMMA EmptyExact ==
    /\ WindowInit => WindowInv
    /\ RedisRestart => WindowInv' /\ Resident' = {}
<1>1. Distinct(<<>>) /\ Elements(<<>>) = {}
  BY DEF Distinct, Elements
<1> QED
  BY <1>1, EmptyWindowSafe
  DEF WindowInit, RedisRestart, WindowInv, ExactInv, Resident

=============================================================================

------------------------- MODULE WindowClientsProofs -------------------------
(***************************************************************************)
(* Theorems about the execution window under arbitrary clients, for any    *)
(* set of IDs and any capacity: the guard set is exact, a torn reading of  *)
(* occupancy() covers what stayed, and the window implements a bounded     *)
(* pool.                                                                   *)
(***************************************************************************)
EXTENDS WindowClients, WindowTheorems

----------------------------------------------------------------------------
(* The batches of the clients.                                             *)

LEMMA OrderingsAreLists ==
    ASSUME NEW set \in SUBSET Deliveries, NEW ids \in Orderings(set)
    PROVE  ids \in Seq(Deliveries) /\ Distinct(ids) /\ Elements(ids) \subseteq Deliveries
<1>1. Cardinality(set) \in Nat
  BY DeliveriesAssumption, FS_Subset, FS_CardinalityType
<1>2. ids \in [1..Cardinality(set) -> set] /\ Distinct(ids)
  BY DEF Orderings, Distinct
<1>3. ids \in Seq(Deliveries)
  BY <1>1, <1>2
<1> QED BY <1>2, <1>3, ElementsCounted

(* One step of a client: a batch is offered, jobs leave, or nothing is     *)
(* seen from outside.                                                      *)
LEMMA ClientStepExact ==
    ASSUME WindowInv, ClientStep
    PROVE  /\ WindowInv'
           /\ \/ \E ids \in Seq(Deliveries) :
                    /\ Distinct(ids) /\ Enqueue(ids)
                    /\ Resident' = Resident \cup Elements(Accepted(ids))
                    /\ Elements(inFlight') = Elements(inFlight)
              \/ Resident' = Resident /\ Elements(inFlight) \subseteq Elements(inFlight')
              \/ \E ids \in SUBSET Deliveries :
                    /\ Resident' = Resident \ ids
                    /\ Elements(inFlight) \ ids \subseteq Elements(inFlight')
<1>1. CASE Offer
  <2>1. PICK set \in SUBSET Deliveries : \E ids \in Orderings(set) : Enqueue(ids)
    BY <1>1 DEF Offer
  <2>2. PICK ids \in Orderings(set) : Enqueue(ids)
    BY <2>1
  <2>3. ids \in Seq(Deliveries) /\ Distinct(ids)
    BY OrderingsAreLists
  <2> QED BY <2>2, <2>3, EnqueueExact
<1>2. CASE Take
  BY <1>2, ClaimExact DEF Take
<1>3. ASSUME NEW ids, ids \subseteq Elements(inFlight), Release(ids)
      PROVE  /\ WindowInv'
             /\ \E gone \in SUBSET Deliveries :
                    /\ Resident' = Resident \ gone
                    /\ Elements(inFlight) \ gone \subseteq Elements(inFlight')
  <2>1. Elements(inFlight) \subseteq Deliveries
    BY ElementsCounted DEF WindowInv, WindowTypeOK
  <2>2. ids \cap Elements(ready) = {}
    BY <1>3 DEF WindowInv, ExactInv
  <2>3. /\ WindowInv'
        /\ Resident' = Resident \ ids
        /\ Elements(inFlight') = Elements(inFlight) \ ids
    BY <1>3, <2>2, ReleaseExact
  <2>4. ids \in SUBSET Deliveries
    BY <1>3, <2>1
  <2> QED BY <2>3, <2>4
<1>4. CASE Finish
  <2>1. PICK d \in Elements(inFlight) : Complete(d)
    BY <1>4 DEF Finish
  <2>2. Release({d})
    BY <2>1 DEF Complete, Release
  <2>3. {d} \subseteq Elements(inFlight)
    BY <2>1
  <2> QED BY <1>3, <2>2, <2>3
<1>5. CASE Reap
  BY <1>3, <1>5 DEF Reap
<1>6. CASE RedisRestart
  <2>1. Resident \subseteq Deliveries
    BY ElementsCounted DEF WindowInv, WindowTypeOK, Resident
  <2>2. Resident' = Resident \ Resident /\ Elements(inFlight) \ Resident = {}
    BY <1>6, EmptyExact DEF Resident
  <2> QED BY <1>6, <2>1, <2>2, EmptyExact
<1> QED BY <1>1, <1>2, <1>4, <1>5, <1>6 DEF ClientStep

----------------------------------------------------------------------------
(* The caller of occupancy().  Between its two reads, what stays and is    *)
(* not in flight has been counted by the first: a job leaves the in-flight *)
(* list only with its slot.                                                *)

HalfCounted ==
    phase = "half" =>
        /\ stayed \subseteq Resident
        /\ Cardinality(stayed \ Elements(inFlight)) <= firstLen

ClientsInv ==
    /\ WindowInv
    /\ TypeOK
    /\ HalfCounted
    /\ ReadingCoversResidents

(* Parts of what stayed are finite.                                        *)
LEMMA Counted ==
    ASSUME NEW T \in SUBSET Deliveries, NEW R \in SUBSET T
    PROVE  /\ IsFiniteSet(R) /\ IsFiniteSet(T)
           /\ Cardinality(R) \in Nat /\ Cardinality(T) \in Nat
           /\ Cardinality(R) <= Cardinality(T)
<1>1. IsFiniteSet(T)
  BY DeliveriesAssumption, FS_Subset
<1> QED BY <1>1, FS_Subset, FS_CardinalityType

LEMMA ClientStepKeeps ==
    ASSUME ClientsInv, ClientStep
    PROVE  ClientsInv'
<1>1. WindowInv /\ TypeOK /\ HalfCounted /\ ReadingCoversResidents
  BY DEF ClientsInv
<1>2. /\ stayed' = stayed \cap Resident'
      /\ phase' = phase /\ firstLen' = firstLen /\ secondLen' = secondLen
  BY DEF ClientStep, probeVars, Resident
<1>3. WindowInv'
  BY <1>1, ClientStepExact
<1>4. TypeOK'
  BY <1>1, <1>2, <1>3 DEF TypeOK, WindowInv
<1>5. stayed \in SUBSET Deliveries /\ firstLen \in Nat /\ secondLen \in Nat
  BY <1>1 DEF TypeOK
<1>6. ReadingCoversResidents'
  <2>1. stayed' \in SUBSET stayed
    BY <1>2
  <2>2. /\ Cardinality(stayed') \in Nat /\ Cardinality(stayed) \in Nat
        /\ Cardinality(stayed') <= Cardinality(stayed)
    BY <1>5, <2>1, Counted
  <2> QED BY <1>1, <1>2, <1>5, <2>2 DEF ReadingCoversResidents
<1>7. HalfCounted'
  <2> SUFFICES ASSUME phase = "half"
               PROVE  /\ stayed' \subseteq Resident'
                      /\ Cardinality(stayed' \ Elements(inFlight')) <= firstLen
    BY <1>2 DEF HalfCounted
  <2>1. stayed \subseteq Resident /\ Cardinality(stayed \ Elements(inFlight)) <= firstLen
    BY <1>1 DEF HalfCounted
  <2>2. Elements(inFlight) \cap Resident' \subseteq Elements(inFlight')
    BY <1>1, ClientStepExact
  <2>3. stayed' \ Elements(inFlight') \in SUBSET (stayed \ Elements(inFlight))
    BY <1>2, <2>2
  <2>4. stayed \ Elements(inFlight) \in SUBSET Deliveries
    BY <1>5
  <2>5. /\ Cardinality(stayed' \ Elements(inFlight')) \in Nat
        /\ Cardinality(stayed \ Elements(inFlight)) \in Nat
        /\ Cardinality(stayed' \ Elements(inFlight')) <= Cardinality(stayed \ Elements(inFlight))
    BY <2>3, <2>4, Counted
  <2> QED BY <1>2, <1>5, <2>1, <2>5
<1> QED BY <1>3, <1>4, <1>6, <1>7 DEF ClientsInv

LEMMA FirstLlenKeeps ==
    ASSUME ClientsInv, FirstLlen
    PROVE  ClientsInv'
<1>1. WindowInv /\ TypeOK
  BY DEF ClientsInv
<1>2. /\ phase' = "half" /\ firstLen' = Len(ready) /\ stayed' = Resident
      /\ ready' = ready /\ inFlight' = inFlight /\ dedupe' = dedupe /\ secondLen' = secondLen
  BY DEF FirstLlen, Llen, windowVars
<1>3. WindowInv'
  BY <1>1, <1>2
  DEF WindowInv, WindowTypeOK, WindowBounded, Occupancy, ExactInv, Resident, Distinct, Elements
<1>4. /\ ready \in Seq(Deliveries) /\ Len(ready) \in Nat /\ Elements(ready) \in SUBSET Deliveries
      /\ Cardinality(Elements(ready)) <= Len(ready)
      /\ Elements(inFlight) \subseteq Deliveries
  BY <1>1, ElementsCounted, LenProperties DEF WindowInv, WindowTypeOK
<1>5. TypeOK'
  BY <1>1, <1>2, <1>3, <1>4 DEF TypeOK, WindowInv, Resident
<1>6. HalfCounted'
  <2>1. stayed' \ Elements(inFlight') \in SUBSET Elements(ready)
    BY <1>2 DEF Resident
  <2>2. /\ Cardinality(stayed' \ Elements(inFlight')) \in Nat
        /\ Cardinality(Elements(ready)) \in Nat
        /\ Cardinality(stayed' \ Elements(inFlight')) <= Cardinality(Elements(ready))
    BY <1>4, <2>1, Counted
  <2>3. stayed' \subseteq Resident'
    BY <1>2 DEF Resident
  <2> QED BY <1>2, <1>4, <2>2, <2>3 DEF HalfCounted
<1>7. ReadingCoversResidents'
  BY <1>2 DEF ReadingCoversResidents
<1> QED BY <1>3, <1>5, <1>6, <1>7 DEF ClientsInv

LEMMA SecondLlenKeeps ==
    ASSUME ClientsInv, SecondLlen
    PROVE  ClientsInv'
<1>1. WindowInv /\ TypeOK /\ HalfCounted
  BY DEF ClientsInv
<1>2. /\ phase = "half" /\ phase' = "done" /\ secondLen' = Len(inFlight)
      /\ stayed' = stayed /\ firstLen' = firstLen
      /\ ready' = ready /\ inFlight' = inFlight /\ dedupe' = dedupe
  BY DEF SecondLlen, Llen, windowVars
<1>3. WindowInv'
  BY <1>1, <1>2
  DEF WindowInv, WindowTypeOK, WindowBounded, Occupancy, ExactInv, Resident, Distinct, Elements
<1>4. /\ Len(inFlight) \in Nat /\ Elements(inFlight) \in SUBSET Deliveries
      /\ Cardinality(Elements(inFlight)) <= Len(inFlight)
  BY <1>1, ElementsCounted, LenProperties DEF WindowInv, WindowTypeOK
<1>5. TypeOK'
  BY <1>1, <1>2, <1>3, <1>4 DEF TypeOK, WindowInv
<1>6. ReadingCoversResidents'
  <2> DEFINE moved == stayed \cap Elements(inFlight)
             rest == stayed \ Elements(inFlight)
  <2>1. firstLen \in Nat /\ stayed \in SUBSET Deliveries /\ Cardinality(rest) <= firstLen
    BY <1>1, <1>2 DEF TypeOK, HalfCounted
  <2>2. /\ IsFiniteSet(moved) /\ Cardinality(moved) \in Nat
        /\ Cardinality(Elements(inFlight)) \in Nat
        /\ Cardinality(moved) <= Cardinality(Elements(inFlight))
    <3>1. moved \in SUBSET Elements(inFlight) OBVIOUS
    <3> QED BY <1>4, <3>1, Counted
  <2>3. IsFiniteSet(rest) /\ Cardinality(rest) \in Nat
    <3>1. rest \in SUBSET stayed OBVIOUS
    <3> QED BY <2>1, <3>1, Counted
  <2>4. moved \cup rest = stayed /\ moved \cap rest = {}
    OBVIOUS
  <2> HIDE DEF moved, rest
  <2>5. Cardinality(moved \cup rest) =
            Cardinality(moved) + Cardinality(rest) - Cardinality(moved \cap rest)
    BY <2>2, <2>3, FS_Union
  <2>6. Cardinality(moved \cap rest) = 0
    BY <2>4, FS_EmptySet
  <2>7. Cardinality(stayed) = Cardinality(moved) + Cardinality(rest)
    <3>1. Cardinality(moved \cup rest) = Cardinality(moved) + Cardinality(rest)
      BY <2>2, <2>3, <2>5, <2>6
    <3> QED BY <2>4, <3>1
  <2>8. /\ Cardinality(moved) <= Len(inFlight) /\ Len(inFlight) \in Nat
    BY <1>4, <2>2
  <2>9. Cardinality(stayed) <= firstLen + Len(inFlight)
    BY <2>1, <2>2, <2>3, <2>7, <2>8
  <2> QED BY <1>2, <2>9 DEF ReadingCoversResidents
<1>7. HalfCounted'
  BY <1>2 DEF HalfCounted
<1> QED BY <1>3, <1>5, <1>6, <1>7 DEF ClientsInv

LEMMA ClientsInvHolds == Spec => []ClientsInv
<1>1. Init => ClientsInv
  BY EmptyExact
  DEF Init, ClientsInv, TypeOK, HalfCounted, ReadingCoversResidents, WindowInv
<1>2. ClientsInv /\ [Next]_vars => ClientsInv'
  <2> SUFFICES ASSUME ClientsInv, [Next]_vars PROVE ClientsInv'
    OBVIOUS
  <2>1. CASE ClientStep BY <2>1, ClientStepKeeps
  <2>2. CASE FirstLlen BY <2>2, FirstLlenKeeps
  <2>3. CASE SecondLlen BY <2>3, SecondLlenKeeps
  <2>4. CASE Forget
    <3>1. WindowInv'
      BY <2>4
      DEF Forget, windowVars, ClientsInv, WindowInv, WindowTypeOK, WindowBounded, Occupancy,
          ExactInv, Resident, Distinct, Elements
    <3> QED
      BY <2>4, <3>1
      DEF Forget, ClientsInv, TypeOK, HalfCounted, ReadingCoversResidents, WindowInv
  <2>5. CASE UNCHANGED vars
    <3>1. WindowInv'
      BY <2>5
      DEF vars, windowVars, ClientsInv, WindowInv, WindowTypeOK, WindowBounded, Occupancy,
          ExactInv, Resident, Distinct, Elements
    <3> QED
      BY <2>5, <3>1
      DEF vars, windowVars, probeVars, ClientsInv, TypeOK, HalfCounted, ReadingCoversResidents,
          WindowInv, Resident, Elements
  <2> QED BY <2>1, <2>2, <2>3, <2>4, <2>5 DEF Next
<1> QED BY <1>1, <1>2, PTL DEF Spec

----------------------------------------------------------------------------

(* Types and ExactInv imply DedupeExact, in both states of a step.         *)
LEMMA ExactMeansExact == WindowInv' => DedupeExact'
<1>1. WindowInv => DedupeExact
  BY ExactIsExact DEF WindowInv
<1> QED BY <1>1, PTL

(* Lists, guard set and reading keep their types.                          *)
THEOREM TypeCorrect == Spec => []TypeOK
<1>1. ClientsInv => TypeOK BY DEF ClientsInv
<1> QED BY <1>1, ClientsInvHolds, PTL

(* The guard set holds what the lists hold, and no ID has two slots.       *)
THEOREM GuardIsExact == Spec => []DedupeExact
<1>1. ClientsInv => DedupeExact
  BY ExactIsExact DEF ClientsInv, WindowInv
<1> QED BY <1>1, ClientsInvHolds, PTL

(* The two replies of occupancy() cover every job that stayed.             *)
THEOREM ReadingCovers == Spec => []ReadingCoversResidents
<1>1. ClientsInv => ReadingCoversResidents BY DEF ClientsInv
<1> QED BY <1>1, ClientsInvHolds, PTL

(* The window implements a bounded pool: an offer is cut short only by a   *)
(* full window.                                                            *)
THEOREM PoolImplemented == Spec => ImplementsPool
<1>1. Init => Pool!Init
  BY EmptyExact DEF Init, Pool!Init, WindowInit, Resident, Elements
<1>2. ClientsInv /\ [Next]_vars => [Pool!Next]_Resident
  <2> SUFFICES ASSUME ClientsInv, ClientStep PROVE [Pool!Next]_Resident
    BY DEF Next, vars, FirstLlen, SecondLlen, Forget, windowVars, Resident, Elements
  <2>1. WindowInv /\ WindowInv'
    BY ClientStepExact DEF ClientsInv
  <2>2. ASSUME NEW ids \in Seq(Deliveries), Distinct(ids), Enqueue(ids),
               Resident' = Resident \cup Elements(Accepted(ids))
        PROVE  Pool!Next
    <3>1. /\ WindowTypeOK /\ WindowBounded /\ dedupe = Resident
          /\ WindowTypeOK' /\ WindowBounded'
      BY <2>1 DEF WindowInv, ExactInv
    <3>2. Elements(ids) \in SUBSET Deliveries
      BY ElementsCounted
    <3>3. /\ Accepted(ids) \in Seq(Deliveries)
          /\ Elements(Accepted(ids)) \in SUBSET (Elements(ids) \ Resident)
          /\ \/ Elements(Accepted(ids)) = Elements(ids) \ Resident
             \/ Len(Accepted(ids)) = RoomBeside(Occupancy)
      BY <2>2, <3>1, AcceptedProperties, AcceptedExact
    <3>4. Cardinality(Resident') = Occupancy'
      BY <2>1, ExactMeansExact DEF DedupeExact
    <3>5. Cardinality(Resident') <= Capacity
      BY <3>1, <3>4 DEF WindowBounded
    <3>6. Len(Accepted(ids)) = RoomBeside(Occupancy) => Occupancy' = Capacity
      <4>1. Len(ready') = Len(ready) + Len(Accepted(ids)) /\ inFlight' = inFlight
        BY <2>2, <3>1, <3>3, ConcatProperties DEF Enqueue, WindowTypeOK
      <4>2. Len(ready) \in Nat /\ Len(inFlight) \in Nat
        BY <3>1, LenProperties DEF WindowTypeOK
      <4> QED
        BY <3>1, <4>1, <4>2, CapacityAssumption DEF WindowBounded, Occupancy, RoomBeside
    <3>7. Pool!Cardinality(Resident') = Cardinality(Resident')
      BY DEF Pool!Cardinality, Pool!IsFiniteSet, Cardinality, IsFiniteSet
    <3>8. Pool!Admit(Elements(ids))
      BY <2>2, <3>3, <3>4, <3>5, <3>6, <3>7 DEF Pool!Admit
    <3> QED BY <3>2, <3>8 DEF Pool!Next
  <2>3. ASSUME NEW ids \in SUBSET Deliveries, Resident' = Resident \ ids
        PROVE  Pool!Next
    <3>1. Resident \subseteq Deliveries
      BY <2>1, ElementsCounted DEF WindowInv, WindowTypeOK, Resident
    <3>2. Pool!Free(ids \cap Resident)
      BY <2>3 DEF Pool!Free
    <3> QED BY <3>1, <3>2 DEF Pool!Next
  <2> QED BY <2>1, <2>2, <2>3, ClientStepExact
<1> QED BY <1>1, <1>2, ClientsInvHolds, PTL DEF Spec, ImplementsPool, Pool!Spec

============================================================================

----------------------------- MODULE RollupsProofs -----------------------------
(***************************************************************************)
(* Theorems about Rollups for any number of updates, days and entities.    *)
(***************************************************************************)
EXTENDS Rollups, FiniteSetTheorems, TLAPS

\* An update is not aggregated before it is completed, nor recorded as such.
NotYetAggregated ==
  /\ phase \in {"measure", "complete"} =>
       last \notin completed /\ \A r \in Rollup : lastAggregated[r] < last
  /\ phase # "idle" => last \in Update

\* Between its two writes a rollup has taken in every completed update.
SavingCounted ==
  phase = "save" => \A u \in completed : counted[Rollups[current]][u] >= 1

NoneLeftOutInv == TypeOK /\ NotYetAggregated /\ NoneLeftOut /\ SavingCounted

\* Each of them exactly once, if that rollup was never interrupted.
SavingCountedOnce ==
  phase = "save" /\ Rollups[current] \notin interrupted => \A u \in Update :
    counted[Rollups[current]][u] = IF u \in completed THEN 1 ELSE 0

CountedOnceInv == TypeOK /\ NotYetAggregated /\ CountedOnce /\ SavingCountedOnce
-----------------------------------------------------------------------------
LEMMA RollupNames == \A i \in 1..4 : Rollups[i] \in Rollup
  BY DEF Rollup

LEMMA UpdateFacts ==
  ASSUME TypeOK
  PROVE  /\ completed \subseteq Update /\ IsFiniteSet(completed)
         /\ last \in Nat /\ last <= MaxUpdate /\ MaxUpdate \in Nat
  <1>1. last \in Nat /\ last <= MaxUpdate /\ MaxUpdate \in Nat /\ completed \subseteq 1..last
    BY RollupsAssumption DEF TypeOK
  <1>2. IsFiniteSet(1..last)
    BY <1>1, FS_Interval
  <1>3. IsFiniteSet(completed)
    BY <1>1, <1>2, FS_Subset
  <1>4. completed \subseteq Update
    BY <1>1 DEF Update
  <1>5. QED
    BY <1>1, <1>3, <1>4

LEMMA CrawlsType ==
  ASSUME TypeOK, NEW r, NEW d
  PROVE  CrawlsOfDay(r, d) \in Nat
  BY UpdateFacts, FS_Subset, FS_CardinalityType DEF CrawlsOfDay

LEMMA InitInv == Init => NoneLeftOutInv /\ CountedOnceInv
  BY RollupsAssumption DEF Init, NoneLeftOutInv, CountedOnceInv, TypeOK, NotYetAggregated,
     NoneLeftOut, SavingCounted, CountedOnce, SavingCountedOnce, Update, Day

\* The effect of the additive statement on the counts.
LEMMA AggregateEffect ==
  ASSUME TypeOK, AggregateMeasurements
  PROVE  /\ counted' \in [Rollup -> [Update -> Nat]]
         /\ \A r \in Rollup : r # Rollups[current] => counted'[r] = counted[r]
         /\ \A u \in Update : counted'[Rollups[current]][u] =
              counted[Rollups[current]][u] + (IF u \in Aggregated(Rollups[current]) THEN 1 ELSE 0)
  <1> DEFINE r == Rollups[current]
  <1>1. r \in Rollup
    BY RollupNames DEF TypeOK
  <1>2. counted' = [counted EXCEPT ![r] =
          [u \in Update |-> counted[r][u] + IF u \in Aggregated(r) THEN 1 ELSE 0]]
    BY <1>1 DEF AggregateMeasurements, Added, TypeOK
  <1>3. [u \in Update |-> counted[r][u] + IF u \in Aggregated(r) THEN 1 ELSE 0] \in [Update -> Nat]
    BY <1>1 DEF TypeOK
  <1> HIDE DEF r
  <1>4. counted'[r] = [u \in Update |-> counted[r][u] + IF u \in Aggregated(r) THEN 1 ELSE 0]
    BY <1>1, <1>2 DEF TypeOK
  <1>5. counted' \in [Rollup -> [Update -> Nat]] /\ \A q \in Rollup : q # r => counted'[q] = counted[q]
    BY <1>1, <1>2, <1>3 DEF TypeOK
  <1>6. QED
    BY <1>4, <1>5 DEF r

LEMMA TypeStep ==
  ASSUME TypeOK, NotYetAggregated, [Next]_vars
  PROVE  TypeOK' /\ NotYetAggregated'
  <1> USE RollupsAssumption, UpdateFacts
  <1>1. CASE SaveNetworkUpdate
    <2>1. PICK d \in Day : day' = [day EXCEPT ![last + 1] = d]
      BY <1>1 DEF SaveNetworkUpdate
    <2>2. QED
      BY <1>1, <2>1 DEF SaveNetworkUpdate, TypeOK, NotYetAggregated, tables, Update
  <1>2. CASE CreateMeasurements
    <2>1. PICK nodes \in SUBSET Entity, organizations \in SUBSET Entity :
            measured' = [r \in EntityRollups |->
              [measured[r] EXCEPT ![last] = IF r = Rollups[1] THEN nodes ELSE organizations]]
      BY <1>2 DEF CreateMeasurements
    <2>2. ASSUME NEW r \in EntityRollups
          PROVE  [measured[r] EXCEPT ![last] = IF r = Rollups[1] THEN nodes ELSE organizations]
                   \in [Update -> SUBSET Entity]
      BY <2>2 DEF TypeOK
    <2>3. measured' \in [EntityRollups -> [Update -> SUBSET Entity]]
      BY <2>1, <2>2
    <2>4. QED
      BY <1>2, <2>3 DEF CreateMeasurements, TypeOK, NotYetAggregated, tables
  <1>3. CASE CompleteUpdate
    BY <1>3 DEF CompleteUpdate, TypeOK, NotYetAggregated, tables, Update
  <1>4. CASE AggregateMeasurements
    <2>1. counted' \in [Rollup -> [Update -> Nat]]
      BY <1>4, AggregateEffect
    <2>2. ASSUME NEW q \in EntityRollups, NEW d \in Day, NEW e \in Entity
          PROVE  (IF q = Rollups[current] /\ \E u \in Aggregated(Rollups[current]) :
                       day[u] = d /\ e \in measured[Rollups[current]][u]
                  THEN CrawlsOfDay(Rollups[current], d) ELSE crawlCount[q][d][e]) \in Nat
      BY <2>2, CrawlsType DEF TypeOK
    <2>3. crawlCount' \in [EntityRollups -> [Day -> [Entity -> Nat]]]
      BY <1>4, <2>2 DEF AggregateMeasurements
    <2>4. QED
      BY <1>4, <2>1, <2>3 DEF AggregateMeasurements, TypeOK, NotYetAggregated
  <1>5. CASE SaveMeasurementRollup
    <2>1. lastAggregated' \in [Rollup -> 0..last]
      BY <1>5, RollupNames DEF SaveMeasurementRollup, AggregatedUpTo, TypeOK
    <2>2. QED
      BY <1>5, <2>1 DEF SaveMeasurementRollup, TypeOK, NotYetAggregated, tables
  <1>6. CASE FailSave
    <2>1. interrupted' \subseteq Rollup
      BY <1>6, RollupNames DEF FailSave, TypeOK
    <2>2. QED
      BY <1>6, <2>1 DEF FailSave, TypeOK, NotYetAggregated, tables
  <1>7. CASE UNCHANGED vars
    BY <1>7 DEF vars, TypeOK, NotYetAggregated, tables
  <1>8. QED
    BY <1>1, <1>2, <1>3, <1>4, <1>5, <1>6, <1>7 DEF Next

\* Every state is well typed: what is completed or aggregated is an update that was begun, and
\* every update is of a day that is there to be aggregated to.
THEOREM TypeCorrect == Spec => []TypeOK
  <1>1. TypeOK /\ NotYetAggregated /\ [Next]_vars => (TypeOK /\ NotYetAggregated)'
    BY TypeStep
  <1>2. Init => TypeOK /\ NotYetAggregated
    BY InitInv DEF NoneLeftOutInv
  <1>3. QED
    BY <1>1, <1>2, PTL DEF Spec

LEMMA NoneLeftOutStep ==
  ASSUME NoneLeftOutInv, [Next]_vars
  PROVE  NoneLeftOut' /\ SavingCounted'
  <1> USE UpdateFacts DEF NoneLeftOutInv
  <1>1. CASE SaveNetworkUpdate \/ CreateMeasurements \/ FailSave \/ UNCHANGED vars
    BY <1>1 DEF SaveNetworkUpdate, CreateMeasurements, FailSave, vars, tables,
       NoneLeftOut, SavingCounted
  <1>2. CASE CompleteUpdate
    BY <1>2 DEF CompleteUpdate, tables, NoneLeftOut, SavingCounted, NotYetAggregated, TypeOK
  <1>3. CASE AggregateMeasurements
    <2>1. ASSUME NEW u \in completed
          PROVE  counted'[Rollups[current]][u] >= 1
      <3>1. u <= last /\ Rollups[current] \in Rollup /\ counted[Rollups[current]][u] \in Nat
        BY RollupNames DEF TypeOK
      <3>2. lastAggregated[Rollups[current]] \in Nat /\ u \in Nat
        BY <3>1 DEF TypeOK
      <3>3. CASE u \in Aggregated(Rollups[current])
        BY <1>3, <3>1, <3>3, AggregateEffect
      <3>4. CASE u \notin Aggregated(Rollups[current])
        <4>1. u <= lastAggregated[Rollups[current]]
          BY <3>1, <3>2, <3>4 DEF Aggregated
        <4>2. QED
          BY <1>3, <3>1, <3>4, <4>1, AggregateEffect DEF NoneLeftOut
      <3>5. QED
        BY <3>3, <3>4
    <2>2. NoneLeftOut'
      BY <1>3, <2>1, AggregateEffect DEF AggregateMeasurements, NoneLeftOut
    <2>3. QED
      BY <1>3, <2>1, <2>2 DEF AggregateMeasurements, SavingCounted
  <1>4. CASE SaveMeasurementRollup
    <2>1. \A r \in Rollup : r # Rollups[current] => lastAggregated'[r] = lastAggregated[r]
      BY <1>4 DEF SaveMeasurementRollup, TypeOK
    <2>2. NoneLeftOut'
      BY <1>4, <2>1 DEF SaveMeasurementRollup, tables, NoneLeftOut, SavingCounted
    <2>3. QED
      BY <1>4, <2>2 DEF SaveMeasurementRollup, SavingCounted
  <1>5. QED
    BY <1>1, <1>2, <1>3, <1>4 DEF Next

\* However saves fail or the process crashes, a rollup never records as aggregated an
\* update whose measurements its totals lack.
THEOREM NoUpdateLeftOut == Spec => []NoneLeftOut
  <1>1. NoneLeftOutInv /\ [Next]_vars => NoneLeftOutInv'
    BY TypeStep, NoneLeftOutStep DEF NoneLeftOutInv
  <1>2. NoneLeftOutInv => NoneLeftOut
    BY DEF NoneLeftOutInv
  <1>3. QED
    BY InitInv, <1>1, <1>2, PTL DEF Spec

LEMMA CountedOnceStep ==
  ASSUME CountedOnceInv, [Next]_vars
  PROVE  CountedOnce' /\ SavingCountedOnce'
  <1> USE UpdateFacts DEF CountedOnceInv
  <1>1. CASE SaveNetworkUpdate \/ CreateMeasurements \/ UNCHANGED vars
    BY <1>1 DEF SaveNetworkUpdate, CreateMeasurements, vars, tables, CountedOnce, SavingCountedOnce
  <1>2. CASE CompleteUpdate
    BY <1>2 DEF CompleteUpdate, tables, CountedOnce, SavingCountedOnce, NotYetAggregated, TypeOK
  <1>3. CASE AggregateMeasurements
    <2>1. ASSUME NEW u \in Update, Rollups[current] \notin interrupted
          PROVE  counted'[Rollups[current]][u] = IF u \in completed THEN 1 ELSE 0
      <3>1. Rollups[current] \in Rollup /\ lastAggregated[Rollups[current]] \in Nat /\ u \in Nat
        BY RollupNames DEF TypeOK, Update
      <3>2. u \in completed => u <= last
        BY DEF TypeOK
      <3>3. counted[Rollups[current]][u] =
              IF u \in completed /\ u <= lastAggregated[Rollups[current]] THEN 1 ELSE 0
        BY <1>3, <2>1, <3>1 DEF AggregateMeasurements, CountedOnce
      <3>4. u \in Aggregated(Rollups[current]) <=>
              u \in completed /\ ~(u <= lastAggregated[Rollups[current]])
        BY <3>1, <3>2 DEF Aggregated
      <3>5. QED
        BY <1>3, <3>3, <3>4, AggregateEffect
    <2>2. CountedOnce'
      BY <1>3, AggregateEffect DEF AggregateMeasurements, CountedOnce
    <2>3. QED
      BY <1>3, <2>1, <2>2 DEF AggregateMeasurements, SavingCountedOnce
  <1>4. CASE SaveMeasurementRollup
    <2>1. /\ \A r \in Rollup : r # Rollups[current] => lastAggregated'[r] = lastAggregated[r]
          /\ Rollups[current] \in Rollup /\ lastAggregated'[Rollups[current]] = last
      BY <1>4, RollupNames DEF SaveMeasurementRollup, AggregatedUpTo, TypeOK
    <2>2. ASSUME NEW r \in Rollup, r \notin interrupted, NEW u \in Update
          PROVE  counted'[r][u] = IF u \in completed' /\ u <= lastAggregated'[r] THEN 1 ELSE 0
      <3>1. u \in completed => u <= last
        BY DEF TypeOK
      <3>2. CASE r = Rollups[current]
        BY <1>4, <2>1, <2>2, <3>1, <3>2 DEF SaveMeasurementRollup, tables, SavingCountedOnce
      <3>3. CASE r # Rollups[current]
        BY <1>4, <2>1, <2>2, <3>3 DEF SaveMeasurementRollup, tables, CountedOnce
      <3>4. QED
        BY <3>2, <3>3
    <2>3. QED
      BY <1>4, <2>2 DEF SaveMeasurementRollup, CountedOnce, SavingCountedOnce
  <1>5. CASE FailSave
    BY <1>5 DEF FailSave, tables, CountedOnce, SavingCountedOnce
  <1>6. QED
    BY <1>1, <1>2, <1>3, <1>4, <1>5 DEF Next

\* The totals of a rollup that no save has failed in between its two writes hold
\* exactly the completed updates up to lastAggregatedCrawlId, each once.
THEOREM EachCountedOnce == Spec => []CountedOnce
  <1>1. CountedOnceInv /\ [Next]_vars => CountedOnceInv'
    BY TypeStep, CountedOnceStep DEF CountedOnceInv
  <1>2. CountedOnceInv => CountedOnce
    BY DEF CountedOnceInv
  <1>3. QED
    BY InitInv, <1>1, <1>2, PTL DEF Spec
-----------------------------------------------------------------------------
(* What is read from the tables.  The sum of a row is the value of a fold, which the       *)
(* number of the terms that are one is shown to be by way of a minimal counterexample.     *)

\* Of some subsets of a finite set, one has none of the others inside.
LEMMA MinimalSubset ==
  ASSUME NEW S, IsFiniteSet(S), NEW T \in SUBSET (SUBSET S), T # {}
  PROVE  \E s \in T : \A t \in T : t \subseteq s => t = s
  <1>1. T \subseteq FiniteSubsetsOf(S)
    BY FS_FiniteSubsetsOfFinite
  <1>2. PICK s \in T : \A t \in T : <<t, s>> \notin StrictSubsetOrdering(S)
    BY <1>1, FS_StrictSubsetOrderingWellFounded, WFMin
  <1>3. QED
    BY <1>2 DEF StrictSubsetOrdering

\* The equation of a sum over the subsets of S, one element taken from the set after the other.
Sums(h, S, term) ==
  h = [s \in SUBSET S |->
         IF s = {} THEN 0 ELSE LET x == CHOOSE x \in s : TRUE IN term[x] + h[s \ {x}]]
Ones(s, term) == {x \in s : term[x] = 1}

LEMMA OnesRemoved ==
  ASSUME NEW s, IsFiniteSet(s), NEW term \in [s -> {0, 1}], NEW x \in s
  PROVE  Cardinality(Ones(s, term)) = term[x] + Cardinality(Ones(s \ {x}, term))
  <1>1. IsFiniteSet(Ones(s, term)) /\ IsFiniteSet(Ones(s \ {x}, term))
    BY FS_Subset, FS_RemoveElement DEF Ones
  <1>2. CASE term[x] = 1
    <2>1. Ones(s \ {x}, term) = Ones(s, term) \ {x} /\ x \in Ones(s, term)
      BY <1>2 DEF Ones
    <2>2. QED
      <3> DEFINE O == Ones(s, term)
      <3> HIDE DEF O
      <3>1. IsFiniteSet(O) /\ x \in O /\ Cardinality(O) \in Nat
        BY <1>1, <2>1, FS_CardinalityType DEF O
      <3>2. Cardinality(O \ {x}) = Cardinality(O) - 1
        BY <3>1, FS_RemoveElement
      <3>3. Ones(s \ {x}, term) = O \ {x}
        BY <2>1 DEF O
      <3>4. Cardinality(O) = term[x] + Cardinality(O \ {x})
        BY <1>2, <3>1, <3>2
      <3>5. QED
        BY <3>3, <3>4 DEF O
  <1>3. CASE term[x] = 0
    <2>1. Ones(s \ {x}, term) = Ones(s, term)
      BY <1>3 DEF Ones
    <2>2. QED
      BY <1>1, <1>3, <2>1, FS_CardinalityType
  <1>4. QED
    BY <1>2, <1>3

\* The number of terms that are one solves it, and nothing else does.
LEMMA SumOfOnes ==
  ASSUME NEW S, IsFiniteSet(S), NEW term \in [S -> {0, 1}]
  PROVE  LET c == [s \in SUBSET S |-> Cardinality(Ones(s, term))] IN
         Sums(c, S, term) /\ \A h : Sums(h, S, term) => h = c
  <1> DEFINE c == [s \in SUBSET S |-> Cardinality(Ones(s, term))]
  <1>1. ASSUME NEW s \in SUBSET S, NEW x \in s
        PROVE  c[s] = term[x] + c[s \ {x}]
    <2>1. IsFiniteSet(s)
      BY FS_Subset
    <2>2. Cardinality(Ones(s, term)) = term[x] + Cardinality(Ones(s \ {x}, term))
      <3> DEFINE g == [y \in s |-> term[y]]
      <3>1. g \in [s -> {0, 1}] /\ g[x] = term[x]
        OBVIOUS
      <3>2. Ones(s, g) = Ones(s, term) /\ Ones(s \ {x}, g) = Ones(s \ {x}, term)
        BY DEF Ones
      <3> HIDE DEF g
      <3>3. QED
        BY <2>1, <3>1, <3>2, OnesRemoved
    <2>3. QED
      BY <2>2
  <1>2. c[{}] = 0
    BY FS_EmptySet DEF Ones
  <1>3. c = [s \in SUBSET S |-> c[s]]
    OBVIOUS
  <1> HIDE DEF c
  <1>4. ASSUME NEW s \in SUBSET S, s # {}
        PROVE  (CHOOSE x \in s : TRUE) \in s
    BY <1>4
  <1>5. Sums(c, S, term)
    BY <1>1, <1>2, <1>3, <1>4 DEF Sums
  <1>6. ASSUME NEW h, Sums(h, S, term) PROVE h = c
    <2>1. h = [s \in SUBSET S |-> h[s]]
      BY <1>6 DEF Sums
    <2>2. \A s \in SUBSET S : s # {} =>
            h[s] = term[CHOOSE x \in s : TRUE] + h[s \ {CHOOSE x \in s : TRUE}]
      BY <1>6 DEF Sums
    <2>3. h[{}] = 0
      BY <1>6 DEF Sums
    <2> DEFINE T == {s \in SUBSET S : h[s] # c[s]}
    <2>4. SUFFICES ASSUME T # {} PROVE FALSE
      BY <1>3, <2>1
    <2>5. PICK s \in T : \A t \in T : t \subseteq s => t = s
      <3>1. T \in SUBSET (SUBSET S)
        OBVIOUS
      <3> HIDE DEF T
      <3>2. QED
        BY <2>4, <3>1, MinimalSubset
    <2>6. s # {}
      BY <1>2, <2>3
    <2> DEFINE x == CHOOSE x \in s : TRUE
    <2>7. x \in s /\ s \in SUBSET S
      BY <2>6
    <2>8. s \ {x} \notin T /\ s \ {x} \in SUBSET S
      BY <2>5, <2>7
    <2>9. h[s \ {x}] = c[s \ {x}]
      BY <2>8
    <2>10. h[s] = term[x] + h[s \ {x}]
      BY <2>2, <2>6, <2>7
    <2>11. QED
      BY <1>1, <2>7, <2>9, <2>10
  <1>7. QED
    BY <1>5, <1>6 DEF c

\* The measurements summed in a row are as many as the updates taken in, where each is
\* taken in at most once.
LEMMA MeasuredOnes ==
  ASSUME TypeOK, NEW r \in EntityRollups, NEW d \in Day, NEW e \in Entity,
         \A u \in Update : counted[r][u] \in {0, 1}
  PROVE  MeasuredCount(r, d, e)
           = Cardinality({u \in Update : day[u] = d /\ e \in measured[r][u] /\ counted[r][u] = 1})
  <1> DEFINE term == [u \in Update |-> IF day[u] = d /\ e \in measured[r][u] THEN counted[r][u] ELSE 0]
  <1> DEFINE Rec(h) == h = [s \in SUBSET Update |->
         IF s = {} THEN 0
         ELSE LET x == CHOOSE x \in s : TRUE
              IN (IF day[x] = d /\ e \in measured[r][x] THEN counted[r][x] ELSE 0) + h[s \ {x}]]
  <1>1. MeasuredCount(r, d, e) = (CHOOSE h : Rec(h))[Update]
    BY DEF MeasuredCount, MapThenSumSet, MapThenFoldSet
  <1>2. ASSUME NEW h PROVE Rec(h) <=> Sums(h, Update, term)
    BY DEF Sums
  <1> HIDE DEF Rec
  <1>3. term \in [Update -> {0, 1}]
    OBVIOUS
  <1> HIDE DEF term
  <1> DEFINE c == [s \in SUBSET Update |-> Cardinality(Ones(s, term))]
  <1>4. IsFiniteSet(Update)
    BY RollupsAssumption, FS_Interval DEF Update
  <1>5. Sums(c, Update, term) /\ \A h : Sums(h, Update, term) => h = c
    BY <1>3, <1>4, SumOfOnes
  <1> HIDE DEF c
  <1>6. (CHOOSE h : Rec(h)) = c
    BY <1>2, <1>5
  <1>7. c[Update] = Cardinality(Ones(Update, term))
    BY DEF c
  <1>8. Ones(Update, term) = {u \in Update : day[u] = d /\ e \in measured[r][u] /\ counted[r][u] = 1}
    BY DEF Ones, term
  <1>9. QED
    BY <1>1, <1>6, <1>7, <1>8

Taken(r, d, e) == {u \in Update : day[u] = d /\ e \in measured[r][u] /\ counted[r][u] = 1}
\* AtMostAlwaysAvailable of the sets that are counted.
TakenAtMost ==
  \A r \in EntityRollups \ interrupted, d \in Day, e \in Entity :
    Cardinality(Taken(r, d, e)) <= crawlCount[r][d][e]

AvailableInv == CountedOnceInv /\ TakenAtMost

LEMMA TakenFacts ==
  ASSUME CountedOnceInv, NEW r \in EntityRollups \ interrupted
  PROVE  /\ r \in Rollup
         /\ \A u \in Update : counted[r][u] \in {0, 1} /\ (counted[r][u] = 1 => u \in completed)
         /\ \A d, e : IsFiniteSet(Taken(r, d, e)) /\ Cardinality(Taken(r, d, e)) \in Nat
  <1>1. r \in Rollup
    BY DEF EntityRollups, Rollup
  <1>2. \A u \in Update : counted[r][u] \in {0, 1} /\ (counted[r][u] = 1 => u \in completed)
    BY <1>1 DEF CountedOnceInv, CountedOnce, SavingCountedOnce
  <1>3. IsFiniteSet(Update)
    BY RollupsAssumption, FS_Interval DEF Update
  <1>4. \A d, e : IsFiniteSet(Taken(r, d, e))
    BY <1>3, FS_Subset DEF Taken
  <1>5. QED
    BY <1>1, <1>2, <1>4, FS_CardinalityType

\* An update that is not completed is in no total, whatever is written of it.
LEMMA SameTaken ==
  ASSUME CountedOnceInv, UNCHANGED <<completed, tables>>, interrupted \subseteq interrupted',
         TakenAtMost,
         \A u \in completed : day'[u] = day[u] /\ \A r \in EntityRollups : measured'[r][u] = measured[r][u]
  PROVE  TakenAtMost'
  <1> SUFFICES ASSUME NEW r \in EntityRollups \ interrupted', NEW d \in Day, NEW e \in Entity
               PROVE  Cardinality(Taken(r, d, e)') <= crawlCount[r][d][e]
    BY DEF TakenAtMost, tables
  <1>1. Taken(r, d, e)' = Taken(r, d, e)
    BY TakenFacts DEF Taken, tables
  <1>2. QED
    BY <1>1 DEF TakenAtMost

LEMMA AggregateTakes ==
  ASSUME CountedOnceInv, CountedOnceInv', TakenAtMost, AggregateMeasurements
  PROVE  TakenAtMost'
  <1> SUFFICES ASSUME NEW r \in EntityRollups \ interrupted', NEW d \in Day, NEW e \in Entity
               PROVE  Cardinality(Taken(r, d, e)') <= crawlCount'[r][d][e]
    BY DEF TakenAtMost
  <1>1. /\ UNCHANGED <<day, completed, measured, interrupted>> /\ TypeOK
        /\ crawlCount'[r][d][e] =
             IF r = Rollups[current] /\ \E u \in Aggregated(r) : day[u] = d /\ e \in measured[r][u]
             THEN CrawlsOfDay(r, d) ELSE crawlCount[r][d][e]
    BY DEF AggregateMeasurements, CountedOnceInv
  <1>2. r \in Rollup /\ r \in EntityRollups \ interrupted
    BY <1>1, TakenFacts
  <1>3. CASE r # Rollups[current]
    <2>1. counted'[r] = counted[r]
      BY <1>1, <1>2, <1>3, AggregateEffect
    <2>2. Taken(r, d, e)' = Taken(r, d, e)
      BY <1>1, <2>1 DEF Taken
    <2>3. QED
      BY <1>1, <1>2, <1>3, <2>2 DEF TakenAtMost
  <1>4. CASE r = Rollups[current] /\ \E u \in Aggregated(r) : day[u] = d /\ e \in measured[r][u]
    <2> DEFINE crawls == {u \in completed : day[u] = d}
    <2>1. Taken(r, d, e)' \subseteq crawls
      <3>1. \A u \in Update : counted'[r][u] = 1 => u \in completed'
        BY <1>2 DEF CountedOnceInv, CountedOnce, SavingCountedOnce
      <3>2. QED
        BY <1>1, <3>1 DEF Taken
    <2>2. IsFiniteSet(crawls)
      BY <1>1, UpdateFacts, FS_Subset
    <2>3. Cardinality(Taken(r, d, e)') <= Cardinality(crawls)
      BY <2>1, <2>2, FS_Subset
    <2>4. QED
      BY <1>1, <1>4, <2>3 DEF CrawlsOfDay
  <1>5. CASE r = Rollups[current] /\ ~\E u \in Aggregated(r) : day[u] = d /\ e \in measured[r][u]
    <2>1. \A u \in Update : day[u] = d /\ e \in measured[r][u] => counted'[r][u] = counted[r][u]
      <3>1. ASSUME NEW u \in Update, u \notin Aggregated(r) PROVE counted'[r][u] = counted[r][u]
        <4>1. counted[r][u] \in Nat
          BY <1>1, <1>2 DEF TypeOK
        <4>2. QED
          BY <1>1, <1>5, <3>1, <4>1, AggregateEffect
      <3>2. QED
        BY <1>5, <3>1
    <2>2. Taken(r, d, e)' = Taken(r, d, e)
      BY <1>1, <2>1 DEF Taken
    <2>3. QED
      BY <1>1, <1>2, <1>5, <2>2 DEF TakenAtMost
  <1>6. QED
    BY <1>3, <1>4, <1>5

LEMMA AvailableStep ==
  ASSUME AvailableInv, [Next]_vars
  PROVE  AvailableInv'
  <1>1. CountedOnceInv' /\ TypeOK
    BY TypeStep, CountedOnceStep DEF AvailableInv, CountedOnceInv
  <1>2. CASE SaveNetworkUpdate
    <2>1. PICK d \in Day : day' = [day EXCEPT ![last + 1] = d]
      BY <1>2 DEF SaveNetworkUpdate
    <2>2. \A u \in completed : day'[u] = day[u]
      BY <1>1, <2>1, UpdateFacts DEF TypeOK
    <2>3. QED
      BY <1>1, <1>2, <2>2, SameTaken DEF SaveNetworkUpdate, AvailableInv
  <1>3. CASE CreateMeasurements
    <2>1. last \notin completed
      BY <1>3 DEF CreateMeasurements, AvailableInv, CountedOnceInv, NotYetAggregated
    <2>2. \A u \in completed, r \in EntityRollups : measured'[r][u] = measured[r][u]
      BY <1>1, <1>3, <2>1, UpdateFacts DEF CreateMeasurements, TypeOK
    <2>3. QED
      BY <1>1, <1>3, <2>2, SameTaken DEF CreateMeasurements, AvailableInv
  <1>4. CASE CompleteUpdate
    <2>1. UNCHANGED <<day, measured, tables, interrupted>>
      BY <1>4 DEF CompleteUpdate
    <2>2. QED
      BY <1>1, <2>1 DEF AvailableInv, TakenAtMost, Taken, tables
  <1>5. CASE AggregateMeasurements
    BY <1>1, <1>5, AggregateTakes DEF AvailableInv
  <1>6. CASE SaveMeasurementRollup \/ FailSave \/ UNCHANGED vars
    BY <1>1, <1>6, SameTaken DEF SaveMeasurementRollup, FailSave, vars, AvailableInv
  <1>7. QED
    BY <1>2, <1>3, <1>4, <1>5, <1>6 DEF Next

\* No total of a day in which each update counts for at most one exceeds the number of crawls
\* it is divided by, for rollups that no save has failed in between their two writes
\* (the averages of NodeMeasurementDayV2Repository).
THEOREM NeverAboveAll == Spec => []AtMostAlwaysAvailable
  <1>1. Init => AvailableInv
    <2>1. ASSUME Init, NEW r \in EntityRollups, NEW d \in Day, NEW e \in Entity
          PROVE  Cardinality(Taken(r, d, e)) <= crawlCount[r][d][e]
      <3>1. Taken(r, d, e) = {}
        BY <2>1 DEF Init, Taken, EntityRollups, Rollup
      <3>2. QED
        BY <2>1, <3>1, FS_EmptySet DEF Init
    <2>2. QED
      BY <2>1, InitInv DEF AvailableInv, TakenAtMost
  <1>2. AvailableInv => AtMostAlwaysAvailable
    <2> SUFFICES ASSUME AvailableInv, NEW r \in EntityRollups \ interrupted, NEW d \in Day,
                        NEW e \in Entity
                 PROVE  MeasuredCount(r, d, e) <= crawlCount[r][d][e]
      BY DEF AtMostAlwaysAvailable
    <2>1. MeasuredCount(r, d, e) = Cardinality(Taken(r, d, e))
      BY MeasuredOnes, TakenFacts DEF AvailableInv, CountedOnceInv, Taken
    <2>2. QED
      BY <2>1 DEF AvailableInv, TakenAtMost
  <1>3. AvailableInv /\ [Next]_vars => AvailableInv'
    BY AvailableStep
  <1>4. QED
    BY <1>1, <1>2, <1>3, PTL DEF Spec
================================================================================

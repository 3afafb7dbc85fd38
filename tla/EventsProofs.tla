------------------------------ MODULE EventsProofs ------------------------------
(***************************************************************************)
(* Theorems about Events for any nodes, organizations, analyses, number of *)
(* updates in the window and number of updates saved.                      *)
(***************************************************************************)
EXTENDS Events, FiniteSetTheorems, TLAPS

\* The updates are completed and looked at in the order of their times.
InOrder ==
  /\ completed \subseteq 0..update
  /\ \A m \in measured : m.at <= update
  /\ phase = "measured" => update \notin completed
  /\ phase = "completed" => update \in completed
  /\ phase # "idle" => update \notin detected

\* There is a latest completed update, and one before the update at hand.
LatestCompleted == \E p \in completed : \A u \in completed : u <= p
HasPrevious(v) == \E p \in completed : p < v /\ \A u \in completed : u < v => u <= p
Latest == LatestCompleted /\ (phase = "completed" => HasPrevious(update))

\* The events found at an update are those of the window as it still is.
Told ==
  \A w \in Watched, v \in detected :
    [watched |-> w, at |-> v] \in updatesEvents <=> FirstTimeFalse(w, v)

BaseInv == TypeOK /\ InOrder /\ Latest
-----------------------------------------------------------------------------
LEMMA InitInv == Init => BaseInv /\ Told /\ DangerKnown /\ QuorumSetKnown
  <1> SUFFICES ASSUME Init PROVE BaseInv /\ Told /\ DangerKnown /\ QuorumSetKnown
    OBVIOUS
  <1>1. TypeOK
    BY EventsAssumption DEF Init, TypeOK, Update, TrueAt
  <1>2. InOrder
    BY DEF Init, InOrder, TrueAt
  <1>3. Latest
    BY DEF Init, Latest, LatestCompleted
  <1>4. Told /\ DangerKnown /\ QuorumSetKnown
    BY DEF Init, Told, DangerKnown, QuorumSetKnown
  <1>5. QED
    BY <1>1, <1>2, <1>3, <1>4 DEF BaseInv

LEMMA SetFacts ==
  ASSUME BaseInv
  PROVE  /\ update \in Nat /\ completed \subseteq 0..update /\ detected \subseteq completed
         /\ completed \subseteq Nat /\ completed \subseteq Update
  BY EventsAssumption DEF BaseInv, TypeOK, InOrder, Update

\* What Detect compares with.
LEMMA PreviousFacts ==
  ASSUME NEW v, HasPrevious(v)
  PROVE  /\ PreviousUpdate(v) \in completed /\ PreviousUpdate(v) < v
         /\ \A u \in completed : u < v => u <= PreviousUpdate(v)
  BY DEF HasPrevious, PreviousUpdate

LEMMA AnalysisType ==
  ASSUME BaseInv, NEW v \in completed
  PROVE  /\ v \in Nat /\ v <= update /\ analyses[v] \in Analysis
         /\ analyses[v].quorumSet \in QuorumSet
         /\ \A s \in Size : analyses[v][s] \in Nat
  <1>1. v \in 0..update /\ update \in Nat
    BY EventsAssumption DEF BaseInv, InOrder, TypeOK, Update
  <1>2. analyses[v] \in Analysis
    BY <1>1 DEF BaseInv, TypeOK
  <1>3. analyses[v] \in [blocking : Nat, orgBlocking : Nat, splitting : Nat, orgSplitting : Nat,
                         quorumSet : QuorumSet]
    BY <1>2, EventsAssumption
  <1>4. QED
    BY <1>1, <1>2, <1>3 DEF Size

LEMMA TypeStep == BaseInv /\ [Next]_vars => TypeOK'
  <1> SUFFICES ASSUME BaseInv, [Next]_vars PROVE TypeOK'
    OBVIOUS
  <1>0. update \in Nat /\ MaxUpdate \in Nat /\ update <= MaxUpdate
    BY EventsAssumption DEF BaseInv, TypeOK, Update
  <1>1. CASE CreateMeasurements
    <2>1. PICK a \in Analysis :
            analyses' = [u \in 0..update' |-> IF u = update' THEN a ELSE analyses[u]]
      BY <1>1 DEF CreateMeasurements
    <2>2. update' = update + 1 /\ update' \in Update
      BY <1>0, <1>1 DEF CreateMeasurements, Update
    <2>3. analyses' \in [0..update' -> Analysis]
      <3> SUFFICES ASSUME NEW u \in 0..update', u # update' PROVE analyses[u] \in Analysis
        BY <2>1
      <3>1. u \in 0..update
        BY <1>0, <2>2
      <3>2. QED
        BY <3>1 DEF BaseInv, TypeOK
    <2>4. measured' \subseteq [watched : Watched, at : Update]
      BY <1>1, <2>2 DEF CreateMeasurements, BaseInv, TypeOK, TrueAt
    <2>5. QED
      BY <1>1, <2>2, <2>3, <2>4 DEF CreateMeasurements, eventVars, BaseInv, TypeOK
  <1>2. CASE CompleteUpdate
    BY <1>2 DEF CompleteUpdate, eventVars, BaseInv, TypeOK
  <1>3. CASE UpdateFails
    BY <1>3 DEF UpdateFails, measurementVars, eventVars, BaseInv, TypeOK
  <1>4. CASE Detect
    <2>1. update \in completed /\ PreviousUpdate(update) \in completed
      BY <1>4, PreviousFacts DEF Detect, SaveSucceeded, BaseInv, InOrder, Latest
    <2>2. detected' = detected \cup {update} /\ detected' \subseteq completed'
      BY <1>4, <2>1 DEF Detect, measurementVars, BaseInv, TypeOK
    <2>3. updatesEvents' \subseteq [watched : Watched, at : detected']
      BY <1>4, <2>2 DEF Detect, FindEventsForXNetworkUpdates, BaseInv, TypeOK
    <2>4. networkEvents' \subseteq [type : NetworkEvent, at : detected']
      BY <1>4, <2>2 DEF Detect, DetectNetworkEvents, DetectLivenessEvents, DetectSafetyEvents,
         BaseInv, TypeOK
    <2>5. /\ analyses[update].quorumSet \in QuorumSet
          /\ analyses[PreviousUpdate(update)].quorumSet \in QuorumSet
      BY <2>1, AnalysisType
    <2>6. quorumSetChanges' \subseteq [at : detected', from : QuorumSet, to : QuorumSet]
      BY <1>4, <2>2, <2>5 DEF Detect, DetectTransitiveQuorumSetChangedEvents, BaseInv, TypeOK
    <2>7. QED
      BY <1>4, <2>2, <2>3, <2>4, <2>6 DEF Detect, measurementVars, BaseInv, TypeOK
  <1>5. CASE UNCHANGED vars
    BY <1>5 DEF vars, measurementVars, eventVars, BaseInv, TypeOK
  <1>6. QED
    BY <1>1, <1>2, <1>3, <1>4, <1>5 DEF Next

LEMMA OrderStep == BaseInv /\ [Next]_vars => InOrder' /\ Latest'
  <1> SUFFICES ASSUME BaseInv, [Next]_vars PROVE InOrder' /\ Latest'
    OBVIOUS
  <1>0. update \in Nat /\ completed \subseteq 0..update /\ detected \subseteq completed
    BY EventsAssumption DEF BaseInv, TypeOK, InOrder, Update
  <1>1. CASE CreateMeasurements
    <2>1. update' = update + 1 /\ completed' = completed /\ detected' = detected
      BY <1>1 DEF CreateMeasurements, eventVars
    <2>2. \A m \in measured' : m.at <= update'
      <3>1. \A m \in measured : m.at \in Nat /\ m.at <= update
        BY EventsAssumption DEF BaseInv, TypeOK, InOrder, Update
      <3>2. QED
        BY <1>0, <1>1, <2>1, <3>1 DEF CreateMeasurements, TrueAt
    <2>3. InOrder'
      BY <1>0, <1>1, <2>1, <2>2 DEF CreateMeasurements, InOrder
    <2>4. Latest'
      BY <1>1, <2>1 DEF CreateMeasurements, BaseInv, Latest, LatestCompleted
    <2>5. QED
      BY <2>3, <2>4
  <1>2. CASE CompleteUpdate
    <2>1. /\ completed' = completed \cup {update} /\ update' = update /\ phase' = "completed"
          /\ measured' = measured /\ detected' = detected /\ update \notin completed
      BY <1>2 DEF CompleteUpdate, eventVars, BaseInv, InOrder
    <2>2. InOrder'
      BY <1>0, <1>2, <2>1 DEF CompleteUpdate, BaseInv, InOrder
    <2>3. PICK p \in completed : \A u \in completed : u <= p
      BY DEF BaseInv, Latest, LatestCompleted
    <2>4. HasPrevious(update)'
      BY <1>0, <2>1, <2>3 DEF HasPrevious
    <2>5. LatestCompleted'
      BY <1>0, <2>1 DEF LatestCompleted
    <2>6. QED
      BY <2>2, <2>4, <2>5 DEF Latest
  <1>3. CASE UpdateFails
    BY <1>3 DEF UpdateFails, measurementVars, eventVars, BaseInv, InOrder, Latest, LatestCompleted
  <1>4. CASE Detect
    BY <1>4 DEF Detect, measurementVars, BaseInv, InOrder, Latest, LatestCompleted
  <1>5. CASE UNCHANGED vars
    BY <1>5 DEF vars, measurementVars, eventVars, BaseInv, InOrder, Latest, LatestCompleted,
       HasPrevious
  <1>6. QED
    BY <1>1, <1>2, <1>3, <1>4, <1>5 DEF Next

LEMMA BaseStep == BaseInv /\ [Next]_vars => BaseInv'
  BY TypeStep, OrderStep DEF BaseInv

\* A step changes nothing an update was looked at for.
LEMMA PastStays ==
  ASSUME BaseInv, [Next]_vars, NEW v \in detected
  PROVE  /\ v \in detected' /\ v \in Nat
         /\ \A u \in Nat : u <= v => (u \in completed' <=> u \in completed)
         /\ \A u \in completed : u <= v => analyses'[u] = analyses[u]
         /\ \A w, u : u \in Nat /\ u <= v => (IsTrue(w, u)' <=> IsTrue(w, u))
         /\ \A u \in Nat : u <= v => (u \in detected' <=> u \in detected)
  <1>0. /\ update \in Nat /\ completed \subseteq 0..update /\ v \in completed /\ v \in Nat
        /\ v <= update
    BY EventsAssumption DEF BaseInv, TypeOK, InOrder, Update
  <1>1. CASE CreateMeasurements
    <2>1. /\ update' = update + 1 /\ completed' = completed /\ detected' = detected
          /\ \A u \in 0..update : analyses'[u] = analyses[u]
      BY <1>0, <1>1 DEF CreateMeasurements, eventVars
    <2>2. \A w, u : u \in Nat /\ u <= v => (IsTrue(w, u)' <=> IsTrue(w, u))
      <3>1. PICK S \in SUBSET Watched : measured' = measured \cup TrueAt(S, update')
        BY <1>1 DEF CreateMeasurements
      <3>2. \A m \in TrueAt(S, update') : m.at = update + 1
        BY <2>1 DEF TrueAt
      <3>3. ASSUME NEW w, NEW u \in Nat, u <= v
            PROVE  [watched |-> w, at |-> u] \notin TrueAt(S, update')
        BY <1>0, <3>2, <3>3
      <3>4. QED
        BY <3>1, <3>3 DEF IsTrue
    <2>3. QED
      BY <1>0, <2>1, <2>2
  <1>2. CASE CompleteUpdate
    <2>1. v < update
      BY <1>0, <1>2 DEF CompleteUpdate, BaseInv, InOrder
    <2>2. QED
      BY <1>0, <1>2, <2>1 DEF CompleteUpdate, eventVars, IsTrue
  <1>3. CASE UpdateFails
    BY <1>0, <1>3 DEF UpdateFails, measurementVars, eventVars, IsTrue
  <1>4. CASE Detect
    <2>1. v < update
      BY <1>0, <1>4 DEF Detect, SaveSucceeded, BaseInv, InOrder
    <2>2. QED
      BY <1>0, <1>4, <2>1 DEF Detect, measurementVars, IsTrue
  <1>5. CASE UNCHANGED vars
    BY <1>0, <1>5 DEF vars, measurementVars, eventVars, IsTrue
  <1>6. QED
    BY <1>1, <1>2, <1>3, <1>4, <1>5 DEF Next
-----------------------------------------------------------------------------
(* The events of nodes and organizations. *)

LEMMA WindowStays ==
  ASSUME BaseInv, [Next]_vars, NEW v \in detected, NEW w
  PROVE  FirstTimeFalse(w, v)' <=> FirstTimeFalse(w, v)
  <1>0. completed \subseteq Nat /\ completed' \subseteq Nat
    BY BaseStep, EventsAssumption DEF BaseInv, TypeOK, Update
  <1>1. CompletedUpTo(v)' = CompletedUpTo(v)
    BY <1>0, PastStays DEF CompletedUpTo
  <1>2. \A u : RowNumber(u, v)' = RowNumber(u, v)
    BY <1>1 DEF RowNumber
  <1>3. Window(v)' = Window(v)
    BY <1>1, <1>2 DEF Window
  <1>4. \A u \in Window(v) : u \in Nat /\ u <= v
    BY <1>0 DEF Window, CompletedUpTo
  <1>5. TrueRows(w, v)' = TrueRows(w, v)
    BY <1>3, <1>4, PastStays DEF TrueRows, IsTrue
  <1>6. QED
    BY <1>2, <1>5 DEF FirstTimeFalse

LEMMA ToldStep == BaseInv /\ Told /\ [Next]_vars => Told'
  <1> SUFFICES ASSUME BaseInv, Told, [Next]_vars, NEW w \in Watched, NEW v \in detected'
               PROVE  ([watched |-> w, at |-> v] \in updatesEvents <=> FirstTimeFalse(w, v))'
    BY DEF Told
  <1>1. CASE Detect
    <2>1. updatesEvents' = updatesEvents \cup
            {[watched |-> x, at |-> update] : x \in FindEventsForXNetworkUpdates(update)}
      BY <1>1 DEF Detect
    <2>2. CASE v \in detected
      <3>1. v # update
        BY <1>1, <2>2 DEF Detect, SaveSucceeded, BaseInv, InOrder
      <3>2. [watched |-> w, at |-> v] \in updatesEvents'
              <=> [watched |-> w, at |-> v] \in updatesEvents
        BY <2>1, <3>1
      <3>3. QED
        BY <2>2, <3>2, WindowStays DEF Told
    <2>3. CASE v \notin detected
      <3>1. v = update
        BY <1>1, <2>3 DEF Detect
      <3>2. [watched |-> w, at |-> v] \notin updatesEvents
        BY <2>3 DEF BaseInv, TypeOK
      <3>3. FirstTimeFalse(w, v)' <=> FirstTimeFalse(w, v)
        BY <1>1 DEF Detect, measurementVars, FirstTimeFalse, TrueRows, Window, RowNumber,
           CompletedUpTo
      <3>4. QED
        BY <2>1, <3>1, <3>2, <3>3 DEF FindEventsForXNetworkUpdates
    <2>4. QED
      BY <2>2, <2>3
  <1>2. CASE ~Detect
    <2>1. updatesEvents' = updatesEvents /\ detected' = detected
      BY <1>2 DEF Next, CreateMeasurements, CompleteUpdate, UpdateFails, vars, eventVars
    <2>2. QED
      BY <2>1, WindowStays DEF Told
  <1>3. QED
    BY <1>1, <1>2

LEMMA RowNumbers ==
  ASSUME BaseInv, NEW v \in completed
  PROVE  /\ CompletedUpTo(v) \subseteq Nat /\ IsFiniteSet(CompletedUpTo(v))
         /\ \A t, u \in CompletedUpTo(v) : t < u => RowNumber(t, v) > RowNumber(u, v)
         /\ \A u \in CompletedUpTo(v) : RowNumber(u, v) \in Nat
  <1>1. /\ completed \subseteq 0..update /\ update \in Nat
        /\ IsFiniteSet(0..update)
    BY FS_Interval, EventsAssumption DEF BaseInv, TypeOK, InOrder, Update
  <1>2. CompletedUpTo(v) \subseteq Nat /\ IsFiniteSet(CompletedUpTo(v))
    <2>1. CompletedUpTo(v) \subseteq 0..update
      BY <1>1 DEF CompletedUpTo
    <2>2. QED
      BY <1>1, <2>1, FS_Subset
  <1> DEFINE Rows(u) == {x \in CompletedUpTo(v) : u <= x}
  <1>3. \A u : IsFiniteSet(Rows(u)) /\ Cardinality(Rows(u)) \in Nat
    BY <1>2, FS_Subset, FS_CardinalityType
  <1>4. ASSUME NEW t \in CompletedUpTo(v), NEW u \in CompletedUpTo(v), t < u
        PROVE  Cardinality(Rows(t)) > Cardinality(Rows(u))
    <2>1. Rows(u) \subseteq Rows(t) /\ t \in Rows(t) /\ t \notin Rows(u)
      BY <1>2, <1>4
    <2>2. Cardinality(Rows(u)) <= Cardinality(Rows(t))
          /\ (Cardinality(Rows(u)) = Cardinality(Rows(t)) => Rows(u) = Rows(t))
      <3> HIDE DEF Rows
      <3>1. QED
        BY <1>3, <2>1, FS_Subset
    <2>3. QED
      BY <1>3, <2>1, <2>2
  <1>5. QED
    BY <1>2, <1>3, <1>4 DEF RowNumber

\* An event starts after a completed update that was good, x rows back.
LEMMA TheGoodOne ==
  ASSUME BaseInv, NEW w, NEW v \in completed, FirstTimeFalse(w, v)
  PROVE  \E u \in completed :
           /\ u < v /\ RowNumber(u, v) = NumberOfUpdates + 1 /\ IsTrue(w, u)
           /\ \A t \in completed : u < t /\ t <= v => ~IsTrue(w, t)
  <1>1. PICK u \in Update : TrueRows(w, v) = {u} /\ RowNumber(u, v) = NumberOfUpdates + 1
    BY DEF FirstTimeFalse
  <1>2. u \in CompletedUpTo(v) /\ IsTrue(w, u)
    BY <1>1 DEF TrueRows, Window, IsTrue
  <1>3. ASSUME NEW t \in completed, u < t, t <= v
        PROVE  ~IsTrue(w, t)
    <2>1. t \in CompletedUpTo(v)
      BY <1>3 DEF CompletedUpTo
    <2>2. RowNumber(t, v) <= NumberOfUpdates + 1
      BY <1>1, <1>2, <1>3, <2>1, RowNumbers, EventsAssumption
    <2>3. t # u
      BY <1>2, <1>3, <2>1, RowNumbers
    <2>4. t \notin TrueRows(w, v)
      BY <1>1, <2>3
    <2>5. QED
      BY <2>1, <2>2, <2>4 DEF TrueRows, Window, IsTrue
  <1>4. u < v
    <2>1. u # v
      <3>1. SUFFICES ASSUME u = v PROVE FALSE
        OBVIOUS
      <3>2. {x \in CompletedUpTo(v) : v <= x} = {v}
        <4>1. \A x \in CompletedUpTo(v) : x \in Nat /\ x <= v
          BY RowNumbers DEF CompletedUpTo
        <4>2. v \in CompletedUpTo(v) /\ v \in Nat
          BY AnalysisType DEF CompletedUpTo
        <4>3. QED
          BY <4>1, <4>2
      <3>3. RowNumber(v, v) = 1
        BY <3>2, FS_Singleton DEF RowNumber
      <3>4. QED
        BY <1>1, <3>1, <3>3, EventsAssumption
    <2>2. QED
      BY <1>2, <2>1, AnalysisType DEF CompletedUpTo
  <1>5. QED
    BY <1>1, <1>2, <1>3, <1>4 DEF CompletedUpTo

LEMMA ToldOnce == BaseInv /\ Told => OncePerOutage
  <1> SUFFICES ASSUME BaseInv, Told, NEW e \in updatesEvents, NEW f \in updatesEvents,
                      e.watched = f.watched, e.at < f.at
               PROVE  \E u \in Completed(e.at, f.at) : u < f.at /\ IsTrue(e.watched, u)
    BY DEF OncePerOutage
  <1> DEFINE w == e.watched
  <1>1. /\ e.at \in detected /\ f.at \in detected /\ w \in Watched
        /\ e = [watched |-> w, at |-> e.at] /\ f = [watched |-> w, at |-> f.at]
    BY DEF BaseInv, TypeOK
  <1>2. /\ e.at \in completed /\ f.at \in completed /\ completed \subseteq Nat
        /\ e.at \in Nat /\ f.at \in Nat
    BY <1>1, SetFacts
  <1>3. FirstTimeFalse(w, e.at) /\ FirstTimeFalse(w, f.at)
    BY <1>1 DEF Told
  <1>4. PICK a \in completed :
          /\ a < e.at /\ RowNumber(a, e.at) = NumberOfUpdates + 1
          /\ \A t \in completed : a < t /\ t <= e.at => ~IsTrue(w, t)
    BY <1>2, <1>3, TheGoodOne
  <1>5. PICK b \in completed :
          /\ b < f.at /\ RowNumber(b, f.at) = NumberOfUpdates + 1 /\ IsTrue(w, b)
    BY <1>2, <1>3, TheGoodOne
  <1>6. b > e.at
    <2>0. a \in Nat /\ b \in Nat
      BY <1>2
    <2> SUFFICES ASSUME b <= e.at PROVE FALSE
      BY <1>2, <2>0
    <2>1. b <= a
      BY <1>2, <1>4, <1>5, <2>0
    <2> DEFINE A == {x \in CompletedUpTo(e.at) : a <= x}
               B == {x \in CompletedUpTo(f.at) : b <= x}
    <2>2. A \subseteq B /\ f.at \in B /\ f.at \notin A
      <3>1. f.at \in B
        BY <1>2, <1>5 DEF CompletedUpTo
      <3>2. f.at \notin A
        BY <1>2 DEF CompletedUpTo
      <3>3. ASSUME NEW x \in A PROVE x \in B
        <4>1. x \in completed /\ x \in Nat /\ x <= e.at /\ a <= x
          BY <1>2 DEF CompletedUpTo
        <4>2. QED
          BY <1>2, <2>0, <2>1, <4>1 DEF CompletedUpTo
      <3>4. QED
        BY <3>1, <3>2, <3>3
    <2>3. IsFiniteSet(B)
      BY <1>2, RowNumbers, FS_Subset
    <2>4. Cardinality(A) = Cardinality(B)
      BY <1>4, <1>5 DEF RowNumber
    <2>5. A = B
      <3> HIDE DEF A, B
      <3>1. QED
        BY <2>2, <2>3, <2>4, FS_Subset
    <2>6. QED
      BY <2>2, <2>5
  <1>7. b \in Completed(e.at, f.at)
    BY <1>2, <1>5, <1>6 DEF Completed
  <1>8. QED
    BY <1>5, <1>7

LEMMA ToldAtAll == BaseInv /\ Told => OutageTold
  <1> SUFFICES ASSUME BaseInv, Told, NEW w \in Watched, NEW u \in completed, NEW v \in detected,
                      IsTrue(w, u), \A t \in Completed(u, v) : ~IsTrue(w, t),
                      Cardinality(Completed(u, v)) = NumberOfUpdates
               PROVE  [watched |-> w, at |-> v] \in updatesEvents
    BY DEF OutageTold
  <1>1. /\ v \in completed /\ v \in Nat /\ u \in Nat /\ completed \subseteq Nat /\ u \in Update
        /\ NumberOfUpdates \in Nat \ {0}
    BY SetFacts, EventsAssumption
  <1>2. Completed(u, v) \subseteq CompletedUpTo(v)
    BY DEF Completed, CompletedUpTo
  <1>3. IsFiniteSet(CompletedUpTo(v)) /\ IsFiniteSet(Completed(u, v))
    BY <1>1, <1>2, RowNumbers, FS_Subset
  <1>4. u < v
    <2>1. Completed(u, v) # {}
      BY <1>1, FS_EmptySet
    <2>2. PICK t : t \in Completed(u, v)
      BY <2>1
    <2>3. t \in Nat /\ u < t /\ t <= v
      BY <1>1, <2>2 DEF Completed
    <2>4. QED
      BY <1>1, <2>3
  <1>5. RowNumber(u, v) = NumberOfUpdates + 1
    <2>1. {x \in CompletedUpTo(v) : u <= x} = Completed(u, v) \cup {u}
      <3>1. \A x \in completed : x \in Nat
        BY <1>1
      <3>2. u <= v
        BY <1>1, <1>4
      <3>3. \A x \in completed : u <= x <=> u < x \/ x = u
        BY <1>1, <3>1
      <3>4. QED
        BY <3>2, <3>3 DEF CompletedUpTo, Completed
    <2>2. u \notin Completed(u, v)
      BY <1>1 DEF Completed
    <2>3. Cardinality(Completed(u, v) \cup {u}) = NumberOfUpdates + 1
      BY <1>3, <2>2, FS_AddElement
    <2>4. QED
      BY <2>1, <2>3 DEF RowNumber
  <1>6. TrueRows(w, v) = {u}
    <2>1. u \in TrueRows(w, v)
      BY <1>1, <1>4, <1>5 DEF TrueRows, Window, CompletedUpTo, IsTrue
    <2>2. ASSUME NEW t \in TrueRows(w, v) PROVE t = u
      <3>1. /\ t \in CompletedUpTo(v) /\ RowNumber(t, v) <= NumberOfUpdates + 1
            /\ t \in Nat /\ t \in completed /\ t <= v
        BY <1>1 DEF TrueRows, Window, CompletedUpTo
      <3>2. ~(t < u)
        <4>1. u \in CompletedUpTo(v)
          BY <1>1, <1>4 DEF CompletedUpTo
        <4>2. t < u => RowNumber(t, v) > RowNumber(u, v)
          BY <1>1, <3>1, <4>1, RowNumbers
        <4>3. RowNumber(t, v) \in Nat
          BY <1>1, <3>1, RowNumbers
        <4>4. QED
          BY <1>1, <1>5, <3>1, <4>2, <4>3
      <3>3. ~(u < t)
        BY <3>1 DEF Completed, TrueRows, IsTrue
      <3>4. QED
        BY <1>1, <3>1, <3>2, <3>3
    <2>3. QED
      BY <2>1, <2>2
  <1>7. FirstTimeFalse(w, v)
    BY <1>1, <1>5, <1>6 DEF FirstTimeFalse
  <1>8. QED
    BY <1>7 DEF Told
-----------------------------------------------------------------------------
(* The events of the network. *)

\* What was completed and looked at up to an update that was looked at.
LEMMA CompletedStays ==
  ASSUME BaseInv, [Next]_vars, NEW v \in detected, NEW u \in Nat
  PROVE  /\ Completed(u, v)' = Completed(u, v)
         /\ Completed(u, v) \subseteq detected' => Completed(u, v) \subseteq detected
  <1>0. completed \subseteq Nat /\ completed' \subseteq Nat
    BY BaseStep, EventsAssumption DEF BaseInv, TypeOK, Update
  <1>1. Completed(u, v)' = Completed(u, v)
    BY <1>0, PastStays DEF Completed
  <1>2. \A t \in Completed(u, v) : t \in Nat /\ t <= v
    BY <1>0 DEF Completed
  <1>3. QED
    BY <1>1, <1>2, PastStays

\* Where Detect comes in: the update compared with is the one to compare with,
\* or lies between it and the update.
LEMMA DetectFacts ==
  ASSUME BaseInv, Detect, NEW u \in completed, u < update,
         Completed(u, update) \subseteq detected'
  PROVE  LET p == PreviousUpdate(update) IN
         /\ p \in completed /\ u <= p /\ p < update
         /\ u # p => /\ p \in detected
                     /\ Completed(u, p) \subseteq detected
  <1> DEFINE p == PreviousUpdate(update)
  <1>0. /\ update \in completed /\ update \in Nat /\ u \in Nat
        /\ detected' = detected \cup {update}
    BY SetFacts DEF Detect, SaveSucceeded, BaseInv, InOrder
  <1>1. p \in completed /\ p < update /\ u <= p
    BY PreviousFacts DEF Detect, SaveSucceeded, BaseInv, Latest
  <1>3. p \in Nat
    BY <1>1, SetFacts
  <1> HIDE DEF p
  <1>2. ASSUME u # p PROVE p \in detected /\ Completed(u, p) \subseteq detected
    <2>1. p \in Completed(u, update)
      BY <1>0, <1>1, <1>2, <1>3 DEF Completed
    <2>2. Completed(u, p) \subseteq Completed(u, update) /\ update \notin Completed(u, p)
      <3>1. \A x \in completed : x \in Nat
        BY SetFacts
      <3>2. \A x \in completed : x <= p => x < update
        BY <1>0, <1>1, <1>3, <3>1
      <3>3. \A x \in completed : x < update => x <= update
        BY <1>0, <3>1
      <3>4. ~(update <= p)
        BY <1>0, <1>1, <1>3
      <3>5. QED
        BY <3>2, <3>3, <3>4 DEF Completed
    <2>3. QED
      BY <1>0, <1>1, <2>1, <2>2
  <1>4. QED
    BY <1>1, <1>2 DEF p

\* A size that falls is told, by the loss if by nothing else.
LEMMA FallIsTold ==
  ASSUME NEW d \in Dangers, NEW p, NEW n,
         \A s \in Size : p[s] \in Nat /\ n[s] \in Nat,
         p[d.size] > d.threshold, n[d.size] <= d.threshold
  PROVE  \E type \in DetectNetworkEvents(p, n) : type \in d.told
  <1>0. /\ p.blocking \in Nat /\ p.orgBlocking \in Nat /\ p.splitting \in Nat
        /\ p.orgSplitting \in Nat /\ n.blocking \in Nat /\ n.orgBlocking \in Nat
        /\ n.splitting \in Nat /\ n.orgSplitting \in Nat
    BY DEF Size
  <1> DEFINE liveness == FallsTo(0, p.blocking, n.blocking)
             safety == FallsTo(0, p.splitting, n.splitting)
  <1>1. CASE d.size \in {"blocking", "orgBlocking"}
    <2>1. CASE liveness
      <3>1. "NetworkLossOfLiveness" \in DetectNetworkEvents(p, n)
        BY <2>1 DEF DetectNetworkEvents, DetectLivenessEvents, NetworkEvent
      <3>2. QED
        BY <1>1, <3>1 DEF Dangers
    <2>2. CASE ~liveness
      <3>1. CASE d.size = "blocking"
        <4>1. d.threshold = 3 /\ "NetworkNodeLivenessRisk" \in d.told
          BY <1>0, <2>2, <3>1 DEF Dangers, FallsTo
        <4>2. FallsTo(3, p.blocking, n.blocking)
          BY <3>1, <4>1 DEF FallsTo
        <4>3. QED
          BY <2>2, <4>1, <4>2 DEF DetectNetworkEvents, DetectLivenessEvents, NetworkEvent
      <3>2. CASE d.size = "orgBlocking"
        <4>1. d.threshold = 1 /\ "NetworkOrganizationLivenessRisk" \in d.told
          BY <3>2 DEF Dangers
        <4>2. FallsTo(1, p.orgBlocking, n.orgBlocking)
          BY <3>2, <4>1 DEF FallsTo
        <4>3. QED
          BY <2>2, <4>1, <4>2 DEF DetectNetworkEvents, DetectLivenessEvents, NetworkEvent
      <3>3. QED
        BY <1>1, <3>1, <3>2
    <2>3. QED
      BY <2>1, <2>2
  <1>2. CASE d.size \in {"splitting", "orgSplitting"}
    <2>1. CASE safety
      <3>1. "NetworkLossOfSafety" \in DetectNetworkEvents(p, n)
        BY <2>1 DEF DetectNetworkEvents, DetectSafetyEvents, NetworkEvent
      <3>2. QED
        BY <1>2, <3>1 DEF Dangers
    <2>2. CASE ~safety
      <3>1. CASE d.size = "splitting"
        <4>1. d.threshold = 1 /\ "NetworkNodeSafetyRisk" \in d.told
          BY <1>0, <2>2, <3>1 DEF Dangers, FallsTo
        <4>2. FallsTo(1, p.splitting, n.splitting)
          BY <3>1, <4>1 DEF FallsTo
        <4>3. QED
          BY <2>2, <4>1, <4>2 DEF DetectNetworkEvents, DetectSafetyEvents, NetworkEvent
      <3>2. CASE d.size = "orgSplitting"
        <4>1. d.threshold = 1 /\ "NetworkOrganizationSafetyRisk" \in d.told
          BY <3>2 DEF Dangers
        <4>2. FallsTo(1, p.orgSplitting, n.orgSplitting)
          BY <3>2, <4>1 DEF FallsTo
        <4>3. QED
          BY <2>2, <4>1, <4>2 DEF DetectNetworkEvents, DetectSafetyEvents, NetworkEvent
      <3>3. QED
        BY <1>2, <3>1, <3>2
    <2>3. QED
      BY <2>1, <2>2
  <1>3. QED
    BY <1>1, <1>2 DEF Dangers

\* Both properties are about an update u out of danger and an update v looked
\* at: either v was looked at before this step, or this step looks at it.
LEMMA LookedAt ==
  ASSUME BaseInv, [Next]_vars, NEW u \in completed', NEW v \in detected', u < v,
         Completed(u, v)' \subseteq detected'
  PROVE  /\ u \in completed /\ analyses'[u] = analyses[u] /\ analyses'[v] = analyses[v]
         /\ \/ v \in detected /\ Completed(u, v) \subseteq detected
            \/ Detect /\ v = update /\ Completed(u, v) \subseteq detected'
  <1>0. u \in Nat /\ v \in Nat
    BY BaseStep, SetFacts, EventsAssumption DEF BaseInv, TypeOK, Update
  <1>1. CASE v \in detected
    <2>1. u \in completed /\ v \in completed
      BY <1>0, <1>1, PastStays, SetFacts
    <2>2. analyses'[u] = analyses[u] /\ analyses'[v] = analyses[v]
      BY <1>0, <1>1, <2>1, PastStays
    <2>3. Completed(u, v) \subseteq detected
      BY <1>0, <1>1, CompletedStays
    <2>4. QED
      BY <1>1, <2>1, <2>2, <2>3
  <1>2. CASE v \notin detected
    <2>1. Detect
      BY <1>2 DEF Next, CreateMeasurements, CompleteUpdate, UpdateFails, vars, eventVars
    <2>2. v = update /\ completed' = completed /\ analyses' = analyses
      BY <1>2, <2>1 DEF Detect, measurementVars
    <2>3. Completed(u, v)' = Completed(u, v)
      BY <2>2 DEF Completed
    <2>4. QED
      BY <2>1, <2>2, <2>3
  <1>3. QED
    BY <1>1, <1>2

LEMMA EventsStay ==
  [Next]_vars => /\ networkEvents \subseteq networkEvents'
                 /\ quorumSetChanges \subseteq quorumSetChanges'
  BY DEF Next, CreateMeasurements, CompleteUpdate, UpdateFails, Detect, vars, eventVars

LEMMA DangerStep == BaseInv /\ DangerKnown /\ [Next]_vars => DangerKnown'
  <1> SUFFICES ASSUME BaseInv, DangerKnown, [Next]_vars,
                      NEW d \in Dangers, NEW u \in completed', NEW v \in detected',
                      u < v, Completed(u, v)' \subseteq detected',
                      analyses'[u][d.size] > d.threshold, analyses'[v][d.size] <= d.threshold
               PROVE  \E e \in networkEvents' : e.type \in d.told /\ u < e.at /\ e.at <= v
    BY DEF DangerKnown, Dangers
  <1>0. d.size \in Size /\ d.threshold \in Nat
    BY DEF Dangers, Size
  <1>1. u \in completed /\ analyses'[u] = analyses[u] /\ analyses'[v] = analyses[v]
    BY LookedAt
  <1>2. CASE v \in detected /\ Completed(u, v) \subseteq detected
    BY <1>1, <1>2, EventsStay DEF DangerKnown
  <1>3. CASE Detect /\ v = update /\ Completed(u, v) \subseteq detected'
    <2> DEFINE p == PreviousUpdate(update)
    <2>1. /\ p \in completed /\ u <= p /\ p < update
          /\ u # p => p \in detected /\ Completed(u, p) \subseteq detected
      BY <1>1, <1>3, DetectFacts
    <2>2. /\ update \in completed /\ update \in Nat /\ p \in Nat /\ u \in Nat
      BY <1>1, <1>3, <2>1, SetFacts DEF Detect, SaveSucceeded, BaseInv, InOrder
    <2>3. \A s \in Size : analyses[p][s] \in Nat /\ analyses[update][s] \in Nat
      BY <2>1, <2>2, AnalysisType
    <2>4. networkEvents' = networkEvents \cup
            {[type |-> type, at |-> update] :
               type \in DetectNetworkEvents(analyses[p], analyses[update])}
      BY <1>3 DEF Detect
    <2> HIDE DEF p
    <2>5. CASE analyses[p][d.size] > d.threshold
      <3>1. PICK type \in DetectNetworkEvents(analyses[p], analyses[update]) : type \in d.told
        BY <1>1, <1>3, <2>3, <2>5, FallIsTold
      <3>2. [type |-> type, at |-> update] \in networkEvents'
        BY <2>4
      <3>3. QED
        BY <1>3, <2>2, <3>1, <3>2
    <2>6. CASE ~(analyses[p][d.size] > d.threshold)
      <3>1. u # p /\ u < p
        BY <1>1, <2>1, <2>2, <2>6
      <3>2. analyses[p][d.size] <= d.threshold
        BY <1>0, <2>3, <2>6
      <3>3. PICK e \in networkEvents : e.type \in d.told /\ u < e.at /\ e.at <= p
        BY <1>1, <2>1, <3>1, <3>2 DEF DangerKnown
      <3>4. e.at \in Nat
        BY SetFacts DEF BaseInv, TypeOK
      <3>5. QED
        BY <1>3, <2>1, <2>2, <3>3, <3>4, EventsStay
    <2>7. QED
      BY <2>5, <2>6
  <1>4. QED
    BY <1>2, <1>3, LookedAt

LEMMA QuorumSetStep == BaseInv /\ QuorumSetKnown /\ [Next]_vars => QuorumSetKnown'
  <1> SUFFICES ASSUME BaseInv, QuorumSetKnown, [Next]_vars,
                      NEW u \in completed', NEW v \in detected',
                      u < v, Completed(u, v)' \subseteq detected',
                      analyses'[u].quorumSet # analyses'[v].quorumSet
               PROVE  \E c \in quorumSetChanges' :
                        u < c.at /\ c.at <= v /\ c.to = analyses'[v].quorumSet
    BY DEF QuorumSetKnown
  <1>1. u \in completed /\ analyses'[u] = analyses[u] /\ analyses'[v] = analyses[v]
    BY LookedAt
  <1>2. CASE v \in detected /\ Completed(u, v) \subseteq detected
    BY <1>1, <1>2, EventsStay DEF QuorumSetKnown
  <1>3. CASE Detect /\ v = update /\ Completed(u, v) \subseteq detected'
    <2> DEFINE p == PreviousUpdate(update)
               change == [at |-> update, from |-> analyses[p].quorumSet,
                          to |-> analyses[update].quorumSet]
    <2>1. /\ p \in completed /\ u <= p /\ p < update
          /\ u # p => p \in detected /\ Completed(u, p) \subseteq detected
      BY <1>1, <1>3, DetectFacts
    <2>2. /\ update \in Nat /\ p \in Nat /\ u \in Nat
      BY <1>1, <2>1, SetFacts
    <2>3. analyses[p].quorumSet # analyses[update].quorumSet =>
            quorumSetChanges' = quorumSetChanges \cup {change}
      BY <1>3 DEF Detect, DetectTransitiveQuorumSetChangedEvents
    <2> HIDE DEF p
    <2>4. CASE analyses[p].quorumSet # analyses[update].quorumSet
      <3>1. change \in quorumSetChanges'
        BY <2>3, <2>4
      <3>2. QED
        BY <1>1, <1>3, <2>2, <3>1
    <2>5. CASE analyses[p].quorumSet = analyses[update].quorumSet
      <3>1. u # p /\ u < p
        BY <1>1, <1>3, <2>1, <2>2, <2>5
      <3>2. PICK c \in quorumSetChanges : u < c.at /\ c.at <= p /\ c.to = analyses[p].quorumSet
        BY <1>1, <1>3, <2>1, <2>5, <3>1 DEF QuorumSetKnown
      <3>3. c.at \in Nat
        BY SetFacts DEF BaseInv, TypeOK
      <3>4. QED
        BY <1>1, <1>3, <2>1, <2>2, <2>5, <3>2, <3>3, EventsStay
    <2>6. QED
      BY <2>4, <2>5
  <1>4. QED
    BY <1>2, <1>3, LookedAt
-----------------------------------------------------------------------------
LEMMA InvAlways ==
  Spec => [](BaseInv /\ Told /\ DangerKnown /\ QuorumSetKnown)
  <1>1. BaseInv /\ Told /\ DangerKnown /\ QuorumSetKnown /\ [Next]_vars =>
          (BaseInv /\ Told /\ DangerKnown /\ QuorumSetKnown)'
    BY BaseStep, ToldStep, DangerStep, QuorumSetStep
  <1>2. QED
    BY InitInv, <1>1, PTL DEF Spec

\* Every reachable state of Events is well typed.
THEOREM TypeCorrect == Spec => []TypeOK
  <1>1. BaseInv => TypeOK
    BY DEF BaseInv
  <1>2. QED
    BY InvAlways, <1>1, PTL

\* Two events about the same outage never are: between any two about the same
\* thing lies a completed update that measured it as good.
THEOREM OutageToldOnce == Spec => []OncePerOutage
  BY InvAlways, ToldOnce, PTL

\* An outage of x completed updates is told at the last of them.
THEOREM OutageToldAtAll == Spec => []OutageTold
  BY InvAlways, ToldAtAll, PTL

\* A network that got into danger is known to be, as far as its completed
\* updates were looked at.
THEOREM DangerToldAtAll == Spec => []DangerKnown
  BY InvAlways, PTL

\* The changes told lead to the transitive quorum set of the latest update
\* looked at, as far as the updates before it were.
THEOREM QuorumSetTold == Spec => []QuorumSetKnown
  BY InvAlways, PTL
=================================================================================

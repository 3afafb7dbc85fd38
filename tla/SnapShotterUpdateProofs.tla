------------------------ MODULE SnapShotterUpdateProofs ------------------------
(***************************************************************************)
(* What an update leaves behind, for any nodes, organizations and contents *)
(* and any number of updates: it can be read back whole and is never       *)
(* empty, its snapshots record its network, organizations without tracked  *)
(* validators end, and addresses that keep changing are damped.            *)
(***************************************************************************)
EXTENDS SnapShotterRefinement

\* Making a snapshot for an entity without one does not fail.
CreateSaves == "create" \notin FailingWrites

\* The loops lose sight of no node with a snapshot, for where its snapshot is not ended the
\* node has one made anew; and all of them are measured.
AllTracked ==
  /\ phase = "update" /\ kind = "node" => \A r \in ActiveRows("node") :
       r \in todo \cup kept \/ (~ArchiveSaves /\ net["node"][r.id] # NoEntity)
  /\ phase = "create" /\ kind = "node" => \A r \in ActiveRows("node") :
       r.id \in Ids(kept) \/ (~ArchiveSaves /\ r.id \in missing)
  /\ kind = "org" => Ids(ActiveRows("node")) \subseteq tracked
  /\ phase \in {"measureOrgs", "complete"} =>
       \A n \in tracked : \E m \in measured : m.node = n /\ m.time = clock

\* The two halves of CompletedUpdateMeasured.
Measured(i, t) == \E m \in measured : m.node = i /\ m.time = t
ViewMeasured == \A t \in completed : \A v \in View("node", t) : Measured(v.id, t)
Covered(i, t) == \E r \in rows["node"] : r.id = i /\ r.start <= t /\ t <= r.end
MeasuredCovered == \A m \in measured : m.time \in completed => Covered(m.node, m.time)

RInv == VInv /\ AllTracked /\ ViewMeasured /\ MeasuredCovered
-----------------------------------------------------------------------------
LEMMA BothHalves == ViewMeasured /\ MeasuredCovered => CompletedUpdateMeasured
  <1> SUFFICES ASSUME ViewMeasured, MeasuredCovered, NEW t \in completed
               PROVE  /\ \A r \in ActiveAt("node", t) : Measured(r.id, t)
                      /\ \A m \in measured : m.time = t => Covered(m.node, t)
    BY DEF CompletedUpdateMeasured, Measured, Covered
  <1>1. ASSUME NEW r \in ActiveAt("node", t)
        PROVE  Measured(r.id, t)
    <2>1. [id |-> r.id, content |-> r.content] \in View("node", t)
      BY DEF View
    <2>2. Measured([id |-> r.id, content |-> r.content].id, t)
      BY <2>1 DEF ViewMeasured
    <2>3. QED
      BY <2>2
  <1>2. \A m \in measured : m.time = t => Covered(m.node, t)
    BY DEF MeasuredCovered
  <1>3. QED
    BY <1>1, <1>2

LEMMA InitRInv == Init => RInv
  <1> SUFFICES ASSUME Init PROVE RInv
    OBVIOUS
  <1>1. VInv
    BY InitVInv
  <1>2. phase = "idle" /\ kind = "node" /\ completed = {0}
    BY DEF Init
  <1>3. PICK seeds \in SUBSET Node : \E content \in [seeds -> Content] :
          /\ rows["node"] = {[id |-> n, since |-> 0, start |-> 0, end |-> MaxDate,
                              content |-> content[n], ipChange |-> FALSE] : n \in seeds}
          /\ \E up \in SUBSET seeds :
               measured = {[node |-> n, time |-> 0, active |-> n \in up] : n \in seeds}
    BY DEF Init, Kind
  <1>4. PICK content \in [seeds -> Content], up \in SUBSET seeds :
          /\ rows["node"] = {[id |-> n, since |-> 0, start |-> 0, end |-> MaxDate,
                              content |-> content[n], ipChange |-> FALSE] : n \in seeds}
          /\ measured = {[node |-> n, time |-> 0, active |-> n \in up] : n \in seeds}
    BY <1>3
  <1>5. ViewMeasured
    <2> SUFFICES ASSUME NEW v \in View("node", 0) PROVE Measured(v.id, 0)
      BY <1>2 DEF ViewMeasured
    <2>1. PICK n \in seeds : v.id = n
      BY <1>4 DEF View, ActiveAt
    <2>2. [node |-> n, time |-> 0, active |-> n \in up] \in measured
      BY <1>4
    <2>3. QED
      BY <2>1, <2>2 DEF Measured
  <1>6. MeasuredCovered
    <2> SUFFICES ASSUME NEW m \in measured PROVE Covered(m.node, m.time)
      BY DEF MeasuredCovered
    <2>1. m.node \in seeds /\ m.time = 0
      BY <1>4
    <2> DEFINE r == [id |-> m.node, since |-> 0, start |-> 0, end |-> MaxDate,
                     content |-> content[m.node], ipChange |-> FALSE]
    <2>2. r \in rows["node"] /\ r.id = m.node /\ r.start = 0 /\ r.end = MaxDate
      BY <1>4, <2>1
    <2> HIDE DEF r
    <2>3. QED
      BY <2>1, <2>2, TimeFacts DEF Covered
  <1>7. QED
    BY <1>1, <1>2, <1>5, <1>6 DEF RInv, AllTracked

\* What one step of the loop over the nodes leaves in sight.
LEMMA NodesInSight ==
  ASSUME VInv, ArchiveSaves \/ CreateSaves, AllTracked, kind = "node",
         UpdateOrCreateSnapShots, ~SnapShotsDone
  PROVE  /\ phase' = "update" => \A r \in ActiveRows("node")' :
              r \in todo' \cup kept' \/ (~ArchiveSaves /\ net'["node"][r.id] # NoEntity)
         /\ phase' = "create" => \A r \in ActiveRows("node")' :
              r.id \in Ids(kept') \/ (~ArchiveSaves /\ r.id \in missing')
  <1> DEFINE Updating == phase' = "update" /\ \A r \in ActiveRows("node")' :
                r \in todo' \cup kept' \/ (~ArchiveSaves /\ net'["node"][r.id] # NoEntity)
             Creating == phase' = "create" /\ \A r \in ActiveRows("node")' :
                r.id \in Ids(kept') \/ (~ArchiveSaves /\ r.id \in missing')
  <1> USE DEF VInv, TypeInv
  <1>1. CASE LoadActiveSnapShots
    BY <1>1 DEF LoadActiveSnapShots, ActiveRows, dbVars
  <1>2. ASSUME NEW r \in todo, KeepSnapShot(r)
        PROVE  Updating
    BY <1>2 DEF KeepSnapShot, Visiting, AllTracked, ActiveRows, dbVars
  <1>3. ASSUME NEW r \in todo, ArchiveSnapShot(r)
        PROVE  Updating
    <2>1. r \in ActiveRows(kind)
      BY <1>3 DEF ArchiveSnapShot, Visiting, Loops
    <2>2. ActiveRows("node")' = ActiveRows("node") \ {r}
      BY <1>3, <2>1, ActiveAfterEnding DEF ArchiveSnapShot
    <2>3. QED
      BY <1>3, <2>2 DEF ArchiveSnapShot, Visiting, AllTracked
  <1>4. ASSUME NEW r \in todo, ArchiveSnapShotFails(r)
        PROVE  Updating
    BY <1>4 DEF ArchiveSnapShotFails, Visiting, AllTracked, ActiveRows, dbVars, ArchiveSaves
  <1>5. ASSUME NEW r \in replacing, CreateUpdatedSnapShot(r)
        PROVE  Updating
    <2> DEFINE new == NewRow(r.id, r.since, IpPortChanged(r))
    <2>1. r.id \in Id(kind) /\ r.since \in Time /\ IpPortChanged(r) \in BOOLEAN
      BY DEF TypeOK, Row, IpPortChanged
    <2>2. ActiveRows("node")' = ActiveRows("node") \cup {new} /\ kept' = kept \cup {new}
      BY <1>5, <2>1, ActiveAfterAdding DEF CreateUpdatedSnapShot
    <2> HIDE DEF new
    <2>3. QED
      BY <1>5, <2>2 DEF CreateUpdatedSnapShot, AllTracked
  <1>6. CASE CreateUpdatedSnapShotFails
    BY <1>6 DEF CreateUpdatedSnapShotFails, AllTracked, ActiveRows, dbVars
  <1>6a. ASSUME NEW r \in replacing, StoreHomeDomainFails(r)
         PROVE  FALSE
    BY <1>6a DEF StoreHomeDomainFails
  <1>7. CASE GetEntitiesWithoutSnapShots
    <2>1. /\ phase = "update" /\ phase' = "create" /\ todo = {} /\ kept' = kept
          /\ ActiveRows("node")' = ActiveRows("node")
          /\ missing' = {i \in Node : net["node"][i] # NoEntity} \ Ids(kept)
      BY <1>7 DEF GetEntitiesWithoutSnapShots, ActiveRows, dbVars, Id
    <2>2. ASSUME NEW r \in ActiveRows("node")
          PROVE  r.id \in Ids(kept') \/ (~ArchiveSaves /\ r.id \in missing')
      <3>1. r.id \in Node
        BY RowFacts DEF ActiveRows, Kind, Row, Id
      <3>2. CASE r \in kept
        BY <2>1, <3>2 DEF Ids
      <3>3. QED
        BY <2>1, <3>1, <3>2 DEF AllTracked
    <2>3. QED
      BY <2>1, <2>2
  <1>8. ASSUME NEW i \in missing, CreateSnapShot(i)
        PROVE  Creating
    <2>1. /\ i \in Id(kind) /\ clock \in Time /\ phase = "create" /\ UNCHANGED <<phase, kind>>
          /\ missing' = missing \ {i}
      BY <1>8 DEF CreateSnapShot, TypeOK
    <2>2. CASE Insert(NewRow(i, clock, FALSE))
      <3> DEFINE new == NewRow(i, clock, FALSE)
      <3>1. /\ ActiveRows("node")' = ActiveRows("node") \cup {new} /\ kept' = kept \cup {new}
            /\ new.id = i
        BY <2>1, <2>2, ActiveAfterAdding
      <3> HIDE DEF new
      <3>2. Ids(kept') = Ids(kept) \cup {i}
        BY <3>1 DEF Ids
      <3>3. QED
        BY <2>1, <3>1, <3>2 DEF AllTracked
    <2>3. CASE UNCHANGED <<rows, kept>> /\ ArchiveSaves
      BY <2>1, <2>3 DEF AllTracked, ActiveRows
    <2>4. QED
      BY <1>8, <2>2, <2>3 DEF CreateSnapShot, CreateSaves, EntityShouldBeArchived
  <1>9. QED
    BY <1>1, <1>2, <1>3, <1>4, <1>5, <1>6, <1>6a, <1>7, <1>8 DEF UpdateOrCreateSnapShots

LEMMA AllTrackedStep ==
  ASSUME VInv, ArchiveSaves \/ CreateSaves, AllTracked, Next
  PROVE  AllTracked'
  <1> USE DEF VInv, TypeInv
  <1>1. CASE StartUpdate \/ CompleteUpdate \/ AbortSave \/ Crash
    BY <1>1 DEF StartUpdate, CompleteUpdate, AbortSave, Crash, Forget, dbVars, AllTracked
  <1>2. CASE ArchiveNodes
    <2>1. kind' = "node" /\ phase' \notin {"update", "create", "measureOrgs", "complete"}
      BY <1>2 DEF ArchiveNodes, ArchiveInactiveValidators, ArchiveInactiveWatchers,
         ArchiveInactiveWithMultipleIpSamePort, DemoteValidators, LoopsIdle
    <2>2. QED
      BY <2>1 DEF AllTracked
  <1>3. CASE CreateNodeMeasurements
    <2>1. ASSUME NEW n \in tracked
          PROVE  \E m \in measured' : m.node = n /\ m.time = clock
      <3> DEFINE x == [node |-> n, time |-> clock,
                       active |-> net["node"][n] # NoEntity /\ n \in active]
      <3>1. x \in measured' /\ x.node = n /\ x.time = clock
        BY <1>3 DEF CreateNodeMeasurements, MeasuredNodes
      <3> HIDE DEF x
      <3>2. QED
        BY <3>1
    <2>2. UNCHANGED <<rows, kind, tracked, clock>> /\ phase' = "measureOrgs"
      BY <1>3 DEF CreateNodeMeasurements
    <2>3. ActiveRows("node")' = ActiveRows("node")
      BY <2>2 DEF ActiveRows
    <2>4. QED
      BY <2>1, <2>2, <2>3 DEF AllTracked, Ids
  <1>4. CASE CreateOrganizationMeasurements
    BY <1>4 DEF CreateOrganizationMeasurements, AllTracked, ActiveRows
  <1>5. CASE SnapShotsDone
    BY <1>5 DEF SnapShotsDone, AllTracked, ActiveRows, Ids, dbVars, Kind, TypeOK
  <1>6. CASE UpdateOrCreateSnapShots /\ ~SnapShotsDone
    <2>1. /\ kind' = kind /\ tracked' = tracked
          /\ phase' \in {"load", "update", "create"}
      BY <1>6 DEF UpdateOrCreateSnapShots, LoadActiveSnapShots, KeepSnapShot, ArchiveSnapShot,
         ArchiveSnapShotFails, Visiting, CreateUpdatedSnapShot, CreateUpdatedSnapShotFails,
         StoreHomeDomainFails, GetEntitiesWithoutSnapShots, CreateSnapShot
    <2>2. kind = "org" => ActiveRows("node")' = ActiveRows("node")
      BY <1>6, OthersUntouched DEF ActiveRows, Kind
    <2>3. kind' = "org" => Ids(ActiveRows("node"))' \subseteq tracked'
      BY <2>1, <2>2 DEF AllTracked, Ids
    <2>4. Ids(kept)' = Ids(kept')
      BY DEF Ids
    <2>5. QED
      BY <1>6, <2>1, <2>3, <2>4, NodesInSight DEF AllTracked
  <1>7. QED
    BY <1>1, <1>2, <1>3, <1>4, <1>5, <1>6 DEF Next, CreateMeasurements

\* Measurements are never taken back.
LEMMA MeasuredGrows == ASSUME Next PROVE measured \subseteq measured'
  BY DEF Next, StartUpdate, CreateMeasurements, CreateNodeMeasurements,
     CreateOrganizationMeasurements, CompleteUpdate, UpdateOrCreateSnapShots, LoadActiveSnapShots,
     KeepSnapShot, ArchiveSnapShot, ArchiveSnapShotFails, Visiting, CreateUpdatedSnapShot,
     CreateUpdatedSnapShotFails, StoreHomeDomainFails, GetEntitiesWithoutSnapShots,
     CreateSnapShot, SnapShotsDone, ArchiveNodes, ArchiveInactiveValidators, ArchiveInactiveWatchers,
     ArchiveInactiveWithMultipleIpSamePort, DemoteValidators, AbortSave, Crash, Forget, dbVars

\* Only the completion of an update changes which are completed.
LEMMA CompletedStays == ASSUME Next, ~CompleteUpdate PROVE completed' = completed
  BY DEF Next, StartUpdate, CreateMeasurements, CreateNodeMeasurements,
     CreateOrganizationMeasurements, UpdateOrCreateSnapShots, LoadActiveSnapShots,
     KeepSnapShot, ArchiveSnapShot, ArchiveSnapShotFails, Visiting, CreateUpdatedSnapShot,
     CreateUpdatedSnapShotFails, StoreHomeDomainFails, GetEntitiesWithoutSnapShots,
     CreateSnapShot, SnapShotsDone, ArchiveNodes, ArchiveInactiveValidators, ArchiveInactiveWatchers,
     ArchiveInactiveWithMultipleIpSamePort, DemoteValidators, AbortSave, Crash, Forget, dbVars

\* The view of an update that is over stays, and the archiver only takes nodes out of the
\* view of the one it works on.
LEMMA ViewShrinks ==
  ASSUME VInv, Next, ~CompleteUpdate, NEW t \in completed
  PROVE  View("node", t)' \subseteq View("node", t)
  <1> USE DEF VInv, TypeInv
  <1>1. t \in Nat /\ clock \in Nat /\ t <= clock
    BY TimeFacts DEF TypeOK, CompletedTimes
  <1>2. CASE t < clock \/ phase = "idle"
    BY <1>2, ViewUnchanged DEF Kind
  <1>3. CASE t = clock /\ phase # "idle"
    <2>1. phase \in Archiving
      BY <1>3 DEF CompletedTimes, Saving, Archiving, TypeOK
    <2>2. AbortSave \/ Crash \/ ArchiveNodes
      BY <2>1 DEF Next, StartUpdate, CreateMeasurements, CreateNodeMeasurements,
         CreateOrganizationMeasurements, UpdateOrCreateSnapShots, LoadActiveSnapShots,
         KeepSnapShot, ArchiveSnapShot, ArchiveSnapShotFails, Visiting, CreateUpdatedSnapShot,
         CreateUpdatedSnapShotFails, StoreHomeDomainFails, GetEntitiesWithoutSnapShots,
         CreateSnapShot, SnapShotsDone, CompleteUpdate, Archiving
    <2>3. CASE AbortSave \/ Crash \/ ArchiveInactiveValidators \/ DemoteValidators
      <3>1. rows' = rows
        BY <2>3, ValidatorsUntouched DEF AbortSave, Crash, Forget, dbVars
      <3>2. QED
        BY <3>1 DEF View, ActiveAt
    <2>4. CASE ArchiveInactiveWatchers \/ ArchiveInactiveWithMultipleIpSamePort
      <3>1. PICK S : S \subseteq ActiveRows("node") /\ rows' = Ended("node", S) /\ clock' = clock
        BY <2>4 DEF ArchiveInactiveWatchers, ArchiveInactiveWithMultipleIpSamePort
      <3>2. QED
        BY <1>3, <3>1, ViewAfterEnding
    <2>5. QED
      BY <2>2, <2>3, <2>4 DEF ArchiveNodes
  <1>4. QED
    BY <1>1, <1>2, <1>3

LEMMA ViewMeasuredStep ==
  ASSUME RInv, Next
  PROVE  ViewMeasured'
  <1> USE DEF RInv, VInv, TypeInv
  <1>1. CASE ~CompleteUpdate
    BY <1>1, CompletedStays, ViewShrinks, MeasuredGrows DEF ViewMeasured, Measured
  <1>2. CASE CompleteUpdate
    <2>1. /\ completed' = completed \cup {clock} /\ UNCHANGED <<rows, measured>>
          /\ phase = "complete" /\ kind = "org"
      BY <1>2 DEF CompleteUpdate, LoopsIdle
    <2>2. \A t : View("node", t)' = View("node", t)
      BY <2>1 DEF View, ActiveAt
    <2>3. ASSUME NEW v \in View("node", clock)
          PROVE  Measured(v.id, clock)
      <3>1. PICK r \in rows["node"] : r.start <= clock /\ clock < r.end /\ v.id = r.id
        BY DEF View, ActiveAt
      <3>2. "node" \in Kind /\ r.end \in Nat /\ clock \in Nat
        BY RowFacts DEF Kind
      <3>3. r \in ActiveRows("node")
        BY <3>1, <3>2 DEF RowTimes, ActiveRows
      <3>4. QED
        BY <2>1, <3>1, <3>3 DEF AllTracked, Ids, Measured
    <2>4. QED
      BY <2>1, <2>2, <2>3 DEF ViewMeasured, Measured
  <1>3. QED
    BY <1>1, <1>2

\* A snapshot that covers a time goes on to do so.
LEMMA CoveredStays ==
  ASSUME VInv, Next, NEW i, NEW t \in completed, Covered(i, t)
  PROVE  Covered(i, t)'
  <1> USE DEF VInv, TypeInv
  <1>1. PICK r \in rows["node"] : r.id = i /\ r.start <= t /\ t <= r.end
    BY DEF Covered
  <1>2. t <= clock /\ r \in Row("node") /\ "node" \in Kind
    BY RowFacts DEF CompletedTimes, Kind
  <1>3. CASE r \in rows'["node"]
    BY <1>1, <1>3 DEF Covered
  <1>4. CASE Ends /\ r \notin rows'["node"]
    <2>1. PICK k \in Kind, S \in (SUBSET Row("node")) \cup (SUBSET Row("org")) :
            S \subseteq ActiveRows(k) /\ rows' = Ended(k, S)
      BY <1>4 DEF Ends
    <2>2. /\ S \in SUBSET rows[k]
          /\ rows'[k] = (rows[k] \ S) \cup {[x EXCEPT !.end = clock] : x \in S}
          /\ \A j \in Kind : j # k => rows'[j] = rows[j]
      BY <2>1, ActiveRowsType, EndedType
    <2>3. k = "node" /\ r \in S
      BY <1>2, <1>4, <2>2
    <2> DEFINE e == [r EXCEPT !.end = clock]
    <2>4. e \in rows'["node"] /\ e.id = r.id /\ e.start = r.start /\ e.end = clock
      BY <1>2, <2>2, <2>3 DEF Row
    <2> HIDE DEF e
    <2>5. QED
      BY <1>1, <1>2, <2>4 DEF Covered
  <1>5. CASE Adds \/ Leaves
    BY <1>2, <1>3, <1>5, AddsEffect DEF Adds, Leaves
  <1>6. QED
    BY <1>3, <1>4, <1>5, RowsStep

LEMMA MeasuredCoveredStep ==
  ASSUME RInv, Next
  PROVE  MeasuredCovered'
  <1> USE DEF RInv, VInv, TypeInv
  <1>1. SUFFICES ASSUME NEW m \in measured', m.time \in completed'
                 PROVE  Covered(m.node, m.time)'
    BY DEF MeasuredCovered
  <1>2. CASE CompleteUpdate
    <2>1. /\ completed' = completed \cup {clock} /\ UNCHANGED <<rows, measured>>
          /\ phase = "complete" /\ kind = "org"
      BY <1>2 DEF CompleteUpdate, LoopsIdle
    <2>2. CASE m.time \in completed
      BY <1>1, <2>1, <2>2 DEF MeasuredCovered, Covered
    <2>3. CASE m.time = clock
      <3>1. m.node \in Ids(ActiveRows("node"))
        BY <1>1, <2>1, <2>3 DEF TrackedActive
      <3>2. PICK r \in rows["node"] : r.id = m.node /\ r.end = MaxDate
        BY <3>1 DEF Ids, ActiveRows, IsActive
      <3>3. r.start <= clock /\ clock < MaxDate /\ clock \in Nat /\ MaxDate \in Nat
        BY RowFacts DEF RowTimes, Kind
      <3>4. QED
        BY <2>1, <2>3, <3>2, <3>3 DEF Covered
    <2>4. QED
      BY <1>1, <2>1, <2>2, <2>3
  <1>3. CASE ~CompleteUpdate
    <2>1. completed' = completed
      BY <1>3, CompletedStays
    <2>2. CASE m \in measured
      BY <1>1, <2>1, <2>2, CoveredStays DEF MeasuredCovered
    <2>3. CASE m \notin measured
      <3>1. CreateNodeMeasurements
        BY <1>1, <1>3, <2>3 DEF Next, StartUpdate, CreateMeasurements,
           CreateOrganizationMeasurements, UpdateOrCreateSnapShots, LoadActiveSnapShots,
           KeepSnapShot, ArchiveSnapShot, ArchiveSnapShotFails, Visiting, CreateUpdatedSnapShot,
           CreateUpdatedSnapShotFails, StoreHomeDomainFails, GetEntitiesWithoutSnapShots,
           CreateSnapShot, SnapShotsDone, ArchiveNodes, ArchiveInactiveValidators, ArchiveInactiveWatchers,
           ArchiveInactiveWithMultipleIpSamePort, DemoteValidators, AbortSave, Crash, Forget,
           dbVars
      <3>2. m.time = clock /\ phase = "measure"
        BY <1>1, <2>3, <3>1 DEF CreateNodeMeasurements
      <3>3. QED
        BY <1>1, <2>1, <3>2 DEF CompletedTimes, Saving
    <2>4. QED
      BY <2>2, <2>3
  <1>4. QED
    BY <1>2, <1>3

\* A completed update can be read back whole: every node shown of it was measured, and every
\* measured node had a snapshot that reached its time.  Any write may fail, but not both the
\* one that ends a snapshot and the one that makes one for a node without: such a node would
\* keep its snapshot and not be measured.
THEOREM ReadBack == ASSUME ArchiveSaves \/ CreateSaves PROVE Spec => []CompletedUpdateMeasured
  <1>1. RInv /\ [Next]_vars => RInv'
    <2> SUFFICES ASSUME RInv, [Next]_vars PROVE RInv'
      OBVIOUS
    <2>1. VInv'
      BY VStep DEF RInv
    <2>2. CASE Next
      BY <2>1, <2>2, AllTrackedStep, ViewMeasuredStep, MeasuredCoveredStep DEF RInv
    <2>3. CASE UNCHANGED vars
      BY <2>1, <2>3 DEF vars, dbVars, loopVars, RInv, ActiveRows, Ids, AllTracked, ViewMeasured, Measured,
         View, ActiveAt, MeasuredCovered, Covered
    <2>4. QED
      BY <2>2, <2>3
  <1>2. RInv => CompletedUpdateMeasured
    BY BothHalves DEF RInv
  <1>3. QED
    BY <1>1, <1>2, InitRInv, PTL DEF Spec
-----------------------------------------------------------------------------
(* No completed update is empty. *)

\* The nodes that were reached are those of the network, and none of the network is
\* forgotten on its way to being measured.
Reaching ==
  /\ phase \in Saving => active # {} /\ \A n \in active : n \in Node /\ net["node"][n] # NoEntity
  /\ phase = "create" /\ kind = "node" =>
       \A n \in Node : net["node"][n] # NoEntity => n \in missing \/ n \in Ids(kept)
  /\ kind = "org" => \A n \in Node : net["node"][n] # NoEntity => n \in tracked
  /\ phase \in {"measureOrgs", "complete"} \cup Archiving => Reached(clock) # {}

Shown(t) == \A n \in Reached(t) : \E v \in View("node", t) : v.id = n
NonEmpty == \A t \in completed : Shown(t) /\ View("node", t) # {}
HasLast == \E t \in completed : \A u \in completed : u <= t

NInv == VInv /\ Reaching /\ NonEmpty /\ HasLast

LEMMA LastIsCompleted ==
  ASSUME HasLast
  PROVE  LastCompleted \in completed /\ \A u \in completed : u <= LastCompleted
  BY DEF HasLast, LastCompleted

LEMMA NonEmptyIsReadable == HasLast /\ NonEmpty => LatestNetworkReadable
  BY LastIsCompleted DEF NonEmpty, LatestNetworkReadable, View

LEMMA ReachingStep ==
  ASSUME VInv, CreateSaves, Reaching, Next
  PROVE  Reaching'
  <1> USE DEF VInv, TypeInv
  <1>1. CASE StartUpdate
    <2>1. PICK reached \in (SUBSET Node) \ {{}} :
            \E nodes \in CrawledNodes(reached), orgs \in TomlOrganizations :
              /\ net' = [k \in Kind |-> IF k = "node" THEN nodes ELSE orgs]
              /\ active' = reached
      BY <1>1 DEF StartUpdate
    <2>2. PICK nodes \in CrawledNodes(reached) : net'["node"] = nodes /\ active' = reached
      BY <2>1 DEF Kind
    <2>3. \A n \in reached : nodes[n] \in Content
      BY <2>2 DEF CrawledNodes, Sightings
    <2>4. \A n \in reached : n \in Node /\ nodes[n] # NoEntity
      BY <2>3, SnapShotterAssumption
    <2>5. phase' = "load" /\ kind' = "node"
      BY <1>1 DEF StartUpdate
    <2>6. QED
      BY <2>2, <2>4, <2>5 DEF Reaching, Archiving
  <1>2. CASE AbortSave \/ Crash
    BY <1>2 DEF AbortSave, Crash, Forget, Reaching, Saving, Archiving
  <1>3. CASE CompleteUpdate
    BY <1>3 DEF CompleteUpdate, Reaching, Reached, Saving, Archiving
  <1>4. CASE ArchiveNodes
    <2>1. /\ phase \in Archiving /\ phase' \in Archiving \cup {"idle"}
          /\ UNCHANGED <<kind, clock, measured>> /\ kind = "node"
      BY <1>4 DEF ArchiveNodes, ArchiveInactiveValidators, ArchiveInactiveWatchers,
         ArchiveInactiveWithMultipleIpSamePort, DemoteValidators, LoopsIdle, Archiving
    <2>2. QED
      BY <2>1 DEF Reaching, Reached, Saving, Archiving
  <1>5. CASE CreateNodeMeasurements
    <2>1. PICK n \in active : n \in Node /\ net["node"][n] # NoEntity /\ n \in tracked
      BY <1>5 DEF CreateNodeMeasurements, Reaching, Saving, LoopsIdle
    <2> DEFINE x == [node |-> n, time |-> clock,
                     active |-> net["node"][n] # NoEntity /\ n \in active]
    <2>2. x \in measured' /\ x.node = n /\ x.time = clock /\ x.active
      BY <1>5, <2>1 DEF CreateNodeMeasurements, MeasuredNodes
    <2> HIDE DEF x
    <2>3. Reached(clock)' # {}
      BY <1>5, <2>2 DEF CreateNodeMeasurements, Reached
    <2>4. QED
      BY <1>5, <2>3 DEF CreateNodeMeasurements, Reaching, Saving
  <1>6. CASE CreateOrganizationMeasurements
    BY <1>6 DEF CreateOrganizationMeasurements, Reaching, Reached, Saving
  <1>7. CASE SnapShotsDone
    BY <1>7 DEF SnapShotsDone, Reaching, Saving, Archiving
  <1>8. CASE GetEntitiesWithoutSnapShots
    BY <1>8 DEF GetEntitiesWithoutSnapShots, Reaching, Saving, Archiving, Id
  <1>9. ASSUME NEW i \in missing, CreateSnapShot(i)
        PROVE  Reaching'
    <2>1. /\ phase = "create" /\ phase' = "create" /\ UNCHANGED <<kind, net, active, tracked>>
          /\ missing' = missing \ {i}
      BY <1>9 DEF CreateSnapShot
    <2>2. CASE kind = "node"
      <3>1. Insert(NewRow(i, clock, FALSE))
        BY <1>9, <2>2 DEF CreateSnapShot, EntityShouldBeArchived, CreateSaves
      <3>2. NewRow(i, clock, FALSE) \in kept' /\ kept \subseteq kept' /\ NewRow(i, clock, FALSE).id = i
        BY <3>1 DEF Insert, NewRow
      <3>3. i \in Ids(kept') /\ Ids(kept) \subseteq Ids(kept')
        BY <3>2 DEF Ids
      <3>4. Ids(kept)' = Ids(kept')
        BY DEF Ids
      <3>5. QED
        BY <2>1, <2>2, <3>3, <3>4 DEF Reaching, Saving, Archiving
    <2>3. CASE kind # "node"
      BY <2>1, <2>3 DEF Reaching, Saving, Archiving
    <2>4. QED
      BY <2>2, <2>3
  <1>10. CASE \/ LoadActiveSnapShots
              \/ \E r \in todo : KeepSnapShot(r) \/ ArchiveSnapShot(r) \/ ArchiveSnapShotFails(r)
              \/ \E r \in replacing : CreateUpdatedSnapShot(r) \/ StoreHomeDomainFails(r)
              \/ CreateUpdatedSnapShotFails
    <2>1. /\ phase \in Saving /\ phase' = "update" /\ UNCHANGED <<kind, net, active, tracked>>
      BY <1>10 DEF LoadActiveSnapShots, KeepSnapShot, ArchiveSnapShot, ArchiveSnapShotFails,
         Visiting, CreateUpdatedSnapShot, CreateUpdatedSnapShotFails, StoreHomeDomainFails,
         Saving
    <2>2. QED
      BY <2>1 DEF Reaching, Saving, Archiving
  <1>11. QED
    BY <1>1, <1>2, <1>3, <1>4, <1>5, <1>6, <1>7, <1>8, <1>9, <1>10
       DEF Next, CreateMeasurements, UpdateOrCreateSnapShots

LEMMA HasLastStep == ASSUME VInv, HasLast, Next PROVE HasLast'
  <1>1. \A t \in completed : t \in Nat /\ t <= clock /\ clock \in Nat
    BY TimeFacts DEF VInv, TypeInv, TypeOK, CompletedTimes
  <1>2. CASE CompleteUpdate
    BY <1>1, <1>2 DEF CompleteUpdate, HasLast
  <1>3. CASE ~CompleteUpdate
    BY <1>3, CompletedStays DEF HasLast
  <1>4. QED
    BY <1>2, <1>3

\* The archiver spares the nodes that were reached.
LEMMA ReachedStays ==
  ASSUME VInv, Next, ~CompleteUpdate, NEW t \in completed, Shown(t)
  PROVE  Shown(t)' /\ Reached(t)' = Reached(t)
  <1> USE DEF VInv, TypeInv
  <1>1. t \in Nat /\ clock \in Nat /\ t <= clock
    BY TimeFacts DEF TypeOK, CompletedTimes
  <1>2. Reached(t)' = Reached(t)
    <2>1. CASE CreateNodeMeasurements
      <3>1. t # clock
        BY <2>1 DEF CreateNodeMeasurements, CompletedTimes, Saving
      <3>2. \A m : m.time = t => (m \in measured' <=> m \in measured)
        BY <2>1, <3>1 DEF CreateNodeMeasurements
      <3>3. QED
        BY <3>2 DEF Reached
    <2>2. CASE ~CreateNodeMeasurements
      <3>1. measured' = measured
        BY <2>2 DEF Next, StartUpdate, CreateMeasurements,
           CreateOrganizationMeasurements, CompleteUpdate, UpdateOrCreateSnapShots,
           LoadActiveSnapShots, KeepSnapShot, ArchiveSnapShot, ArchiveSnapShotFails, Visiting,
           CreateUpdatedSnapShot, CreateUpdatedSnapShotFails, StoreHomeDomainFails,
           GetEntitiesWithoutSnapShots, CreateSnapShot, SnapShotsDone, ArchiveNodes, ArchiveInactiveValidators,
           ArchiveInactiveWatchers, ArchiveInactiveWithMultipleIpSamePort, DemoteValidators,
           AbortSave, Crash, Forget, dbVars
      <3>2. QED
        BY <3>1 DEF Reached
    <2>3. QED
      BY <2>1, <2>2
  <1>3. CASE t < clock \/ phase = "idle"
    BY <1>2, <1>3, ViewUnchanged DEF Kind, Shown
  <1>4. CASE t = clock /\ phase # "idle"
    <2>1. phase \in Archiving
      BY <1>4 DEF CompletedTimes, Saving, Archiving, TypeOK
    <2>2. AbortSave \/ Crash \/ ArchiveNodes
      BY <2>1 DEF Next, StartUpdate, CreateMeasurements, CreateNodeMeasurements,
         CreateOrganizationMeasurements, UpdateOrCreateSnapShots, LoadActiveSnapShots,
         KeepSnapShot, ArchiveSnapShot, ArchiveSnapShotFails, Visiting, CreateUpdatedSnapShot,
         CreateUpdatedSnapShotFails, StoreHomeDomainFails, GetEntitiesWithoutSnapShots,
         CreateSnapShot, SnapShotsDone, CompleteUpdate, Archiving
    <2>3. CASE AbortSave \/ Crash \/ ArchiveInactiveValidators \/ DemoteValidators
      <3>1. rows' = rows
        BY <2>3, ValidatorsUntouched DEF AbortSave, Crash, Forget, dbVars
      <3>2. View("node", t)' = View("node", t)
        BY <3>1 DEF View, ActiveAt
      <3>3. QED
        BY <1>2, <3>2 DEF Shown
    <2>4. CASE ArchiveInactiveWatchers \/ ArchiveInactiveWithMultipleIpSamePort
      <3>1. PICK S : /\ S \subseteq ActiveRows("node") /\ rows' = Ended("node", S)
                     /\ clock' = clock
                     /\ \A r \in S : r.id \in InactiveNow \cup FindXDaysInactive(WatcherDays)
        BY <2>4 DEF ArchiveInactiveWatchers, ArchiveInactiveWithMultipleIpSamePort
      <3>2. \A v \in View("node", clock) \ View("node", clock)' : v.id \notin Reached(clock)
        BY <1>4, <3>1, ViewAfterEnding, InactiveNotReached
      <3>3. View("node", clock)' = View("node", t)'
        BY <1>4, <3>1 DEF View, ActiveAt
      <3>4. QED
        BY <1>2, <1>4, <3>2, <3>3 DEF Shown
    <2>5. QED
      BY <2>2, <2>3, <2>4 DEF ArchiveNodes
  <1>5. QED
    BY <1>1, <1>2, <1>3, <1>4

LEMMA NonEmptyStep == ASSUME NInv, Next PROVE NonEmpty'
  <1> USE DEF NInv, VInv, TypeInv
  <1>1. CASE CompleteUpdate
    <2>1. /\ completed' = completed \cup {clock} /\ UNCHANGED <<rows, measured>>
          /\ phase = "complete" /\ kind = "org"
      BY <1>1 DEF CompleteUpdate, LoopsIdle
    <2>2. \A t : View("node", t)' = View("node", t) /\ Reached(t)' = Reached(t)
      BY <2>1 DEF View, ActiveAt, Reached
    <2>3. Shown(clock)
      <3> SUFFICES ASSUME NEW n \in Reached(clock)
                   PROVE  \E v \in View("node", clock) : v.id = n
        BY DEF Shown
      <3>1. n \in tracked
        BY <2>1 DEF Reached, TrackedActive
      <3>2. PICK r \in rows["node"] : r.id = n /\ r.end = MaxDate
        BY <2>1, <3>1 DEF TrackedActive, Ids, ActiveRows, IsActive
      <3>3. r.start <= clock /\ clock < r.end
        BY <3>2, RowFacts DEF RowTimes, Kind
      <3>4. [id |-> r.id, content |-> r.content] \in View("node", clock)
        BY <3>3 DEF View, ActiveAt
      <3>5. QED
        BY <3>2, <3>4
    <2>4. View("node", clock) # {}
      BY <2>1, <2>3 DEF Reaching, Shown
    <2>5. QED
      BY <2>1, <2>2, <2>3, <2>4 DEF NonEmpty, Shown
  <1>2. CASE ~CompleteUpdate
    <2>1. completed' = completed
      BY <1>2, CompletedStays
    <2>2. ASSUME NEW t \in completed
          PROVE  Shown(t)' /\ View("node", t)' # {}
      <3>1. Shown(t)' /\ Reached(t)' = Reached(t)
        BY <1>2, ReachedStays DEF NonEmpty
      <3>2. CASE t < clock \/ phase = "idle"
        BY <3>1, <3>2, ViewUnchanged DEF Kind, NonEmpty
      <3>3. CASE ~(t < clock \/ phase = "idle")
        <4>1. t = clock /\ phase \in Archiving
          BY <3>3, TimeFacts DEF CompletedTimes, Saving, Archiving, TypeOK
        <4>2. Reached(t) # {}
          BY <4>1 DEF Reaching
        <4>3. QED
          BY <3>1, <4>2 DEF Shown
      <3>4. QED
        BY <3>2, <3>3
    <2>3. QED
      BY <2>1, <2>2 DEF NonEmpty, Shown
  <1>3. QED
    BY <1>1, <1>2

LEMMA InitNInv == Init => NInv
  <1> SUFFICES ASSUME Init PROVE NInv
    OBVIOUS
  <1>1. VInv
    BY InitVInv
  <1>2. phase = "idle" /\ kind = "node" /\ completed = {0}
    BY DEF Init
  <1>3. Reaching /\ HasLast
    BY <1>2 DEF Reaching, HasLast, Saving, Archiving
  <1>4. Shown(0)
    BY <1>2, InitHistory DEF Shown, History!Init, History!Complete, NetworkAt
  <1>5. View("node", 0) # {}
    <2>1. PICK seeds \in (SUBSET Node) \ {{}} : \E content \in [seeds -> Content] :
            rows["node"] = {[id |-> n, since |-> 0, start |-> 0, end |-> MaxDate,
                             content |-> content[n], ipChange |-> FALSE] : n \in seeds}
      BY DEF Init, Kind
    <2>2. PICK content \in [seeds -> Content] :
            rows["node"] = {[id |-> n, since |-> 0, start |-> 0, end |-> MaxDate,
                             content |-> content[n], ipChange |-> FALSE] : n \in seeds}
      BY <2>1
    <2>3. PICK n \in seeds : TRUE
      BY <2>1
    <2> DEFINE x == [id |-> n, since |-> 0, start |-> 0, end |-> MaxDate,
                     content |-> content[n], ipChange |-> FALSE]
    <2>4. x \in rows["node"] /\ x.start = 0 /\ x.end = MaxDate
      BY <2>2, <2>3
    <2> HIDE DEF x
    <2>5. PICK r \in rows["node"] : r.start = 0 /\ r.end = MaxDate
      BY <2>4
    <2>6. r \in ActiveAt("node", 0)
      BY <2>5, TimeFacts DEF ActiveAt
    <2>7. QED
      BY <2>6 DEF View
  <1>6. QED
    BY <1>1, <1>2, <1>3, <1>4, <1>5 DEF NInv, NonEmpty

\* The latest network always holds a node, so that the next update has one to start from, as
\* long as making a snapshot for a node without one does not fail; the other writes may.
THEOREM NeverEmpty == ASSUME CreateSaves PROVE Spec => []LatestNetworkReadable
  <1>1. NInv /\ [Next]_vars => NInv'
    <2> SUFFICES ASSUME NInv, [Next]_vars PROVE NInv'
      OBVIOUS
    <2>1. VInv'
      BY VStep DEF NInv
    <2>2. CASE Next
      BY <2>1, <2>2, ReachingStep, NonEmptyStep, HasLastStep DEF NInv
    <2>3. CASE UNCHANGED vars
      BY <2>1, <2>3 DEF vars, dbVars, loopVars, NInv, Reaching, Reached, NonEmpty, Shown, HasLast, View,
         ActiveAt, Ids
    <2>4. QED
      BY <2>2, <2>3
  <1>2. NInv => LatestNetworkReadable
    BY NonEmptyIsReadable DEF NInv
  <1>3. QED
    BY <1>1, <1>2, InitNInv, PTL DEF Spec
-----------------------------------------------------------------------------
(* Organizations without tracked validators end. *)

\* An organization known since the last completed update is in the network, and is only
\* kept for a validator that is tracked.
OrgsKept ==
  /\ phase \in {"load", "update", "create"} => \A r \in ActiveRows("org") :
       r.start <= LastCompleted => net["org"][r.id] # NoEntity
  /\ kind = "org" /\ phase \in {"update", "create"} => \A r \in kept :
       r.start <= LastCompleted => r.content \cap tracked # {}

\* Every snapshot from before this update that is active is still to be visited or is kept,
\* and is kept by the time the loops create new ones.
AllKept ==
  /\ phase = "update" => \A r \in ActiveRows(kind) : r.start < clock => r \in todo \cup kept
  /\ phase = "create" => \A r \in ActiveRows(kind) : r.start < clock => r \in kept

UInv == VInv /\ AllKept /\ HasLast /\ OrgsKept /\ UntrackedOrganizationEnds

\* While an update is saved its time is later than that of the last one.
LEMMA SavedIsLater ==
  ASSUME VInv, HasLast, phase \in Saving
  PROVE  LastCompleted \in Nat /\ clock \in Nat /\ LastCompleted < clock
  <1>1. \A t \in completed : t \in Nat /\ t <= clock /\ t # clock /\ clock \in Nat
    BY TimeFacts DEF VInv, TypeInv, TypeOK, CompletedTimes
  <1>2. QED
    BY <1>1, LastIsCompleted

LEMMA LastStays == ASSUME completed' = completed PROVE LastCompleted' = LastCompleted
  BY DEF LastCompleted

\* What is active after a step was so before, or starts now.
LEMMA ActiveOrNew ==
  ASSUME VInv, Next, NEW k \in Kind, NEW r \in ActiveRows(k)'
  PROVE  r \in ActiveRows(k) \/ r.start = clock
  <1> USE DEF VInv, TypeInv
  <1>1. r \in rows'[k] /\ r.end = MaxDate /\ clock # MaxDate
    BY TimeFacts DEF ActiveRows, IsActive, TypeOK
  <1>2. CASE Ends
    <2>1. PICK l \in Kind, S \in (SUBSET Row("node")) \cup (SUBSET Row("org")) :
            S \subseteq ActiveRows(l) /\ rows' = Ended(l, S)
      BY <1>2 DEF Ends
    <2>2. r \in rows[k]
      BY <1>1, <2>1, EndsEffect
    <2>3. QED
      BY <1>1, <2>2 DEF ActiveRows, IsActive
  <1>3. CASE Adds
    <2>1. PICK i \in Id(kind), b \in Time, c \in BOOLEAN :
            rows' = [rows EXCEPT ![kind] = @ \cup {NewRow(i, b, c)}]
      BY <1>3 DEF Adds
    <2>2. r \in rows[k] \/ r = NewRow(i, b, c)
      BY <1>1, <2>1, AddsEffect
    <2>3. QED
      BY <1>1, <2>2 DEF ActiveRows, IsActive, NewRow
  <1>4. CASE Leaves
    BY <1>1, <1>4 DEF Leaves, ActiveRows, IsActive
  <1>5. QED
    BY <1>2, <1>3, <1>4, RowsStep

LEMMA AllKeptStep ==
  ASSUME VInv, ArchiveSaves, AllKept, Next
  PROVE  AllKept'
  <1> USE DEF VInv, TypeInv
  <1>1. CASE LoadActiveSnapShots
    BY <1>1 DEF LoadActiveSnapShots, ActiveRows, dbVars, AllKept
  <1>2. CASE UpdateOrCreateSnapShots /\ ~LoadActiveSnapShots /\ ~SnapShotsDone
    <2>1. /\ UNCHANGED <<clock, kind>> /\ kind \in Kind
          /\ phase \in {"update", "create"} /\ phase' \in {"update", "create"}
      BY <1>2 DEF UpdateOrCreateSnapShots, KeepSnapShot, ArchiveSnapShot, ArchiveSnapShotFails,
         Visiting, CreateUpdatedSnapShot, CreateUpdatedSnapShotFails, StoreHomeDomainFails,
         GetEntitiesWithoutSnapShots, CreateSnapShot, TypeOK
    <2>2. \A r \in ActiveRows(kind)' : r.start < clock => r \in ActiveRows(kind)
      <3>1. clock \in Nat
        BY TimeFacts DEF TypeOK
      <3>2. QED
        BY <1>2, <2>1, <3>1, ActiveOrNew DEF Next
    <2>3. CASE GetEntitiesWithoutSnapShots
      BY <2>1, <2>2, <2>3 DEF GetEntitiesWithoutSnapShots, AllKept
    <2>4. ASSUME NEW r \in todo, KeepSnapShot(r)
          PROVE  AllKept'
      BY <2>1, <2>2, <2>4 DEF KeepSnapShot, Visiting, AllKept
    <2>5. ASSUME NEW r \in todo, ArchiveSnapShot(r)
          PROVE  AllKept'
      <3>1. r \in ActiveRows(kind)
        BY <2>5 DEF ArchiveSnapShot, Visiting, Loops
      <3>2. ActiveRows(kind)' = ActiveRows(kind) \ {r}
        BY <2>5, <3>1, ActiveAfterEnding DEF ArchiveSnapShot
      <3>3. QED
        BY <2>1, <2>5, <3>2 DEF ArchiveSnapShot, Visiting, AllKept
    <2>6. ASSUME NEW r \in todo, ArchiveSnapShotFails(r)
          PROVE  FALSE
      BY <2>6 DEF ArchiveSnapShotFails, ArchiveSaves
    <2>7. CASE \/ CreateUpdatedSnapShotFails
               \/ \E r \in replacing : CreateUpdatedSnapShot(r) \/ StoreHomeDomainFails(r)
      <3>1. phase = "update" /\ phase' = "update" /\ todo' = todo /\ kept \subseteq kept'
        BY <2>7 DEF CreateUpdatedSnapShotFails, CreateUpdatedSnapShot, StoreHomeDomainFails,
           Insert
      <3>2. QED
        BY <2>1, <2>2, <3>1 DEF AllKept
    <2>8. ASSUME NEW i \in missing, CreateSnapShot(i)
          PROVE  AllKept'
      <3>1. phase = "create" /\ phase' = "create" /\ kept \subseteq kept'
        BY <2>8 DEF CreateSnapShot, Insert
      <3>2. QED
        BY <2>1, <2>2, <3>1 DEF AllKept
    <2>9. QED
      BY <1>2, <2>3, <2>4, <2>5, <2>6, <2>7, <2>8 DEF UpdateOrCreateSnapShots
  <1>3. CASE phase' \notin {"update", "create"}
    BY <1>3 DEF AllKept
  <1>4. CASE SnapShotsDone \/ StartUpdate \/ CreateMeasurements \/ ArchiveNodes \/ AbortSave \/ Crash
    <2>1. phase' \notin {"update", "create"}
      BY <1>4 DEF SnapShotsDone, StartUpdate, CreateMeasurements, CreateNodeMeasurements,
         CreateOrganizationMeasurements, CompleteUpdate, ArchiveNodes, ArchiveInactiveValidators,
         ArchiveInactiveWatchers, ArchiveInactiveWithMultipleIpSamePort, DemoteValidators,
         AbortSave, Crash, Forget
    <2>2. QED
      BY <1>3, <2>1
  <1>5. QED
    BY <1>1, <1>2, <1>4 DEF Next

LEMMA OrgsKeptStep ==
  ASSUME UInv, Next
  PROVE  OrgsKept' /\ UntrackedOrganizationEnds'
  <1> USE DEF UInv, VInv, TypeInv
  <1>k. "org" \in Kind
    BY DEF Kind
  <1>1. CASE StartUpdate
    <2>1. PICK orgs \in TomlOrganizations : net'["org"] = orgs
      BY <1>1 DEF StartUpdate, Kind
    <2>2. /\ phase' = "load" /\ UNCHANGED <<rows, completed>> /\ LastCompleted' = LastCompleted
      BY <1>1, LastStays DEF StartUpdate, dbVars
    <2>3. ASSUME NEW r \in ActiveRows("org"), r.start <= LastCompleted
          PROVE  orgs[r.id] # NoEntity
      <3>1. LastCompleted \in Time
        BY LastIsCompleted DEF TypeOK
      <3>2. r \in ActiveAt("org", LastCompleted)
        BY <2>3, <3>1, TimeFacts DEF ActiveAt, ActiveRows, IsActive
      <3>3. QED
        BY <2>1, <3>2 DEF TomlOrganizations, Ids
    <2>4. ActiveRows("org")' = ActiveRows("org")
      BY <2>2 DEF ActiveRows
    <2>5. QED
      BY <2>1, <2>2, <2>3, <2>4 DEF OrgsKept, UntrackedOrganizationEnds
  <1>2. CASE CreateMeasurements \/ ArchiveNodes \/ AbortSave \/ Crash
    <2>1. phase' \notin {"load", "update", "create", "measure"}
      BY <1>2 DEF CreateMeasurements, CreateNodeMeasurements,
         CreateOrganizationMeasurements, CompleteUpdate, ArchiveNodes, ArchiveInactiveValidators,
         ArchiveInactiveWatchers, ArchiveInactiveWithMultipleIpSamePort, DemoteValidators,
         AbortSave, Crash, Forget
    <2>2. QED
      BY <2>1 DEF OrgsKept, UntrackedOrganizationEnds
  <1>3. CASE UpdateOrCreateSnapShots
    <2>1. /\ UNCHANGED <<net, completed, clock>> /\ LastCompleted' = LastCompleted
          /\ phase \in {"load", "update", "create"}
      BY <1>3, LastStays DEF UpdateOrCreateSnapShots, LoadActiveSnapShots, KeepSnapShot,
         ArchiveSnapShot, ArchiveSnapShotFails, Visiting, CreateUpdatedSnapShot,
         CreateUpdatedSnapShotFails, StoreHomeDomainFails, GetEntitiesWithoutSnapShots,
         CreateSnapShot, SnapShotsDone, dbVars
    <2>2. LastCompleted < clock /\ LastCompleted \in Nat /\ clock \in Nat
      BY <2>1, SavedIsLater DEF Saving
    <2>3. \A r \in ActiveRows("org")' : r.start <= LastCompleted =>
            net["org"][r.id] # NoEntity
      BY <1>k, <2>1, <2>2, ActiveOrNew DEF OrgsKept
    <2>4. CASE LoadActiveSnapShots
      BY <2>1, <2>3, <2>4 DEF LoadActiveSnapShots, OrgsKept, UntrackedOrganizationEnds
    <2>5. ASSUME NEW r \in todo, KeepSnapShot(r)
          PROVE  OrgsKept' /\ UntrackedOrganizationEnds'
      <3>1. /\ phase' = "update" /\ kind' = kind /\ tracked' = tracked
            /\ kept' = kept \cup {r} /\ phase = "update" /\ r \in ActiveRows(kind)
        BY <2>5 DEF KeepSnapShot, Visiting, Loops
      <3>2. kind = "org" /\ r.start <= LastCompleted => r.content \cap tracked # {}
        BY <2>5, <3>1 DEF KeepSnapShot, OrgsKept, EntityShouldBeArchived,
           EntityChangeShouldBeIgnored, IpPortChanged, HasEntityChanged
      <3>3. QED
        BY <2>1, <2>3, <3>1, <3>2 DEF OrgsKept, UntrackedOrganizationEnds
    <2>6. ASSUME NEW r, ArchiveSnapShot(r) \/ ArchiveSnapShotFails(r)
          PROVE  OrgsKept' /\ UntrackedOrganizationEnds'
      <3>1. /\ phase' = "update" /\ UNCHANGED <<kind, tracked, kept>> /\ phase = "update"
        BY <2>6 DEF ArchiveSnapShot, ArchiveSnapShotFails, Visiting
      <3>2. QED
        BY <2>1, <2>3, <3>1 DEF OrgsKept, UntrackedOrganizationEnds
    <2>7. ASSUME NEW r \in replacing, CreateUpdatedSnapShot(r)
          PROVE  OrgsKept' /\ UntrackedOrganizationEnds'
      <3> DEFINE new == NewRow(r.id, r.since, IpPortChanged(r))
      <3>1. /\ phase' = "update" /\ UNCHANGED <<kind, tracked>> /\ phase = "update"
            /\ kept' = kept \cup {new} /\ new.start = clock
        BY <2>7 DEF CreateUpdatedSnapShot, Insert, NewRow
      <3> HIDE DEF new
      <3>2. QED
        BY <2>1, <2>2, <2>3, <3>1 DEF OrgsKept, UntrackedOrganizationEnds
    <2>8. CASE CreateUpdatedSnapShotFails \/ \E r \in replacing : StoreHomeDomainFails(r)
      BY <2>1, <2>3, <2>8 DEF CreateUpdatedSnapShotFails, StoreHomeDomainFails, OrgsKept,
         UntrackedOrganizationEnds
    <2>9. CASE GetEntitiesWithoutSnapShots
      <3>1. /\ phase' = "create" /\ UNCHANGED <<kind, tracked, kept, rows>> /\ phase = "update"
            /\ todo = {}
        BY <2>9 DEF GetEntitiesWithoutSnapShots, dbVars
      <3>2. QED
        BY <2>1, <2>3, <3>1 DEF OrgsKept, UntrackedOrganizationEnds
    <2>10. ASSUME NEW i \in missing, CreateSnapShot(i)
           PROVE  OrgsKept' /\ UntrackedOrganizationEnds'
      <3>1. /\ phase' = "create" /\ UNCHANGED <<kind, tracked>> /\ phase = "create"
            /\ i \in Id(kind)
        BY <2>10 DEF CreateSnapShot, TypeOK
      <3>2. \A r \in kept' : r \in kept \/ r.start = clock
        BY <2>10 DEF CreateSnapShot, Insert, NewRow
      <3>3. QED
        BY <2>1, <2>2, <2>3, <3>1, <3>2 DEF OrgsKept, UntrackedOrganizationEnds
    <2>11. CASE SnapShotsDone
      <3>1. CASE kind = "node"
        BY <2>1, <2>3, <2>11, <3>1 DEF SnapShotsDone, OrgsKept, UntrackedOrganizationEnds
      <3>2. CASE kind = "org"
        <4>1. /\ phase' = "measure" /\ UNCHANGED <<tracked, kept, rows>> /\ phase = "create"
          BY <2>11, <3>2 DEF SnapShotsDone, dbVars
        <4>2. \A r \in ActiveRows("org")' : r.start < clock => r \in kept
          BY <3>2, <4>1 DEF AllKept, ActiveRows
        <4>3. \A r \in ActiveRows("org")' : r.start <= LastCompleted => r.start < clock
          <5>1. \A r \in rows'["org"] : r.start \in Nat
            BY <1>k, <4>1, RowFacts
          <5>2. QED
            BY <2>2, <5>1 DEF ActiveRows
        <4>4. QED
          BY <2>1, <3>2, <4>1, <4>2, <4>3 DEF OrgsKept, UntrackedOrganizationEnds
      <3>3. QED
        BY <3>1, <3>2 DEF TypeOK, Kind
    <2>12. QED
      BY <1>3, <2>4, <2>5, <2>6, <2>7, <2>8, <2>9, <2>10, <2>11 DEF UpdateOrCreateSnapShots
  <1>4. QED
    BY <1>1, <1>2, <1>3 DEF Next

\* An organization none of whose validators is tracked any more ends with the next completed
\* update, as long as ending a snapshot does not fail.
THEOREM UntrackedEnds == ASSUME ArchiveSaves PROVE Spec => []UntrackedOrganizationEnds
  <1>1. UInv /\ [Next]_vars => UInv'
    <2> SUFFICES ASSUME UInv, [Next]_vars PROVE UInv'
      OBVIOUS
    <2>1. VInv'
      BY VStep DEF UInv
    <2>2. CASE Next
      BY <2>1, <2>2, AllKeptStep, HasLastStep, OrgsKeptStep DEF UInv
    <2>3. CASE UNCHANGED vars
      BY <2>1, <2>3 DEF vars, dbVars, loopVars, UInv, HasLast, OrgsKept, AllKept, ActiveRows, Ids,
         UntrackedOrganizationEnds, LastCompleted
    <2>4. QED
      BY <2>2, <2>3
  <1>2. Init => UInv
    BY InitNInv DEF NInv, UInv, Init, AllKept, OrgsKept, UntrackedOrganizationEnds
  <1>3. QED
    BY <1>1, <1>2, PTL DEF Spec, UInv
-----------------------------------------------------------------------------
(* The snapshots of an update record its network. *)

\* Snapshot r is what the loops make of its entity, in table k.
Recorded(k, r) ==
  \/ r.content = net[k][r.id]
  \/ /\ k = "node" /\ r.ipChange /\ clock - r.start <= DayLength
     /\ r.content.address # net[k][r.id].address
ToRecord(k, i) == net[k][i] # NoEntity /\ (k = "org" => net[k][i] \cap tracked # {})
AllRecorded(k) ==
  \A i \in Id(k) : ToRecord(k, i) => \E r \in ActiveRows(k) : r.id = i /\ Recorded(k, r)

\* What the loops have kept is recorded, what they have not is still missing, and the
\* nodes stay as they are while the organizations are recorded.
Recording ==
  /\ phase \in {"update", "create"} =>
       \A r \in kept : net[kind][r.id] # NoEntity => Recorded(kind, r)
  /\ phase = "create" => \A i \in Id(kind) : ToRecord(kind, i) => i \in missing \/ i \in Ids(kept)
  /\ kind = "org" /\ phase \in {"load", "update", "create", "measure"} => AllRecorded("node")
  /\ phase = "measure" => AllRecorded("org")

LEMMA RecordingStep ==
  ASSUME VInv, CreateSaves, Recording, Next
  PROVE  Recording'
  <1> USE DEF VInv, TypeInv
  <1>1. CASE StartUpdate \/ CreateMeasurements \/ ArchiveNodes \/ AbortSave \/ Crash
    <2>1. /\ phase' \notin {"update", "create", "measure"}
          /\ phase' = "load" => kind' = "node"
      BY <1>1 DEF StartUpdate, CreateMeasurements, CreateNodeMeasurements,
         CreateOrganizationMeasurements, CompleteUpdate, ArchiveNodes, ArchiveInactiveValidators,
         ArchiveInactiveWatchers, ArchiveInactiveWithMultipleIpSamePort, DemoteValidators,
         AbortSave, Crash, Forget
    <2>2. QED
      BY <2>1 DEF Recording
  <1>2. CASE UpdateOrCreateSnapShots /\ ~SnapShotsDone
    <2>1. /\ UNCHANGED <<net, clock, kind, tracked>>
          /\ phase \in {"load", "update", "create"} /\ phase' \in {"update", "create"}
      BY <1>2 DEF UpdateOrCreateSnapShots, LoadActiveSnapShots, KeepSnapShot, ArchiveSnapShot,
         ArchiveSnapShotFails, Visiting, CreateUpdatedSnapShot, CreateUpdatedSnapShotFails,
         StoreHomeDomainFails, GetEntitiesWithoutSnapShots, CreateSnapShot, dbVars
    <2>2. \A k, r : Recorded(k, r)' = Recorded(k, r)
      BY <2>1 DEF Recorded
    <2>3. \A k, i : ToRecord(k, i)' = ToRecord(k, i)
      BY <2>1 DEF ToRecord
    <2>4. kind = "org" => AllRecorded("node")'
      <3> SUFFICES ASSUME kind = "org" PROVE AllRecorded("node")'
        OBVIOUS
      <3>1. ActiveRows("node")' = ActiveRows("node")
        BY <1>2, OthersUntouched DEF ActiveRows, Kind
      <3>2. QED
        BY <2>1, <2>2, <2>3, <3>1 DEF AllRecorded, Recording
    <2>5. \A r \in kept' : r \in kept \/ (net[kind][r.id] # NoEntity => Recorded(kind, r))
      <3>1. CASE \/ LoadActiveSnapShots \/ \E r \in todo : ArchiveSnapShot(r) \/ ArchiveSnapShotFails(r)
                 \/ CreateUpdatedSnapShotFails \/ \E r \in replacing : StoreHomeDomainFails(r)
                 \/ GetEntitiesWithoutSnapShots
        BY <3>1 DEF LoadActiveSnapShots, ArchiveSnapShot, ArchiveSnapShotFails,
           CreateUpdatedSnapShotFails, StoreHomeDomainFails, GetEntitiesWithoutSnapShots
      <3>2. ASSUME NEW r \in todo, KeepSnapShot(r)
            PROVE  kept' = kept \cup {r} /\ (net[kind][r.id] # NoEntity => Recorded(kind, r))
        <4>1. kept' = kept \cup {r} /\ r \in rows[kind] /\ kind \in Kind
          BY <3>2 DEF KeepSnapShot, Visiting, Loops, ActiveRows, TypeOK
        <4>2. r.start \in Nat /\ clock \in Nat /\ DayLength \in Nat
          BY <4>1, RowFacts, SnapShotterAssumption
        <4>3. QED
          BY <3>2, <4>1, <4>2 DEF KeepSnapShot, EntityChangeShouldBeIgnored, IpPortChanged,
             OlderThanOneDay, HasEntityChanged, Recorded
      <3>3. ASSUME NEW i, NEW b, NEW c, Insert(NewRow(i, b, c))
            PROVE  \A r \in kept' : r \in kept \/ Recorded(kind, r)
        BY <3>3 DEF Insert, NewRow, Recorded
      <3>4. QED
        BY <1>2, <3>1, <3>2, <3>3 DEF UpdateOrCreateSnapShots, CreateUpdatedSnapShot, CreateSnapShot
    <2>6. phase \in {"update", "create"} \/ kept' = {}
      BY <1>2 DEF UpdateOrCreateSnapShots, LoadActiveSnapShots, KeepSnapShot, ArchiveSnapShot,
         ArchiveSnapShotFails, Visiting, CreateUpdatedSnapShot, CreateUpdatedSnapShotFails,
         StoreHomeDomainFails, GetEntitiesWithoutSnapShots, CreateSnapShot
    <2>7. \A r \in kept' : net[kind][r.id] # NoEntity => Recorded(kind, r)
      BY <2>5, <2>6 DEF Recording
    <2>8. phase' = "create" => \A i \in Id(kind) : ToRecord(kind, i) =>
            i \in missing' \/ i \in Ids(kept')
      <3>1. CASE GetEntitiesWithoutSnapShots
        BY <3>1 DEF GetEntitiesWithoutSnapShots, ToRecord
      <3>2. ASSUME NEW j \in missing, CreateSnapShot(j)
            PROVE  \A i \in Id(kind) : ToRecord(kind, i) => i \in missing' \/ i \in Ids(kept')
        <4>1. missing' = missing \ {j} /\ phase = "create"
          BY <3>2 DEF CreateSnapShot
        <4>2. CASE Insert(NewRow(j, clock, FALSE))
          <5>1. NewRow(j, clock, FALSE) \in kept' /\ kept \subseteq kept' /\ NewRow(j, clock, FALSE).id = j
            BY <4>2 DEF Insert, NewRow
          <5>2. j \in Ids(kept') /\ Ids(kept) \subseteq Ids(kept')
            BY <5>1 DEF Ids
          <5>3. QED
            BY <4>1, <5>2 DEF Recording
        <4>3. CASE ~Insert(NewRow(j, clock, FALSE))
          <5>1. ~ToRecord(kind, j) /\ kept' = kept
            BY <3>2, <4>3 DEF CreateSnapShot, CreateSaves, EntityShouldBeArchived, ToRecord
          <5>2. QED
            BY <4>1, <5>1 DEF Recording
        <4>4. QED
          BY <4>2, <4>3
      <3>3. QED
        BY <1>2, <3>1, <3>2 DEF UpdateOrCreateSnapShots, LoadActiveSnapShots, KeepSnapShot,
           ArchiveSnapShot, ArchiveSnapShotFails, Visiting, CreateUpdatedSnapShot,
           CreateUpdatedSnapShotFails, StoreHomeDomainFails
    <2>9. Ids(kept)' = Ids(kept') /\ phase' # "measure"
      BY <2>1 DEF Ids
    <2>10. QED
      BY <2>1, <2>2, <2>3, <2>4, <2>7, <2>8, <2>9 DEF Recording
  <1>3. CASE SnapShotsDone
    <2>1. /\ phase = "create" /\ missing = {} /\ UNCHANGED <<net, clock, rows>>
          /\ \A r \in kept : r \in ActiveRows(kind)
      BY <1>3 DEF SnapShotsDone, dbVars, KeptActive
    <2>2. AllRecorded(kind)
      <3> SUFFICES ASSUME NEW i \in Id(kind), ToRecord(kind, i)
                   PROVE  \E r \in ActiveRows(kind) : r.id = i /\ Recorded(kind, r)
        BY DEF AllRecorded
      <3>1. PICK r \in kept : r.id = i
        BY <2>1 DEF Recording, Ids
      <3>2. QED
        BY <2>1, <3>1 DEF Recording, ToRecord
    <2>3. \A k, r : Recorded(k, r)' = Recorded(k, r)
      BY <2>1 DEF Recorded
    <2>4. \A i : ToRecord("node", i)' = ToRecord("node", i)
      BY <2>1 DEF ToRecord
    <2>5. \A k : ActiveRows(k)' = ActiveRows(k)
      BY <2>1 DEF ActiveRows
    <2>6. AllRecorded("node") => AllRecorded("node")'
      BY <2>3, <2>4, <2>5 DEF AllRecorded
    <2>7. CASE kind = "node"
      BY <1>3, <2>2, <2>6, <2>7 DEF SnapShotsDone, Recording
    <2>8. CASE kind = "org"
      <3>1. tracked' = tracked /\ phase' = "measure" /\ kind' = "org"
        BY <1>3, <2>8 DEF SnapShotsDone
      <3>2. \A i : ToRecord("org", i)' = ToRecord("org", i)
        BY <2>1, <3>1 DEF ToRecord
      <3>3. AllRecorded("org")'
        BY <2>2, <2>3, <2>5, <2>8, <3>2 DEF AllRecorded
      <3>4. QED
        BY <2>1, <2>6, <2>8, <3>1, <3>3 DEF Recording
    <2>9. QED
      BY <2>7, <2>8 DEF TypeOK, Kind
  <1>4. QED
    BY <1>1, <1>2, <1>3 DEF Next

\* When the snapshots of an update are done they record its network, as long as making
\* one for an entity without does not fail; ending one, and making its successor, may.
THEOREM NetworkRecorded == ASSUME CreateSaves PROVE Spec => []SnapShotsRecordNetwork
  <1>1. VInv /\ Recording /\ [Next]_vars => Recording'
    <2> SUFFICES ASSUME VInv, Recording, [Next]_vars PROVE Recording'
      OBVIOUS
    <2>1. CASE UNCHANGED vars
      BY <2>1 DEF vars, dbVars, loopVars, Recording, Recorded, ToRecord, AllRecorded, ActiveRows, Ids
    <2>2. QED
      BY <2>1, RecordingStep
  <1>2. Init => Recording
    BY DEF Init, Recording
  <1>3. VInv /\ Recording => SnapShotsRecordNetwork
    BY DEF Recording, AllRecorded, ToRecord, Recorded, SnapShotsRecordNetwork, VInv, TypeInv,
       LoopsIdle, Kind
  <1>4. QED
    BY <1>1, <1>2, <1>3, VInvariant, PTL DEF Spec
-----------------------------------------------------------------------------
(* Addresses that keep changing are damped. *)

\* Of the snapshots that continue one another, one at most records a change of address at a
\* given time.
FlaggedOnce ==
  \A r, s \in rows["node"] :
    r.id = s.id /\ r.since = s.since /\ r.start = s.start /\ r.ipChange /\ s.ipChange => r = s

\* The snapshots the loop over the nodes has made show the network it saves.
MadeNow ==
  phase \in {"load", "update", "create"} /\ kind = "node" =>
    \A r \in rows["node"] : r.start = clock => IsActive(r) /\ r.content = net["node"][r.id]

\* The snapshot whose successor is being made.
LongEnough(r) == IpPortChanged(r) /\ r.ipChange => clock - r.start > DayLength
Replacing ==
  phase = "update" /\ kind = "node" => \A r \in replacing :
    r \in rows["node"] /\ r.start < clock /\ r.end = clock /\ LongEnough(r)

\* A snapshot that records a change of address replaced one that had lasted long enough.
\* Both stay: a snapshot that has ended never changes.
Precedes(p, s) ==
  /\ p.id = s.id /\ p.since = s.since /\ p.start < p.end /\ p.end = s.start
  /\ p.ipChange => p.end - p.start > DayLength
Succession ==
  \A s \in rows["node"] : s.ipChange => \E p \in rows["node"] : Precedes(p, s)

FInv == VInv /\ FlaggedOnce /\ MadeNow /\ Replacing /\ Succession

\* What the steps that end snapshots of nodes make of the rows.
LEMMA NodesEnded ==
  ASSUME TypeOK, NEW S, S \subseteq ActiveRows("node"), rows' = Ended("node", S)
  PROVE  \A r \in rows'["node"] :
           \/ r \in rows["node"] /\ r \notin S
           \/ r.end = clock /\ \E old \in S : /\ r = [old EXCEPT !.end = clock]
                /\ r.id = old.id /\ r.since = old.since
                /\ r.start = old.start /\ r.ipChange = old.ipChange
  <1>1. S \in SUBSET rows["node"] /\ "node" \in Kind /\ \A r \in S : r \in Row("node")
    BY ActiveRowsType DEF Kind
  <1>2. rows'["node"] = (rows["node"] \ S) \cup {[r EXCEPT !.end = clock] : r \in S}
    BY <1>1, EndedType
  <1>3. \A old \in S : LET r == [old EXCEPT !.end = clock] IN
          /\ r.end = clock /\ r.id = old.id /\ r.since = old.since
          /\ r.start = old.start /\ r.ipChange = old.ipChange
    BY <1>1 DEF Row
  <1>4. SUFFICES ASSUME NEW r \in rows'["node"], ~(r \in rows["node"] /\ r \notin S)
                 PROVE  r.end = clock /\ \E old \in S : /\ r = [old EXCEPT !.end = clock]
                          /\ r.id = old.id /\ r.since = old.since
                          /\ r.start = old.start /\ r.ipChange = old.ipChange
    OBVIOUS
  <1>5. PICK old \in S : r = [old EXCEPT !.end = clock]
    BY <1>2, <1>4
  <1>6. QED
    BY <1>3, <1>5

LEMMA NodeRowFacts ==
  ASSUME VInv
  PROVE  /\ clock \in Nat /\ MaxDate \in Nat /\ clock < MaxDate /\ DayLength \in Nat
         /\ \A r \in rows["node"] : /\ r \in Row("node") /\ r.start \in Nat /\ r.end \in Nat
              /\ r.start <= clock /\ (IsActive(r) \/ (r.start <= r.end /\ r.end <= clock))
  <1>1. "node" \in Kind /\ clock \in Nat /\ MaxDate \in Nat /\ clock < MaxDate /\ DayLength \in Nat
    BY TimeFacts, SnapShotterAssumption DEF Kind, VInv, TypeInv, TypeOK
  <1>2. \A r \in rows["node"] : r \in Row("node") /\ r.start \in Nat /\ r.end \in Nat
    BY <1>1, RowFacts DEF VInv, TypeInv
  <1>3. \A r \in rows["node"] : r.start <= clock /\ (IsActive(r) \/ (r.start <= r.end /\ r.end <= clock))
    BY <1>1 DEF VInv, RowTimes
  <1>4. QED
    BY <1>1, <1>2, <1>3

\* Where the history of a node does not overlap, the snapshot that another follows at once is
\* the one it replaced: any other that ends then would overlap it, or be empty and have
\* replaced the same one, and record a change of address at the same time as its successor.
LEMMA SuccessionDamps == FInv => AddressFlapsDamped
  <1> SUFFICES ASSUME FInv, NEW n \in Node, Disjoint({x \in rows["node"] : x.id = n}),
                      NEW r \in rows["node"], NEW s \in rows["node"], r.id = n, s.id = n,
                      r.ipChange, s.ipChange, r.end = s.start, r # s
               PROVE  s.start - r.start > DayLength
    BY DEF AddressFlapsDamped
  <1>1. PICK p \in rows["node"] : Precedes(p, s)
    BY DEF FInv, Succession
  <1>2. p.id = n /\ p.start < p.end /\ p.end = r.end
    BY <1>1 DEF Precedes
  <1>3. /\ s.start \in Nat /\ r.start \in Nat /\ r.end \in Nat /\ p.start \in Nat /\ p.end \in Nat
        /\ s.start <= clock /\ clock \in Nat /\ clock < MaxDate /\ MaxDate \in Nat
        /\ r.end # MaxDate => r.start <= r.end
    BY NodeRowFacts DEF FInv, IsActive
  <1>4. CASE p = r
    BY <1>1, <1>3, <1>4 DEF Precedes
  <1>5. CASE p # r
    <2>1. p.end <= r.start \/ r.end <= p.start
      BY <1>2, <1>5 DEF Disjoint
    <2>2. r.start = s.start
      BY <1>2, <1>3, <2>1
    <2>3. PICK q \in rows["node"] : Precedes(q, r)
      BY DEF FInv, Succession
    <2>4. /\ q.id = n /\ q.start < q.end /\ q.end = p.end
          /\ q.start \in Nat /\ q.end \in Nat
      BY <1>2, <2>2, <2>3, NodeRowFacts DEF Precedes, FInv
    <2>5. q = p
      <3>1. q # p => q.end <= p.start \/ p.end <= q.start
        BY <1>2, <2>4 DEF Disjoint
      <3>2. QED
        BY <1>2, <1>3, <2>4, <3>1
    <2>6. r.since = s.since
      BY <1>1, <2>3, <2>5 DEF Precedes
    <2>7. QED
      BY <2>2, <2>6 DEF FInv, FlaggedOnce
  <1>6. QED
    BY <1>4, <1>5

\* Ending active snapshots of nodes leaves the predecessors as they are.
LEMMA EndingDamps ==
  ASSUME FInv, NEW S, S \subseteq ActiveRows("node"), rows' = Ended("node", S)
  PROVE  FlaggedOnce' /\ Succession'
  <1> USE DEF FInv, VInv, TypeInv
  <1>1. \A r \in rows'["node"] : \E old \in rows["node"] :
          /\ r.id = old.id /\ r.since = old.since
          /\ r.start = old.start /\ r.ipChange = old.ipChange
          /\ r = IF old \in S THEN [old EXCEPT !.end = clock] ELSE old
    <2>1. S \subseteq rows["node"]
      BY DEF ActiveRows
    <2>2. QED
      BY <2>1, NodesEnded
  <1>2. FlaggedOnce'
    BY <1>1 DEF FlaggedOnce
  <1>3. Succession'
    <2> SUFFICES ASSUME NEW s \in rows'["node"], s.ipChange
                 PROVE  \E p \in rows'["node"] : Precedes(p, s)
      BY DEF Succession, Precedes
    <2>1. PICK old \in rows["node"] : /\ s.id = old.id /\ s.since = old.since
                                      /\ s.start = old.start /\ old.ipChange
      BY <1>1
    <2>2. PICK p \in rows["node"] : Precedes(p, old)
      BY <2>1 DEF Succession
    <2>3. p \notin S
      BY <2>1, <2>2, NodeRowFacts DEF Precedes, ActiveRows, IsActive
    <2>4. p \in rows'["node"]
      <3>1. S \in SUBSET rows["node"] /\ "node" \in Kind
        BY DEF ActiveRows, Kind
      <3>2. QED
        BY <2>3, <3>1, EndedType
    <2>5. QED
      BY <2>1, <2>2, <2>4 DEF Precedes
  <1>4. QED
    BY <1>2, <1>3

\* A new snapshot that records a change of address has one to precede it.
LEMMA AddingDamps ==
  ASSUME FInv, kind = "node", phase \in {"update", "create"},
         NEW i \in Id(kind), NEW b \in Time, NEW c \in BOOLEAN,
         rows' = [rows EXCEPT !["node"] = @ \cup {NewRow(i, b, c)}],
         c => \E r \in replacing :
                phase = "update" /\ r.id = i /\ r.since = b /\ IpPortChanged(r)
  PROVE  FlaggedOnce' /\ Succession'
  <1> USE DEF FInv, VInv, TypeInv
  <1> DEFINE new == NewRow(i, b, c)
  <1>1. /\ new = [id |-> i, since |-> b, start |-> clock, end |-> MaxDate,
                  content |-> net["node"][i], ipChange |-> c]
        /\ rows'["node"] = rows["node"] \cup {new}
    BY DEF NewRow, TypeOK, Kind
  <1> HIDE DEF new
  <1>2. new.id = i /\ new.since = b /\ new.start = clock /\ new.ipChange = c
    BY <1>1
  <1>3. FlaggedOnce'
    <2>1. ASSUME NEW x \in rows["node"], x.id = i, x.since = b, x.start = clock, x.ipChange, c
          PROVE  x = new
      <3>1. x \in Row("node") /\ x.end = MaxDate /\ x.content = net["node"][i]
        BY <2>1, NodeRowFacts DEF MadeNow, IsActive
      <3>2. x = [id |-> x.id, since |-> x.since, start |-> x.start, end |-> x.end,
                 content |-> x.content, ipChange |-> x.ipChange]
        BY <3>1 DEF Row
      <3>3. x.ipChange = c
        BY <2>1, <3>1 DEF Row
      <3>4. QED
        BY <1>1, <2>1, <3>1, <3>2, <3>3
    <2>2. QED
      BY <1>1, <1>2, <2>1 DEF FlaggedOnce
  <1>4. ASSUME c
        PROVE  \E p \in rows["node"] : Precedes(p, new)
    <2>1. PICK p \in replacing : phase = "update" /\ p.id = i /\ p.since = b /\ IpPortChanged(p)
      BY <1>4
    <2>2. p \in rows["node"] /\ p.start < clock /\ p.end = clock /\ LongEnough(p)
      BY <2>1 DEF Replacing
    <2>3. QED
      BY <1>2, <2>1, <2>2 DEF LongEnough, Precedes
  <1>5. Succession'
    BY <1>1, <1>2, <1>4 DEF Succession, Precedes
  <1>6. QED
    BY <1>3, <1>5

LEMMA SameRowsDamp ==
  ASSUME FInv, rows'["node"] = rows["node"]
  PROVE  FlaggedOnce' /\ Succession'
  BY DEF FInv, FlaggedOnce, Succession, Precedes

\* The loop over the nodes.
LEMMA NodeLoopDamps ==
  ASSUME FInv, UpdateOrCreateSnapShots, kind = "node"
  PROVE  FlaggedOnce' /\ MadeNow' /\ Replacing' /\ Succession'
  <1> USE DEF FInv, VInv, TypeInv
  <1>0. UNCHANGED <<net, clock>> /\ phase \in {"load", "update", "create"}
    BY DEF UpdateOrCreateSnapShots, LoadActiveSnapShots, KeepSnapShot, ArchiveSnapShot,
       ArchiveSnapShotFails, Visiting, CreateUpdatedSnapShot, CreateUpdatedSnapShotFails,
       StoreHomeDomainFails, GetEntitiesWithoutSnapShots, CreateSnapShot, SnapShotsDone, dbVars
  <1>1. CASE LoadActiveSnapShots
    <2>1. rows' = rows /\ phase' = "update" /\ phase = "load" /\ replacing' = {}
      BY <1>1 DEF LoadActiveSnapShots, dbVars, LoopsIdle
    <2>2. QED
      BY <1>0, <2>1, SameRowsDamp DEF MadeNow, Replacing, IsActive
  <1>2. CASE \/ \E r \in todo : KeepSnapShot(r) \/ ArchiveSnapShotFails(r)
             \/ CreateUpdatedSnapShotFails
    <2>1. rows' = rows /\ phase = "update" /\ replacing' \subseteq replacing
      BY <1>2 DEF KeepSnapShot, ArchiveSnapShotFails, CreateUpdatedSnapShotFails, Visiting, dbVars
    <2>2. QED
      BY <1>0, <2>1, SameRowsDamp DEF MadeNow, Replacing, LongEnough, IpPortChanged, IsActive
  <1>3. ASSUME NEW r \in todo, ArchiveSnapShot(r)
        PROVE  FlaggedOnce' /\ MadeNow' /\ Replacing' /\ Succession'
    <2>1. /\ rows' = Ended("node", {r}) /\ phase = "update" /\ kind' = "node"
          /\ r \in ActiveRows("node")
      BY <1>3 DEF ArchiveSnapShot, Visiting, Loops
    <2>2. r.start < clock /\ r \in rows["node"] /\ r \in Row("node")
      BY <2>1, NodeRowFacts DEF KeptActive, ActiveRows
    <2> DEFINE e == [r EXCEPT !.end = clock]
    <2>3. /\ e.id = r.id /\ e.since = r.since /\ e.start = r.start /\ e.end = clock /\ e.content = r.content
          /\ e.ipChange = r.ipChange /\ (replacing' = {e} \/ replacing' = {})
          /\ replacing' = {e} => ShouldReplace(r)
      BY <1>3, <2>2 DEF ArchiveSnapShot, Row
    <2>4. rows'["node"] = (rows["node"] \ {r}) \cup {e}
      BY <2>1, <2>2, EndedType DEF Kind
    <2> HIDE DEF e
    <2>5. FlaggedOnce' /\ Succession'
      BY <2>1, EndingDamps
    <2>6. MadeNow'
      <3>1. \A x \in rows["node"] : x.start = clock => x.end = MaxDate /\ x.content = net["node"][x.id]
        BY <2>1 DEF MadeNow, IsActive
      <3>2. e.start # clock
        BY <2>2, <2>3, NodeRowFacts
      <3> HIDE DEF FInv, VInv, TypeInv
      <3>3. \A x \in rows'["node"] : x.start = clock => x.end = MaxDate /\ x.content = net["node"][x.id]
        BY <2>4, <3>1, <3>2
      <3>4. QED
        BY <1>0, <3>3 DEF MadeNow, IsActive
    <2>7. ShouldReplace(r) => LongEnough(r)
      BY <2>2, NodeRowFacts DEF ShouldReplace, EntityChangeShouldBeIgnored, OlderThanOneDay, LongEnough
    <2>8. \A x : x.id = r.id /\ x.start = r.start /\ x.content = r.content
                 /\ x.ipChange = r.ipChange /\ LongEnough(r) => LongEnough(x)'
      BY <1>0, <2>1 DEF LongEnough, IpPortChanged
    <2>9. Replacing'
      <3>1. \A x \in replacing' : x = e /\ LongEnough(r)
        BY <2>3, <2>7
      <3>2. \A x \in replacing' : LongEnough(x)'
        BY <2>3, <2>8, <3>1
      <3>3. QED
        BY <1>0, <2>2, <2>3, <2>4, <3>1, <3>2 DEF Replacing
    <2>10. QED
      BY <2>5, <2>6, <2>9
  <1>4. ASSUME NEW i \in Id(kind), NEW b \in Time, NEW c \in BOOLEAN, Insert(NewRow(i, b, c)),
               phase \in {"update", "create"},
               c => \E r \in replacing :
                      phase = "update" /\ r.id = i /\ r.since = b /\ IpPortChanged(r)
        PROVE  FlaggedOnce' /\ MadeNow' /\ Succession'
    <2> DEFINE new == NewRow(i, b, c)
    <2>1. /\ rows' = [rows EXCEPT !["node"] = @ \cup {new}]
          /\ new.end = MaxDate /\ new.content = net["node"][new.id]
      BY <1>4 DEF Insert, NewRow
    <2>2. FlaggedOnce' /\ Succession'
      BY <1>4, <2>1, AddingDamps
    <2>3. rows'["node"] = rows["node"] \cup {new}
      BY <2>1 DEF TypeOK, Kind
    <2> HIDE DEF new
    <2>4. QED
      BY <1>0, <1>4, <2>1, <2>2, <2>3 DEF MadeNow, IsActive
  <1>5. ASSUME NEW r \in replacing, CreateUpdatedSnapShot(r)
        PROVE  FlaggedOnce' /\ MadeNow' /\ Replacing' /\ Succession'
    <2>1. Insert(NewRow(r.id, r.since, IpPortChanged(r))) /\ phase = "update" /\ replacing' = {}
      BY <1>5 DEF CreateUpdatedSnapShot
    <2>2. r.id \in Id(kind) /\ r.since \in Time /\ IpPortChanged(r) \in BOOLEAN
      BY DEF TypeOK, Row, IpPortChanged
    <2>3. FlaggedOnce' /\ MadeNow' /\ Succession'
      BY <1>4, <2>1, <2>2
    <2>4. QED
      BY <2>1, <2>3 DEF Replacing
  <1>6. CASE GetEntitiesWithoutSnapShots
    <2>1. rows' = rows /\ phase' = "create" /\ phase = "update"
      BY <1>6 DEF GetEntitiesWithoutSnapShots, dbVars
    <2>2. QED
      BY <1>0, <2>1, SameRowsDamp DEF MadeNow, Replacing, IsActive
  <1>7. ASSUME NEW i \in missing, CreateSnapShot(i)
        PROVE  FlaggedOnce' /\ MadeNow' /\ Replacing' /\ Succession'
    <2>1. phase' = "create" /\ phase = "create" /\ i \in Id(kind) /\ clock \in Time
      BY <1>7 DEF CreateSnapShot, TypeOK
    <2>2. CASE Insert(NewRow(i, clock, FALSE))
      BY <1>4, <2>1, <2>2 DEF Replacing
    <2>3. CASE rows' = rows
      BY <1>0, <2>1, <2>3, SameRowsDamp DEF MadeNow, Replacing, IsActive
    <2>4. QED
      BY <1>7, <2>2, <2>3 DEF CreateSnapShot
  <1>8. CASE SnapShotsDone
    <2>1. rows' = rows /\ phase' = "load" /\ kind' = "org"
      BY <1>8 DEF SnapShotsDone, dbVars
    <2>2. QED
      BY <1>0, <2>1, SameRowsDamp DEF MadeNow, Replacing
  <1>9. QED
    BY <1>1, <1>2, <1>3, <1>5, <1>6, <1>7, <1>8 DEF UpdateOrCreateSnapShots,
       StoreHomeDomainFails

LEMMA FStep ==
  ASSUME FInv, Next
  PROVE  FlaggedOnce' /\ MadeNow' /\ Replacing' /\ Succession'
  <1> USE DEF FInv, VInv, TypeInv
  <1>1. CASE StartUpdate
    <2>1. /\ rows' = rows /\ phase' = "load" /\ clock' = clock + 1
      BY <1>1 DEF StartUpdate, dbVars
    <2>2. \A r \in rows["node"] : r.start < clock + 1
      BY NodeRowFacts
    <2>3. QED
      BY <2>1, <2>2, NodeRowFacts, SameRowsDamp DEF MadeNow, Replacing
  <1>2. CASE CreateMeasurements \/ AbortSave \/ Crash
    <2>1. rows' = rows /\ phase' \notin {"load", "update", "create"}
      BY <1>2 DEF CreateMeasurements, CreateNodeMeasurements, CreateOrganizationMeasurements,
         CompleteUpdate, AbortSave, Crash, Forget, dbVars
    <2>2. QED
      BY <2>1, SameRowsDamp DEF MadeNow, Replacing
  <1>3. CASE ArchiveNodes
    <2>1. phase' \notin {"load", "update", "create"}
      BY <1>3 DEF ArchiveNodes, ArchiveInactiveValidators, ArchiveInactiveWatchers,
         ArchiveInactiveWithMultipleIpSamePort, DemoteValidators
    <2>2. MadeNow' /\ Replacing'
      BY <2>1 DEF MadeNow, Replacing
    <2>3. CASE ArchiveInactiveValidators \/ DemoteValidators
      BY <2>2, <2>3, ValidatorsUntouched, SameRowsDamp
    <2>4. CASE ArchiveInactiveWatchers \/ ArchiveInactiveWithMultipleIpSamePort
      <3>1. PICK S : S \subseteq ActiveRows("node") /\ rows' = Ended("node", S)
        BY <2>4 DEF ArchiveInactiveWatchers, ArchiveInactiveWithMultipleIpSamePort
      <3>2. QED
        BY <2>2, <3>1, EndingDamps
    <2>5. QED
      BY <1>3, <2>3, <2>4 DEF ArchiveNodes
  <1>4. CASE UpdateOrCreateSnapShots /\ kind = "node"
    BY <1>4, NodeLoopDamps
  <1>5. CASE UpdateOrCreateSnapShots /\ kind = "org"
    <2>1. rows'["node"] = rows["node"]
      BY <1>5, OthersUntouched DEF Kind
    <2>2. kind' = "org"
      BY <1>5 DEF UpdateOrCreateSnapShots, LoadActiveSnapShots, KeepSnapShot, ArchiveSnapShot,
         ArchiveSnapShotFails, Visiting, CreateUpdatedSnapShot, CreateUpdatedSnapShotFails,
         StoreHomeDomainFails, GetEntitiesWithoutSnapShots, CreateSnapShot, SnapShotsDone
    <2>3. QED
      BY <2>1, <2>2, SameRowsDamp DEF MadeNow, Replacing
  <1>6. QED
    BY <1>1, <1>2, <1>3, <1>4, <1>5 DEF Next, TypeOK, Kind

\* Of two consecutive snapshots that both record a change of address, the first is more
\* than a day old when the second replaces it, whichever writes fail, for a node whose
\* snapshots do not overlap.
THEOREM FlapsDamped == Spec => []AddressFlapsDamped
  <1>1. FInv /\ [Next]_vars => FInv'
    <2> SUFFICES ASSUME FInv, [Next]_vars PROVE FInv'
      OBVIOUS
    <2>1. VInv'
      BY VStep DEF FInv
    <2>2. CASE Next
      BY <2>1, <2>2, FStep DEF FInv
    <2>3. CASE UNCHANGED vars
      BY <2>1, <2>3 DEF vars, dbVars, loopVars, FInv, FlaggedOnce, MadeNow, IsActive, Replacing,
         LongEnough, IpPortChanged, Succession, Precedes
    <2>4. QED
      BY <2>2, <2>3
  <1>2. Init => FInv
    <2> SUFFICES ASSUME Init PROVE FInv
      OBVIOUS
    <2>1. \A r \in rows["node"] : r.ipChange = FALSE
      BY DEF Init, Kind
    <2>2. phase = "idle"
      BY DEF Init
    <2>3. QED
      BY <2>1, <2>2, InitVInv DEF FInv, FlaggedOnce, MadeNow, Replacing, Succession
  <1>3. QED
    BY <1>1, <1>2, SuccessionDamps, PTL DEF Spec
===============================================================================

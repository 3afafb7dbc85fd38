------------------------- MODULE SnapShotterRefinement -------------------------
(***************************************************************************)
(* SnapShotter implements NetworkHistory, for any nodes, organizations and *)
(* contents and any number of updates.  The update being saved is not      *)
(* visible before it is completed, because reads ask for completed ones,   *)
(* and its writes change no snapshot that is active at an earlier time.    *)
(* What NetworkHistory promises is then proved of the tables: a network    *)
(* settles, and keeps the nodes that its update reached.                   *)
(***************************************************************************)
EXTENDS SnapShotterProofs

Saving == {"load", "update", "create", "measure", "measureOrgs", "complete"}

\* The update being saved is not complete; the one being archived is the latest.
CompletedTimes ==
  /\ \A t \in completed : t <= clock
  /\ phase \in Saving => clock \notin completed
  /\ phase \in Archiving => clock \in completed

\* A node is measured at most once in an update, when the snapshots are done.
MeasuredOnce ==
  /\ \A m \in measured : m.time <= clock
  /\ phase \in {"load", "update", "create", "measure"} => \A m \in measured : m.time # clock
  /\ \A m, x \in measured : m.node = x.node /\ m.time = x.time => m = x

\* What the update loop visits is older than this update, and what the loops return is
\* active, also where the write that ends a snapshot fails and an entity has two.
KeptActive ==
  /\ phase = "load" => \A r \in rows[kind] : r.start < clock
  /\ phase \in {"load", "update", "create"} /\ kind = "node" =>
       \A r \in rows["org"] : r.start < clock
  /\ phase = "update" => todo \cap kept = {} /\ \A r \in todo : r.start < clock
  /\ phase \in {"update", "create"} => kept \subseteq ActiveRows(kind)

\* Every node measured in this update has an active snapshot.
TrackedActive ==
  /\ kind = "org" => tracked \subseteq Ids(ActiveRows("node"))
  /\ phase \in {"measureOrgs", "complete"} =>
       \A m \in measured : m.time = clock => m.node \in tracked

VInv == TypeInv /\ RowTimes /\ CompletedTimes /\ MeasuredOnce /\ KeptActive /\ TrackedActive
-----------------------------------------------------------------------------
LEMMA InitVInv == Init => VInv
  <1> SUFFICES ASSUME Init PROVE VInv
    OBVIOUS
  <1>1. IInv
    BY InitIInv
  <1>2. /\ clock = 0 /\ completed = {0} /\ phase = "idle" /\ kind = "node"
        /\ \A m \in measured : m.time = 0
        /\ \A m, x \in measured : m.node = x.node => m = x
    <2>1. PICK seeds \in SUBSET Node : \E up \in SUBSET seeds :
            measured = {[node |-> n, time |-> 0, active |-> n \in up] : n \in seeds}
      BY DEF Init
    <2>2. PICK up \in SUBSET seeds :
            measured = {[node |-> n, time |-> 0, active |-> n \in up] : n \in seeds}
      BY <2>1
    <2>3. QED
      BY <2>2 DEF Init
  <1>3. QED
    BY <1>1, <1>2 DEF VInv, IInv, CompletedTimes, MeasuredOnce, KeptActive, TrackedActive, Saving,
       Archiving

LEMMA CompletedTimesStep ==
  ASSUME VInv, Next
  PROVE  CompletedTimes'
  <1> USE DEF VInv, TypeInv
  <1>1. clock \in Nat /\ \A t \in completed : t \in Nat
    BY TimeFacts DEF TypeOK
  <1>2. CASE StartUpdate
    BY <1>1, <1>2 DEF StartUpdate, dbVars, CompletedTimes, Saving, Archiving
  <1>3. CASE CompleteUpdate
    BY <1>1, <1>3 DEF CompleteUpdate, CompletedTimes, Saving, Archiving
  <1>4. CASE UpdateOrCreateSnapShots
    BY <1>4 DEF UpdateOrCreateSnapShots, LoadActiveSnapShots, KeepSnapShot, ArchiveSnapShot,
       ArchiveSnapShotFails, Visiting, CreateUpdatedSnapShot, CreateUpdatedSnapShotFails,
       StoreHomeDomainFails, GetEntitiesWithoutSnapShots, CreateSnapShot, SnapShotsDone, dbVars,
       CompletedTimes, Saving, Archiving
  <1>5. CASE CreateNodeMeasurements \/ CreateOrganizationMeasurements
    BY <1>5 DEF CreateNodeMeasurements, CreateOrganizationMeasurements,
       CompletedTimes, Saving, Archiving
  <1>6. CASE ArchiveNodes
    BY <1>6 DEF ArchiveNodes, ArchiveInactiveValidators, ArchiveInactiveWatchers,
       ArchiveInactiveWithMultipleIpSamePort, DemoteValidators, CompletedTimes, Saving, Archiving
  <1>7. CASE AbortSave \/ Crash
    BY <1>7 DEF AbortSave, Crash, Forget, dbVars, CompletedTimes, Saving, Archiving
  <1>8. QED
    BY <1>2, <1>3, <1>4, <1>5, <1>6, <1>7 DEF Next, CreateMeasurements

LEMMA MeasuredOnceStep ==
  ASSUME VInv, Next
  PROVE  MeasuredOnce'
  <1> USE DEF VInv, TypeInv
  <1>1. clock \in Nat /\ \A m \in measured : m.time \in Nat
    BY TimeFacts DEF TypeOK
  <1>2. CASE StartUpdate
    BY <1>1, <1>2 DEF StartUpdate, dbVars, MeasuredOnce
  <1>3. CASE CreateNodeMeasurements
    <2> DEFINE added == {[node |-> n, time |-> clock,
                          active |-> net["node"][n] # NoEntity /\ n \in active] : n \in MeasuredNodes}
    <2>1. /\ measured' = measured \cup added /\ clock' = clock /\ phase' = "measureOrgs"
          /\ \A m \in measured : m.time # clock
      BY <1>3 DEF CreateNodeMeasurements, MeasuredOnce
    <2>2. /\ \A m \in added : m.time = clock
          /\ \A m, x \in added : m.node = x.node => m = x
      OBVIOUS
    <2> HIDE DEF added
    <2>3. QED
      BY <1>1, <2>1, <2>2 DEF MeasuredOnce
  <1>4. CASE UpdateOrCreateSnapShots
    BY <1>4 DEF UpdateOrCreateSnapShots, LoadActiveSnapShots, KeepSnapShot, ArchiveSnapShot,
       ArchiveSnapShotFails, Visiting, CreateUpdatedSnapShot, CreateUpdatedSnapShotFails,
       StoreHomeDomainFails, GetEntitiesWithoutSnapShots, CreateSnapShot, SnapShotsDone, dbVars,
       MeasuredOnce
  <1>5. CASE CreateOrganizationMeasurements \/ CompleteUpdate
    BY <1>5 DEF CreateOrganizationMeasurements, CompleteUpdate, MeasuredOnce
  <1>6. CASE ArchiveNodes
    BY <1>6 DEF ArchiveNodes, ArchiveInactiveValidators, ArchiveInactiveWatchers,
       ArchiveInactiveWithMultipleIpSamePort, DemoteValidators, MeasuredOnce
  <1>7. CASE AbortSave \/ Crash
    BY <1>7 DEF AbortSave, Crash, Forget, dbVars, MeasuredOnce
  <1>8. QED
    BY <1>2, <1>3, <1>4, <1>5, <1>6, <1>7 DEF Next, CreateMeasurements

\* The snapshots of organizations stay as they are while those of nodes are updated, and
\* those of nodes afterwards.
LEMMA OthersUntouched ==
  ASSUME TypeInv, UpdateOrCreateSnapShots, NEW j \in Kind, j # kind
  PROVE  rows'[j] = rows[j]
  <1> USE DEF TypeInv
  <1>1. kind \in Kind
    BY DEF TypeOK
  <1>2. ASSUME NEW r \in todo, ArchiveSnapShot(r)
        PROVE  rows'[j] = rows[j]
    <2>1. rows' = Ended(kind, {r}) /\ {r} \in SUBSET rows[kind]
      BY <1>2 DEF ArchiveSnapShot, Visiting, Loops, ActiveRows
    <2>2. QED
      BY <1>1, <2>1, EndedType
  <1>3. CASE \/ \E r \in replacing : CreateUpdatedSnapShot(r) \/ StoreHomeDomainFails(r)
             \/ \E i \in missing : CreateSnapShot(i)
    BY <1>1, <1>3 DEF CreateUpdatedSnapShot, StoreHomeDomainFails, CreateSnapShot, Insert,
       TypeOK
  <1>4. CASE \/ LoadActiveSnapShots \/ \E r \in todo : KeepSnapShot(r) \/ ArchiveSnapShotFails(r)
             \/ CreateUpdatedSnapShotFails \/ GetEntitiesWithoutSnapShots \/ SnapShotsDone
    BY <1>4 DEF LoadActiveSnapShots, KeepSnapShot, ArchiveSnapShotFails,
       CreateUpdatedSnapShotFails, GetEntitiesWithoutSnapShots, SnapShotsDone, dbVars
  <1>5. QED
    BY <1>2, <1>3, <1>4 DEF UpdateOrCreateSnapShots

\* What one step of the loops over the snapshots of one kind does to what they return.
LEMMA KeptStep ==
  ASSUME VInv, UpdateOrCreateSnapShots, ~LoadActiveSnapShots, ~SnapShotsDone
  PROVE  /\ phase' = "update" =>
              todo' \cap kept' = {} /\ \A r \in todo' : r.start < clock
         /\ kept' \subseteq ActiveRows(kind)'
  <1> USE DEF VInv, TypeInv
  <1>0. clock \in Nat /\ kind \in Kind
    BY TimeFacts DEF TypeOK
  <1>1. ASSUME NEW r \in todo, KeepSnapShot(r)
        PROVE  /\ todo' \cap kept' = {} /\ \A s \in todo' : s.start < clock
               /\ kept' \subseteq ActiveRows(kind)'
    BY <1>1 DEF KeepSnapShot, Visiting, Loops, KeptActive, ActiveRows, dbVars
  <1>2. ASSUME NEW r \in todo, ArchiveSnapShot(r)
        PROVE  /\ todo' \cap kept' = {} /\ \A s \in todo' : s.start < clock
               /\ kept' \subseteq ActiveRows(kind)'
    <2>1. r \in ActiveRows(kind) /\ r \notin kept
      BY <1>2 DEF ArchiveSnapShot, Visiting, Loops, KeptActive
    <2>2. ActiveRows(kind)' = ActiveRows(kind) \ {r}
      BY <1>2, <2>1, ActiveAfterEnding DEF ArchiveSnapShot
    <2>3. QED
      BY <1>2, <2>1, <2>2 DEF ArchiveSnapShot, Visiting, KeptActive
  <1>3. ASSUME NEW r \in todo, ArchiveSnapShotFails(r)
        PROVE  /\ todo' \cap kept' = {} /\ \A s \in todo' : s.start < clock
               /\ kept' \subseteq ActiveRows(kind)'
    BY <1>3 DEF ArchiveSnapShotFails, Visiting, KeptActive, ActiveRows, dbVars
  <1>4. ASSUME NEW r \in replacing, CreateUpdatedSnapShot(r)
        PROVE  /\ todo' \cap kept' = {} /\ \A s \in todo' : s.start < clock
               /\ kept' \subseteq ActiveRows(kind)'
    <2> DEFINE new == NewRow(r.id, r.since, IpPortChanged(r))
    <2>1. r.id \in Id(kind) /\ r.since \in Time /\ IpPortChanged(r) \in BOOLEAN
      BY DEF TypeOK, Row, IpPortChanged
    <2>2. ActiveRows(kind)' = ActiveRows(kind) \cup {new} /\ kept' = kept \cup {new}
      BY <1>4, <2>1, ActiveAfterAdding DEF CreateUpdatedSnapShot
    <2>3. phase = "update" /\ todo' = todo
      BY <1>4 DEF CreateUpdatedSnapShot
    <2>4. new \notin todo
      <3>1. new.start = clock
        BY DEF NewRow
      <3> HIDE DEF new
      <3>2. QED
        BY <1>0, <2>3, <3>1 DEF KeptActive
    <2> HIDE DEF new
    <2>5. QED
      BY <2>2, <2>3, <2>4 DEF KeptActive
  <1>5. CASE CreateUpdatedSnapShotFails
    BY <1>5 DEF CreateUpdatedSnapShotFails, KeptActive, ActiveRows, dbVars
  <1>5a. ASSUME NEW r \in replacing, StoreHomeDomainFails(r)
         PROVE  /\ todo' \cap kept' = {} /\ \A s \in todo' : s.start < clock
                /\ kept' \subseteq ActiveRows(kind)'
    <2>1. ActiveRows(kind) \subseteq ActiveRows(kind)'
      BY <1>0, <1>5a DEF StoreHomeDomainFails, ActiveRows, TypeOK
    <2>2. QED
      BY <1>5a, <2>1 DEF StoreHomeDomainFails, KeptActive
  <1>6. CASE GetEntitiesWithoutSnapShots
    BY <1>6 DEF GetEntitiesWithoutSnapShots, KeptActive, ActiveRows, dbVars
  <1>7. ASSUME NEW i \in missing, CreateSnapShot(i)
        PROVE  phase' # "update" /\ kept' \subseteq ActiveRows(kind)'
    <2>1. i \in Id(kind) /\ clock \in Time /\ phase = "create" /\ phase' = phase /\ kind' = kind
      BY <1>7 DEF CreateSnapShot, TypeOK
    <2>2. CASE Insert(NewRow(i, clock, FALSE))
      BY <2>1, <2>2, ActiveAfterAdding DEF KeptActive
    <2>3. CASE UNCHANGED <<rows, kept>>
      BY <2>1, <2>3 DEF KeptActive, ActiveRows
    <2>4. QED
      BY <1>7, <2>1, <2>2, <2>3 DEF CreateSnapShot
  <1>8. QED
    BY <1>1, <1>2, <1>3, <1>4, <1>5, <1>5a, <1>6, <1>7 DEF UpdateOrCreateSnapShots

LEMMA KeptActiveStep ==
  ASSUME VInv, Next
  PROVE  KeptActive'
  <1> USE DEF VInv, TypeInv
  <1>0. /\ clock \in Nat /\ kind \in Kind /\ "node" \in Kind /\ "org" \in Kind
        /\ \A k \in Kind : \A r \in rows[k] : r.start \in Nat
    BY TimeFacts, RowFacts DEF TypeOK, Kind
  <1>1. CASE StartUpdate
    <2>1. /\ clock' = clock + 1 /\ rows' = rows /\ phase' = "load" /\ kind' = "node"
      BY <1>1 DEF StartUpdate, dbVars
    <2>2. \A k \in Kind : \A r \in rows[k] : r.start < clock'
      BY <1>0, <2>1 DEF RowTimes
    <2>3. QED
      BY <1>0, <2>1, <2>2 DEF KeptActive
  <1>2. CASE LoadActiveSnapShots
    BY <1>0, <1>2 DEF LoadActiveSnapShots, KeptActive, ActiveRows, dbVars
  <1>3. CASE SnapShotsDone
    BY <1>3 DEF SnapShotsDone, KeptActive, dbVars
  <1>4. CASE UpdateOrCreateSnapShots /\ ~LoadActiveSnapShots /\ ~SnapShotsDone
    <2>1. /\ kind' = kind /\ clock' = clock
          /\ phase \in {"update", "create"} /\ phase' \in {"update", "create"}
      BY <1>4 DEF UpdateOrCreateSnapShots, KeepSnapShot, ArchiveSnapShot,
         ArchiveSnapShotFails, Visiting, CreateUpdatedSnapShot, CreateUpdatedSnapShotFails,
         StoreHomeDomainFails, GetEntitiesWithoutSnapShots, CreateSnapShot
    <2>2. kind = "node" => rows'["org"] = rows["org"]
      BY <1>0, <1>4, OthersUntouched
    <2>3. QED
      BY <1>4, <2>1, <2>2, KeptStep DEF KeptActive
  <1>5. CASE CreateMeasurements \/ ArchiveNodes \/ AbortSave \/ Crash
    BY <1>5 DEF CreateMeasurements, CreateNodeMeasurements, CreateOrganizationMeasurements,
       CompleteUpdate, ArchiveNodes, ArchiveInactiveValidators, ArchiveInactiveWatchers,
       ArchiveInactiveWithMultipleIpSamePort, DemoteValidators, AbortSave, Crash, Forget,
       KeptActive
  <1>6. QED
    BY <1>1, <1>2, <1>3, <1>4, <1>5 DEF Next

LEMMA TrackedActiveStep ==
  ASSUME VInv, Next
  PROVE  TrackedActive'
  <1> USE DEF VInv, TypeInv
  <1>1. CASE StartUpdate \/ CompleteUpdate \/ AbortSave \/ Crash
    BY <1>1 DEF StartUpdate, CompleteUpdate, AbortSave, Crash, Forget, dbVars, TrackedActive
  <1>2. CASE ArchiveNodes
    <2>1. kind' = "node" /\ phase' \notin {"create", "measureOrgs", "complete"}
      BY <1>2 DEF ArchiveNodes, ArchiveInactiveValidators, ArchiveInactiveWatchers,
         ArchiveInactiveWithMultipleIpSamePort, DemoteValidators, LoopsIdle
    <2>2. QED
      BY <2>1 DEF TrackedActive
  <1>3. CASE CreateNodeMeasurements
    <2>1. /\ \A m \in measured' : m \in measured \/ m.node \in tracked
          /\ \A m \in measured : m.time # clock
      BY <1>3 DEF CreateNodeMeasurements, MeasuredNodes, MeasuredOnce
    <2>2. QED
      BY <1>3, <2>1 DEF CreateNodeMeasurements, TrackedActive, ActiveRows
  <1>4. CASE CreateOrganizationMeasurements
    BY <1>4 DEF CreateOrganizationMeasurements, TrackedActive, ActiveRows
  <1>5. CASE SnapShotsDone
    BY <1>5 DEF SnapShotsDone, KeptActive, TrackedActive, ActiveRows, Ids, dbVars, Kind, TypeOK
  <1>6. CASE UpdateOrCreateSnapShots /\ ~SnapShotsDone
    <2>1. /\ kind' = kind /\ tracked' = tracked
          /\ phase' \in {"load", "update", "create"}
      BY <1>6 DEF UpdateOrCreateSnapShots, LoadActiveSnapShots, KeepSnapShot, ArchiveSnapShot,
         ArchiveSnapShotFails, Visiting, CreateUpdatedSnapShot, CreateUpdatedSnapShotFails,
         StoreHomeDomainFails, GetEntitiesWithoutSnapShots, CreateSnapShot
    <2>2. kind = "org" => ActiveRows("node")' = ActiveRows("node")
      BY <1>6, OthersUntouched DEF ActiveRows, Kind
    <2>3. kind' = "org" => tracked' \subseteq Ids(ActiveRows("node"))'
      BY <2>1, <2>2 DEF TrackedActive, Ids
    <2>4. QED
      BY <2>1, <2>3 DEF TrackedActive
  <1>7. QED
    BY <1>1, <1>2, <1>3, <1>4, <1>5, <1>6 DEF Next, CreateMeasurements

LEMMA VStep == ASSUME VInv, [Next]_vars PROVE VInv'
  <1>1. CASE Next
    BY <1>1, TypeStep, LoopsStep, RowTimesStep, CompletedTimesStep, MeasuredOnceStep,
       KeptActiveStep, TrackedActiveStep DEF VInv, TypeInv
  <1>2. CASE UNCHANGED vars
    BY <1>2 DEF vars, dbVars, loopVars, VInv, TypeInv, TypeOK, Loops, LoopsIdle, RowTimes,
       CompletedTimes, MeasuredOnce, KeptActive, TrackedActive, ActiveRows, Ids
  <1>3. QED
    BY <1>1, <1>2

LEMMA VInvariant == Spec => []VInv
  BY VStep, InitVInv, PTL DEF Spec
-----------------------------------------------------------------------------
(* What readers are shown. *)

LEMMA NetworkType == ASSUME TypeOK, NEW t PROVE NetworkAt(t) \in History!Network
  <1>1. \A r \in rows["node"] : r.id \in Node /\ r.content \in Content
    BY DEF TypeOK, Kind, Row, Id, Entity
  <1>2. \A r \in rows["org"] : r.id \in Org /\ r.content \in SUBSET Node
    BY DEF TypeOK, Kind, Row, Id, Entity
  <1>3. View("node", t) \subseteq [id : Node, content : Content]
    BY <1>1 DEF View, ActiveAt
  <1>4. View("org", t) \subseteq [id : Org, content : SUBSET Node]
    BY <1>2 DEF View, ActiveAt
  <1>5. Reached(t) \subseteq Node
    BY DEF Reached, TypeOK
  <1>6. QED
    BY <1>3, <1>4, <1>5 DEF NetworkAt, History!Network

LEMMA InitHistory == Init => History!Init
  <1> SUFFICES ASSUME Init PROVE History!Init
    OBVIOUS
  <1>1. TypeOK
    BY InitIInv DEF IInv, TypeInv
  <1>2. NetworkAt(0) \in History!Network /\ 0 \in Time
    BY <1>1, NetworkType, TimeFacts
  <1>3. \A n \in Reached(0) : \E v \in View("node", 0) : v.id = n
    <2>a. PICK seeds \in SUBSET Node : \E content \in [seeds -> Content] :
            /\ rows["node"] = {[id |-> n, since |-> 0, start |-> 0, end |-> MaxDate,
                                content |-> content[n], ipChange |-> FALSE] : n \in seeds}
            /\ \A m \in measured : m.node \in seeds
      BY DEF Init, Kind
    <2>1. PICK content \in [seeds -> Content] :
            /\ rows["node"] = {[id |-> n, since |-> 0, start |-> 0, end |-> MaxDate,
                                content |-> content[n], ipChange |-> FALSE] : n \in seeds}
            /\ \A m \in measured : m.node \in seeds
      BY <2>a
    <2>2. SUFFICES ASSUME NEW n \in seeds
                   PROVE  \E v \in View("node", 0) : v.id = n
      BY <2>1 DEF Reached
    <2> DEFINE r == [id |-> n, since |-> 0, start |-> 0, end |-> MaxDate,
                     content |-> content[n], ipChange |-> FALSE]
    <2>3. r \in rows["node"] /\ r.id = n /\ r.start = 0 /\ r.end = MaxDate
      BY <2>1
    <2> HIDE DEF r
    <2>4. r \in ActiveAt("node", 0)
      BY <2>3, TimeFacts DEF ActiveAt
    <2>5. [id |-> r.id, content |-> r.content] \in View("node", 0)
      BY <2>4 DEF View
    <2>6. QED
      BY <2>3, <2>5
  <1>4. History!Complete(NetworkAt(0))
    BY <1>3 DEF History!Complete, NetworkAt
  <1>5. phase \notin Archiving /\ completed = {0}
    BY DEF Init, Archiving
  <1>6. QED
    BY <1>2, <1>4, <1>5 DEF History!Init

\* A step that shows the same networks, and may end the archiver.
LEMMA Invisible ==
  ASSUME completed' = completed, \A t \in completed : NetworkAt(t)' = NetworkAt(t),
         (phase' \in Archiving) => (phase \in Archiving)
  PROVE  History!Finish \/ UNCHANGED History!vars
  <1>1. [t \in completed |-> NetworkAt(t)]' = [t \in completed |-> NetworkAt(t)]
    OBVIOUS
  <1>2. CASE (phase \in Archiving) = (phase' \in Archiving)
    BY <1>1, <1>2 DEF History!vars
  <1>3. CASE phase \in Archiving /\ phase' \notin Archiving
    BY <1>1, <1>3 DEF History!Finish
  <1>4. QED
    BY <1>2, <1>3

\* The latest of the published networks, while the archiver is at work.
LEMMA LatestIsClock ==
  ASSUME VInv, phase \in Archiving
  PROVE  clock \in completed /\ History!Latest = clock
  <1>1. /\ clock \in completed /\ clock \in Nat
        /\ \A t \in completed : t \in Nat /\ t <= clock
    BY TimeFacts DEF VInv, CompletedTimes, TypeInv, TypeOK
  <1>2. \A t \in completed : (\A u \in completed : u <= t) => t = clock
    BY <1>1
  <1>3. QED
    BY <1>1, <1>2 DEF History!Latest

LEMMA SavingInvisible ==
  ASSUME VInv, Next, ~CompleteUpdate, phase \notin Archiving \/ AbortSave \/ Crash
  PROVE  History!Finish \/ UNCHANGED History!vars
  <1> USE DEF VInv, TypeInv
  <1>0. \A t \in completed : t \in Nat /\ clock \in Nat
    BY TimeFacts DEF TypeOK
  <1>a. CASE AbortSave \/ Crash
    <2>1. /\ UNCHANGED <<rows, measured, completed>> /\ phase' = "idle"
      BY <1>a DEF AbortSave, Crash, Forget, dbVars
    <2>2. \A t \in completed : NetworkAt(t)' = NetworkAt(t)
      BY <2>1 DEF NetworkAt, View, ActiveAt, Reached
    <2>3. QED
      BY <2>1, <2>2, Invisible DEF Archiving
  <1>b. CASE ~(AbortSave \/ Crash)
    <2>1. ~ArchiveNodes
      BY <1>b DEF ArchiveNodes, ArchiveInactiveValidators, ArchiveInactiveWatchers,
         ArchiveInactiveWithMultipleIpSamePort, DemoteValidators, Archiving
    <2>2. completed' = completed /\ phase' \notin Archiving
      BY <1>b, <2>1 DEF Next, StartUpdate, CreateMeasurements, CreateNodeMeasurements,
         CreateOrganizationMeasurements, UpdateOrCreateSnapShots, LoadActiveSnapShots,
         KeepSnapShot, ArchiveSnapShot, ArchiveSnapShotFails, Visiting, CreateUpdatedSnapShot,
         CreateUpdatedSnapShotFails, StoreHomeDomainFails, GetEntitiesWithoutSnapShots,
         CreateSnapShot, SnapShotsDone, dbVars, Archiving
    <2>3. measured' = measured \/ CreateNodeMeasurements
      BY <1>b, <2>1 DEF Next, StartUpdate, CreateMeasurements,
         CreateOrganizationMeasurements, UpdateOrCreateSnapShots, LoadActiveSnapShots,
         KeepSnapShot, ArchiveSnapShot, ArchiveSnapShotFails, Visiting, CreateUpdatedSnapShot,
         CreateUpdatedSnapShotFails, StoreHomeDomainFails, GetEntitiesWithoutSnapShots,
         CreateSnapShot, SnapShotsDone, dbVars
    <2>4. phase = "idle" \/ clock \notin completed
      BY <1>b, <2>1 DEF CompletedTimes, Saving, Archiving, TypeOK
    <2>5. ASSUME NEW t \in completed
          PROVE  NetworkAt(t)' = NetworkAt(t)
      <3>1. t < clock \/ phase = "idle"
        BY <1>0, <2>4 DEF CompletedTimes
      <3>2. View("node", t)' = View("node", t) /\ View("org", t)' = View("org", t)
        BY <3>1, ViewUnchanged DEF Kind
      <3>3. Reached(t)' = Reached(t)
        <4>1. CASE measured' = measured
          BY <4>1 DEF Reached
        <4>2. CASE CreateNodeMeasurements
          <5>1. phase = "measure" /\ t # clock
            BY <4>2, <2>4 DEF CreateNodeMeasurements
          <5>2. \A m : m.time = t => (m \in measured' <=> m \in measured)
            BY <4>2, <5>1 DEF CreateNodeMeasurements
          <5>3. QED
            BY <5>2 DEF Reached
        <4>3. QED
          BY <2>3, <4>1, <4>2
      <3>4. QED
        BY <3>2, <3>3 DEF NetworkAt
    <2>6. QED
      BY <2>2, <2>5, Invisible
  <1>c. QED
    BY <1>a, <1>b

LEMMA Publishes == ASSUME VInv, CompleteUpdate PROVE History!Publish
  <1> USE DEF VInv, TypeInv
  <1>1. /\ phase \notin Archiving /\ phase' \in Archiving
        /\ completed' = completed \cup {clock} /\ UNCHANGED <<rows, measured>>
    BY DEF CompleteUpdate, Archiving
  <1>2. clock \in Time /\ clock \in Nat /\ clock < MaxDate /\ clock \notin completed
    BY TimeFacts DEF TypeOK, CompleteUpdate, CompletedTimes, Saving
  <1>3. \A t : NetworkAt(t)' = NetworkAt(t)
    BY <1>1 DEF NetworkAt, View, ActiveAt, Reached
  <1>4. \A t \in completed : t < clock
    <2>1. \A t \in completed : t \in Nat /\ t <= clock
      BY TimeFacts DEF CompletedTimes, TypeOK
    <2>2. QED
      BY <1>2, <2>1
  <1>5. \A n \in Reached(clock) : \E v \in View("node", clock) : v.id = n
    <2> SUFFICES ASSUME NEW n \in Reached(clock)
                 PROVE  \E v \in View("node", clock) : v.id = n
      OBVIOUS
    <2>1. n \in tracked /\ kind = "org"
      BY DEF Reached, CompleteUpdate, TrackedActive, LoopsIdle
    <2>2. PICK r \in ActiveRows("node") : r.id = n
      BY <2>1 DEF TrackedActive, Ids
    <2>3. r \in ActiveAt("node", clock)
      BY <1>2, <2>2 DEF ActiveRows, ActiveAt, IsActive, RowTimes, Kind
    <2>4. [id |-> r.id, content |-> r.content] \in View("node", clock)
      BY <2>3 DEF View
    <2>5. QED
      BY <2>2, <2>4
  <1>6. NetworkAt(clock) \in History!Network /\ History!Complete(NetworkAt(clock))
    BY <1>5, NetworkType DEF History!Complete, NetworkAt
  <1> DEFINE h == [t \in completed |-> NetworkAt(t)]
  <1>7. h' = [t \in completed \cup {clock} |-> NetworkAt(t)]
    BY <1>1, <1>3
  <1>8. h' = [t \in DOMAIN h \cup {clock} |-> IF t = clock THEN h'[clock] ELSE h[t]]
    BY <1>2, <1>7
  <1>9. /\ clock \in DOMAIN h' /\ h'[clock] \in History!Network
        /\ History!Complete(h'[clock]) /\ \A t \in DOMAIN h : t < clock
    BY <1>4, <1>6, <1>7
  <1> HIDE DEF h
  <1>10. \E t \in DOMAIN h' :
           /\ t \in Time /\ \A u \in DOMAIN h : u < t
           /\ h'[t] \in History!Network /\ History!Complete(h'[t])
           /\ h' = [u \in DOMAIN h \cup {t} |-> IF u = t THEN h'[t] ELSE h[u]]
    BY <1>2, <1>8, <1>9
  <1>11. QED
    BY <1>1, <1>10 DEF History!Publish, h

\* The archiver looks for nodes with only inactive measurements, of this update among others.
LEMMA InactiveNotReached ==
  ASSUME VInv, clock \in completed,
         NEW n \in InactiveNow \cup FindXDaysInactive(WatcherDays)
  PROVE  n \notin Reached(clock)
  <1> USE DEF VInv, TypeInv
  <1>1. CASE n \in InactiveNow
    BY <1>1 DEF InactiveNow, Reached, MeasuredOnce
  <1>2. CASE n \in FindXDaysInactive(WatcherDays)
    <2>1. clock \in Nat /\ DayLength \in Nat /\ DayLength > 0
          /\ WatcherDays \in Nat /\ WatcherDays >= 1
      BY TimeFacts, SnapShotterAssumption DEF TypeOK
    <2>2. WatcherDays * DayLength >= DayLength
      BY <2>1
    <2>3. clock % DayLength \in Nat /\ clock % DayLength < DayLength
      BY <2>1
    <2>4. WatcherDays * DayLength \in Nat
      BY <2>1
    <2>5. DayOf(clock) >= clock - WatcherDays * DayLength
      BY <2>1, <2>2, <2>3, <2>4 DEF DayOf
    <2>6. QED
      BY <1>2, <2>5 DEF FindXDaysInactive, Window, Reached
  <1>3. QED
    BY <1>1, <1>2

\* Ending active snapshots takes their nodes out of the view of the present.
LEMMA ViewAfterEnding ==
  ASSUME VInv, NEW S, S \subseteq ActiveRows("node"), rows' = Ended("node", S), clock' = clock
  PROVE  /\ View("org", clock)' = View("org", clock)
         /\ View("node", clock)' \subseteq View("node", clock)
         /\ \A v \in View("node", clock) \ View("node", clock)' : \E r \in S : r.id = v.id
  <1> USE DEF VInv, TypeInv
  <1>1. /\ S \in SUBSET rows["node"] /\ clock \in Nat
        /\ \A r \in S : r \in Row("node")
    BY ActiveRowsType, TimeFacts DEF Kind, TypeOK
  <1>2. /\ rows'["node"] = (rows["node"] \ S) \cup {[r EXCEPT !.end = clock] : r \in S}
        /\ rows'["org"] = rows["org"]
    BY <1>1, EndedType DEF Kind
  <1>3. \A r \in S : [r EXCEPT !.end = clock].end = clock
    BY <1>1 DEF Row
  <1>4. ActiveAt("node", clock)' = ActiveAt("node", clock) \ S
    <2> DEFINE ended == {[r EXCEPT !.end = clock] : r \in S}
    <2>1. \A e \in ended : e.end = clock
      BY <1>3
    <2>2. rows'["node"] = (rows["node"] \ S) \cup ended
      BY <1>2
    <2> HIDE DEF ended
    <2>3. ActiveAt("node", clock)' = {r \in (rows["node"] \ S) \cup ended :
                                        r.start <= clock /\ clock < r.end}
      BY <2>2 DEF ActiveAt
    <2>4. QED
      BY <1>1, <2>1, <2>3 DEF ActiveAt
  <1>5. ActiveAt("org", clock)' = ActiveAt("org", clock)
    BY <1>2 DEF ActiveAt
  <1>6. View("org", clock)' = View("org", clock)
    BY <1>5 DEF View
  <1>7. View("node", clock)' \subseteq View("node", clock)
    BY <1>4 DEF View
  <1>8. ASSUME NEW v \in View("node", clock), v \notin View("node", clock)'
        PROVE  \E r \in S : r.id = v.id
    <2>1. PICK r \in ActiveAt("node", clock) : v = [id |-> r.id, content |-> r.content]
      BY DEF View
    <2>2. r \in S
      BY <1>4, <1>8, <2>1 DEF View
    <2>3. QED
      BY <2>1, <2>2
  <1>9. QED
    BY <1>6, <1>7, <1>8

LEMMA Retires ==
  ASSUME VInv, NEW S, S \subseteq ActiveRows("node"), rows' = Ended("node", S),
         \A r \in S : r.id \in InactiveNow \cup FindXDaysInactive(WatcherDays),
         phase \in Archiving, phase' \in Archiving, UNCHANGED <<clock, completed, measured>>, Next
  PROVE  History!Retire
  <1> DEFINE h == [t \in completed |-> NetworkAt(t)]
  <1> DEFINE gone == View("node", clock) \ View("node", clock)'
  <1>1. clock \in completed /\ History!Latest = clock
    BY LatestIsClock
  <1>2. \A v \in gone : v \in View("node", clock) /\ v.id \notin Reached(clock)
    BY <1>1, ViewAfterEnding, InactiveNotReached
  <1>3. \A t \in completed : t # clock => NetworkAt(t)' = NetworkAt(t)
    <2> SUFFICES ASSUME NEW t \in completed, t # clock
                 PROVE  NetworkAt(t)' = NetworkAt(t)
      OBVIOUS
    <2>1. t < clock
      BY TimeFacts DEF VInv, CompletedTimes, TypeInv, TypeOK
    <2>2. View("node", t)' = View("node", t) /\ View("org", t)' = View("org", t)
      BY <2>1, ViewUnchanged DEF VInv, Kind
    <2>3. Reached(t)' = Reached(t)
      BY DEF Reached
    <2>4. QED
      BY <2>2, <2>3 DEF NetworkAt
  <1>4. NetworkAt(clock)' = [NetworkAt(clock) EXCEPT !.nodes = @ \ gone]
    <2>1. /\ View("org", clock)' = View("org", clock)
          /\ View("node", clock)' = View("node", clock) \ gone
      BY ViewAfterEnding
    <2>2. Reached(clock)' = Reached(clock)
      BY DEF Reached
    <2> HIDE DEF gone
    <2> DEFINE left == [nodes |-> View("node", clock) \ gone,
                        organizations |-> View("org", clock), reached |-> Reached(clock)]
    <2>3. NetworkAt(clock)' = left
      BY <2>1, <2>2 DEF NetworkAt
    <2>4. [NetworkAt(clock) EXCEPT !.nodes = @ \ gone] = left
      <3>1. \A v, o, r, w : [[nodes |-> v, organizations |-> o, reached |-> r] EXCEPT !.nodes = w]
                             = [nodes |-> w, organizations |-> o, reached |-> r]
        OBVIOUS
      <3>2. NetworkAt(clock).nodes = View("node", clock)
        BY DEF NetworkAt
      <3>3. QED
        BY <3>1, <3>2 DEF NetworkAt
    <2> HIDE DEF left
    <2>5. QED
      BY <2>3, <2>4
  <1>5. gone \in SUBSET {v \in h[clock].nodes : v.id \notin h[clock].reached}
    BY <1>1, <1>2 DEF NetworkAt
  <1>6. h' = [h EXCEPT ![clock].nodes = @ \ gone]
    <2> HIDE DEF gone
    <2>1. h' = [t \in completed |-> IF t = clock THEN [NetworkAt(clock) EXCEPT !.nodes = @ \ gone]
                                                 ELSE NetworkAt(t)]
      BY <1>3, <1>4
    <2>2. QED
      BY <1>1, <2>1
  <1> HIDE DEF h, gone
  <1>7. \E G \in SUBSET {v \in h[clock].nodes : v.id \notin h[clock].reached} :
          h' = [h EXCEPT ![clock].nodes = @ \ G]
    BY <1>5, <1>6
  <1>8. QED
    BY <1>1, <1>7 DEF History!Retire, h

LEMMA ArchiverRetires ==
  ASSUME VInv, ArchiveNodes
  PROVE  History!Next \/ UNCHANGED History!vars
  <1>1. Next /\ TypeOK
    BY DEF Next, VInv, TypeInv
  <1>2. CASE ArchiveInactiveValidators \/ DemoteValidators
    <2>1. rows' = rows /\ UNCHANGED <<completed, measured>>
          /\ ((phase' \in Archiving) => (phase \in Archiving))
      BY <1>1, <1>2, ValidatorsUntouched DEF ArchiveInactiveValidators, DemoteValidators, Archiving
    <2>2. \A t \in completed : NetworkAt(t)' = NetworkAt(t)
      BY <2>1 DEF NetworkAt, View, ActiveAt, Reached
    <2>3. QED
      BY <2>1, <2>2, Invisible DEF History!Next
  <1>3. CASE ArchiveInactiveWatchers
    BY <1>1, <1>3, Retires DEF ArchiveInactiveWatchers, Archiving, History!Next
  <1>4. CASE ArchiveInactiveWithMultipleIpSamePort
    BY <1>1, <1>4, Retires DEF ArchiveInactiveWithMultipleIpSamePort, Archiving, History!Next
  <1>5. QED
    BY <1>2, <1>3, <1>4 DEF ArchiveNodes

\* A reader sees a history of networks that only the next completed update extends and only
\* the archiver takes nodes out of, whichever writes fail.
THEOREM Refinement == Spec => ShowsHistory
  <1>1. VInv /\ [Next]_vars => [History!Next]_(History!vars)
    <2> SUFFICES ASSUME VInv, [Next]_vars PROVE History!Next \/ UNCHANGED History!vars
      OBVIOUS
    <2>1. CASE CompleteUpdate
      BY <2>1, Publishes DEF History!Next
    <2>2. CASE ArchiveNodes
      BY <2>2, ArchiverRetires
    <2>3. CASE Next /\ ~CompleteUpdate /\ ~ArchiveNodes
      <3>1. phase \notin Archiving \/ AbortSave \/ Crash
        BY <2>3 DEF Next, StartUpdate, CreateMeasurements, CreateNodeMeasurements,
           CreateOrganizationMeasurements, UpdateOrCreateSnapShots, LoadActiveSnapShots,
           KeepSnapShot, ArchiveSnapShot, ArchiveSnapShotFails, Visiting, CreateUpdatedSnapShot,
           CreateUpdatedSnapShotFails, StoreHomeDomainFails, GetEntitiesWithoutSnapShots,
           CreateSnapShot, SnapShotsDone, Archiving
      <3>2. QED
        BY <2>3, <3>1, SavingInvisible DEF History!Next
    <2>4. CASE UNCHANGED vars
      <3>1. \A t \in completed : NetworkAt(t)' = NetworkAt(t)
        BY <2>4 DEF vars, dbVars, NetworkAt, View, ActiveAt, Reached
      <3>2. QED
        BY <2>4, <3>1, Invisible DEF vars, dbVars, History!Next
    <2>5. QED
      BY <2>1, <2>2, <2>3, <2>4
  <1>2. QED
    BY <1>1, InitHistory, VInvariant, PTL DEF Spec, ShowsHistory, History!Spec
-----------------------------------------------------------------------------
(* What the abstract specification promises holds of the tables: theorems  *)
(* of NetworkHistory, carried over by the refinement.                      *)

\* The nodes an update reached are shown in the network of its time, however long ago it
\* was and whatever the archiver ended since.
ReachedAreShown ==
  \A t \in completed : \A n \in NetworkAt(t).reached : \E v \in NetworkAt(t).nodes : v.id = n

\* A network that was shown is shown again.  Until the archiver of its own update is over, it
\* may lose nodes that were not reached; then it is settled.
NetworkSettles(t) ==
  /\ t \in completed'
  /\ NetworkAt(t)' # NetworkAt(t) =>
       /\ t = clock /\ phase \in Archiving
       /\ \E S \in SUBSET {v \in NetworkAt(t).nodes : v.id \notin NetworkAt(t).reached} :
            NetworkAt(t)' = [NetworkAt(t) EXCEPT !.nodes = @ \ S]

NetworksSettle == [][\A t \in completed : NetworkSettles(t)]_vars

\* A step of the history as a step of each of its networks.
LEMMA HistoryStep ==
  ASSUME VInv, [History!Next]_(History!vars), NEW t \in completed
  PROVE  NetworkSettles(t)
  <1> DEFINE h == [u \in completed |-> NetworkAt(u)]
  <1>1. /\ DOMAIN h = completed /\ h[t] = NetworkAt(t)
        /\ DOMAIN h' = completed' /\ \A u \in completed' : h'[u] = NetworkAt(u)'
    OBVIOUS
  <1>2. CASE h' = h
    <2>1. t \in completed' /\ h'[t] = h[t]
      BY <1>1, <1>2
    <2>2. QED
      BY <1>1, <2>1 DEF NetworkSettles
  <1>3. CASE History!Publish
    <2> HIDE DEF h
    <2>1. PICK u \in DOMAIN h' :
            /\ \A w \in DOMAIN h : w < u
            /\ h' = [w \in DOMAIN h \cup {u} |-> IF w = u THEN h'[u] ELSE h[w]]
      BY <1>3 DEF History!Publish, h
    <2>2. t # u
      <3>1. t \in Nat
        BY TimeFacts DEF VInv, TypeInv, TypeOK
      <3>2. t < u
        BY <1>1, <2>1
      <3>3. ~ (t < t)
        BY <3>1
      <3>4. QED
        BY <3>2, <3>3
    <2>3. t \in DOMAIN h' /\ h'[t] = h[t]
      BY <1>1, <2>1, <2>2
    <2>4. QED
      BY <1>1, <2>3 DEF NetworkSettles
  <1>4. CASE History!Retire
    <2>1. phase \in Archiving
      BY <1>4 DEF History!Retire
    <2>2. clock \in completed /\ History!Latest = clock
      BY <2>1, LatestIsClock
    <2> HIDE DEF h
    <2>3. PICK S \in SUBSET {v \in h[clock].nodes : v.id \notin h[clock].reached} :
            h' = [h EXCEPT ![clock].nodes = @ \ S]
      BY <1>4, <2>2 DEF History!Retire, h
    <2>4. DOMAIN h' = completed
      BY <1>1, <2>3
    <2>5. CASE t # clock
      <3>1. t \in DOMAIN h' /\ h'[t] = h[t]
        BY <1>1, <2>3, <2>5
      <3>2. QED
        BY <1>1, <3>1 DEF NetworkSettles
    <2>6. CASE t = clock
      <3>1. t \in DOMAIN h' /\ h'[t] = [h[t] EXCEPT !.nodes = @ \ S]
        BY <1>1, <2>3, <2>6
      <3>2. S \in SUBSET {v \in NetworkAt(t).nodes : v.id \notin NetworkAt(t).reached}
        BY <1>1, <2>3, <2>6
      <3>3. NetworkAt(t)' = [NetworkAt(t) EXCEPT !.nodes = @ \ S] /\ t \in completed'
        BY <1>1, <3>1
      <3>4. QED
        BY <2>1, <2>6, <3>2, <3>3 DEF NetworkSettles
    <2>7. QED
      BY <2>5, <2>6
  <1>5. CASE History!Finish
    BY <1>2, <1>5 DEF History!Finish
  <1>6. QED
    BY <1>2, <1>3, <1>4, <1>5 DEF History!Next, History!vars

\* A completed network is settled once its archiver is over: no later update, archiver, failed
\* write or crash changes what was shown of it.
THEOREM Settled == Spec => NetworksSettle
  <1>1. VInv /\ [History!Next]_(History!vars) => \A t \in completed : NetworkSettles(t)
    BY HistoryStep
  <1>2. QED
    BY <1>1, Refinement, VInvariant, PTL DEF ShowsHistory, History!Spec, NetworksSettle

LEMMA ReachedStayShown ==
  ASSUME ReachedAreShown, VInv, [History!Next]_(History!vars)
  PROVE  ReachedAreShown'
  <1> SUFFICES ASSUME NEW t \in completed', NEW n \in NetworkAt(t)'.reached
               PROVE  \E v \in NetworkAt(t)'.nodes : v.id = n
    BY DEF ReachedAreShown
  <1>1. CASE t \in completed
    <2>1. CASE NetworkAt(t)' = NetworkAt(t)
      BY <1>1, <2>1 DEF ReachedAreShown
    <2>2. CASE NetworkAt(t)' # NetworkAt(t)
      <3>1. PICK S \in SUBSET {v \in NetworkAt(t).nodes : v.id \notin NetworkAt(t).reached} :
              NetworkAt(t)' = [NetworkAt(t) EXCEPT !.nodes = @ \ S]
        BY <1>1, <2>2, HistoryStep DEF NetworkSettles
      <3>2. /\ NetworkAt(t)'.reached = NetworkAt(t).reached
            /\ NetworkAt(t)'.nodes = NetworkAt(t).nodes \ S
        BY <3>1 DEF NetworkAt
      <3>3. PICK v \in NetworkAt(t).nodes : v.id = n
        BY <1>1, <3>2 DEF ReachedAreShown
      <3>4. QED
        BY <3>1, <3>2, <3>3
    <2>3. QED
      BY <2>1, <2>2
  <1>2. CASE t \notin completed
    <2> DEFINE h == [u \in completed |-> NetworkAt(u)]
    <2>1. /\ DOMAIN h = completed /\ DOMAIN h' = completed'
          /\ \A u \in completed' : h'[u] = NetworkAt(u)'
      OBVIOUS
    <2>2. CASE History!Publish
      <3> HIDE DEF h
      <3>1. PICK u \in DOMAIN h' : /\ History!Complete(h'[u])
              /\ h' = [w \in DOMAIN h \cup {u} |-> IF w = u THEN h'[u] ELSE h[w]]
        BY <2>2 DEF History!Publish, h
      <3>2. u = t
        BY <1>2, <2>1, <3>1
      <3>3. QED
        BY <2>1, <3>1, <3>2 DEF History!Complete
    <2>3. CASE ~History!Publish
      <3> HIDE DEF h
      <3>1. h' = h \/ \E S : h' = [h EXCEPT ![History!Latest].nodes = @ \ S]
        BY <2>3 DEF History!Next, History!Retire, History!Finish, History!vars, h
      <3>2. DOMAIN h' = DOMAIN h
        BY <3>1
      <3>3. QED
        BY <1>2, <2>1, <3>2
    <2>4. QED
      BY <2>2, <2>3
  <1>3. QED
    BY <1>1, <1>2

\* Whoever asks for the network of a completed update is shown every node that it
\* reached, whichever writes fail.
THEOREM ReachedShown == Spec => []ReachedAreShown
  <1>1. History!Init => ReachedAreShown
    <2> SUFFICES ASSUME History!Init PROVE ReachedAreShown
      OBVIOUS
    <2> DEFINE h == [u \in completed |-> NetworkAt(u)]
    <2>1. DOMAIN h = completed /\ \A u \in completed : h[u] = NetworkAt(u)
      OBVIOUS
    <2> HIDE DEF h
    <2>2. PICK t \in Time, N \in History!Network : History!Complete(N) /\ h = [u \in {t} |-> N]
      BY DEF History!Init, h
    <2>3. QED
      BY <2>1, <2>2 DEF ReachedAreShown, History!Complete
  <1>2. ReachedAreShown /\ VInv /\ [History!Next]_(History!vars) => ReachedAreShown'
    BY ReachedStayShown
  <1>3. QED
    BY <1>1, <1>2, Refinement, VInvariant, PTL DEF ShowsHistory, History!Spec
===============================================================================

--------------------------- MODULE SnapShotterProofs ---------------------------
(***************************************************************************)
(* Theorems about SnapShotter for any sets of nodes, organizations and     *)
(* contents and any number of updates.                                     *)
(***************************************************************************)
EXTENDS SnapShotter, TLAPS

\* Snapshots start and end at the times of updates, and history points backwards.
RowTimes ==
  \A k \in Kind : \A r \in rows[k] :
    /\ r.start <= clock
    /\ IsActive(r) \/ (r.start <= r.end /\ r.end <= clock)

\* What the loops still have to visit: active snapshots, and entities of the network.
Loops ==
  /\ phase = "update" =>
       todo \subseteq ActiveRows(kind) /\ \A r \in replacing : net[kind][r.id] # NoEntity
  /\ phase = "create" => \A i \in missing : net[kind][i] # NoEntity

\* Nothing is left of a loop outside it.
LoopsIdle ==
  /\ phase # "update" => replacing = {} /\ todo = {}
  /\ phase # "create" => missing = {}
  /\ phase \in {"idle", "archiveValidators", "archiveWatchers", "archiveShared", "demote"} =>
       kind = "node" /\ kept = {}
  /\ phase \in {"measure", "measureOrgs", "complete"} => kind = "org"

TypeInv == TypeOK /\ Loops /\ LoopsIdle

\* The update loop: every active snapshot is still to be visited or will be
\* returned, and the one just archived has no active successor yet.
UpdateLoop ==
  phase = "update" =>
    /\ ActiveRows(kind) = todo \cup kept /\ todo \cap kept = {}
    /\ \A r \in replacing : r.id \notin Ids(ActiveRows(kind))
    /\ \A r, s \in replacing : r = s

\* The create loop only visits entities without an active snapshot.
CreateLoop ==
  phase = "create" => \A i \in missing : i \notin Ids(ActiveRows(kind))

\* The write that ends a snapshot does not fail, and neither does that of a home domain.
ArchiveSaves == "archive" \notin FailingWrites
HomeDomainSaves == "homeDomain" \notin FailingWrites

\* The loops lose sight of no active snapshot of kind k: where either of the writes fails
\* one is active that is left out of their result, and only organizations have home domains.
InSight(k) == ArchiveSaves /\ (k = "org" => HomeDomainSaves)

\* A course is as old as the update that created its first snapshot, and none is created
\* twice in an update.
Begun ==
  /\ \A k \in Kind : \A r \in rows[k] : r.since <= clock
  /\ phase \in {"load", "update"} => \A r \in rows[kind] \cup replacing : r.since < clock
  /\ phase \in {"load", "update", "create"} /\ kind = "node" =>
       \A r \in rows["org"] : r.since < clock
  /\ phase = "create" => \A r \in rows[kind] : r.id \in missing => r.since < clock

\* The course of the snapshot just ended has no active one, and is continued once.
Continued ==
  phase = "update" =>
    \A r \in replacing : \A s \in rows[kind] : r.id = s.id /\ r.since = s.since => ~IsActive(s)

CoursesDisjoint == \A k \in Kind : \A t \in Time : Disjoint(Course(k, t))

IInv ==
  /\ TypeInv
  /\ RowTimes
  /\ Begun /\ Continued /\ CoursesDisjoint
  /\ \A k \in Kind : InSight(k) => SingleActive(k) /\ Disjoint(rows[k])
  /\ InSight(kind) => UpdateLoop /\ CreateLoop
-----------------------------------------------------------------------------
(* Types of the parts. *)

LEMMA EndedType ==
  ASSUME TypeOK, NEW k \in Kind, NEW S \in SUBSET rows[k]
  PROVE  /\ Ended(k, S) = [j \in Kind |-> Ended(k, S)[j]]
         /\ Ended(k, S)[k] = (rows[k] \ S) \cup {[r EXCEPT !.end = clock] : r \in S}
         /\ \A j \in Kind : j # k => Ended(k, S)[j] = rows[j]
         /\ \A j \in Kind : Ended(k, S)[j] \subseteq Row(j)
  <1>1. Ended(k, S) = [j \in Kind |-> Ended(k, S)[j]]
    BY DEF Ended, TypeOK
  <1>2. Ended(k, S)[k] = (rows[k] \ S) \cup {[r EXCEPT !.end = clock] : r \in S}
    BY DEF Ended, TypeOK
  <1>3. \A j \in Kind : j # k => Ended(k, S)[j] = rows[j]
    BY DEF Ended, TypeOK
  <1>4. \A r \in S : [r EXCEPT !.end = clock] \in Row(k)
    BY DEF TypeOK, Row
  <1>5. QED
    BY <1>1, <1>2, <1>3, <1>4 DEF TypeOK

LEMMA NewRowType ==
  ASSUME TypeOK, NEW i \in Id(kind), NEW b \in Time, NEW c \in BOOLEAN, net[kind][i] # NoEntity
  PROVE  NewRow(i, b, c) \in Row(kind)
  <1>1. net[kind][i] \in Entity(kind)
    BY DEF TypeOK
  <1>2. clock \in Time /\ MaxDate \in Time \cup {MaxDate}
    BY DEF TypeOK
  <1>3. QED
    BY <1>1, <1>2 DEF NewRow, Row

LEMMA NothingReadType ==
  /\ NothingRead = [k \in Kind |-> NothingRead[k]]
  /\ \A k \in Kind : NothingRead[k] \in [Id(k) -> Entity(k) \cup {NoEntity}]
  BY DEF NothingRead

LEMMA ActiveRowsType ==
  ASSUME TypeOK, NEW k \in Kind
  PROVE  ActiveRows(k) \subseteq rows[k] /\ ActiveRows(k) \subseteq Row(k)
  BY DEF TypeOK, ActiveRows

\* The filter of trusted validators keeps nothing, so that neither of the
\* archiver's steps for validators changes a snapshot.
LEMMA ValidatorsUntouched ==
  ASSUME TypeOK, ArchiveInactiveValidators \/ DemoteValidators
  PROVE  rows' = rows
  <1>1. Ended("node", {}) = rows
    BY DEF Ended, TypeOK, Kind
  <1>2. CASE ArchiveInactiveValidators
    BY <1>1, <1>2 DEF ArchiveInactiveValidators, FilterTrustedValidators
  <1>3. CASE DemoteValidators
    <2>1. PICK watcher \in WatcherInfo :
            rows' = [Ended("node", {}) EXCEPT !["node"] = @ \cup
             {[r EXCEPT !.start = clock, !.ipChange = FALSE, !.content.info = watcher] : r \in {}}]
      BY <1>3 DEF DemoteValidators, FilterTrustedValidators
    <2>2. {[r EXCEPT !.start = clock, !.ipChange = FALSE, !.content.info = watcher] : r \in {}} = {}
      OBVIOUS
    <2>3. rows' = [rows EXCEPT !["node"] = @ \cup {}]
      BY <1>1, <2>1, <2>2
    <2>4. QED
      BY <2>3 DEF TypeOK, Kind
  <1>4. QED
    BY <1>2, <1>3
-----------------------------------------------------------------------------
(* What a step may do to the snapshot tables. *)

\* Ends some active snapshots of one kind.
Ends ==
  /\ phase # "idle" /\ clock' = clock
  /\ \E k \in Kind, S \in (SUBSET Row("node")) \cup (SUBSET Row("org")) :
       S \subseteq ActiveRows(k) /\ rows' = Ended(k, S)

\* Adds one snapshot that starts now, of an entity without an active one as
\* long as the loops have not lost sight of any.
Adds ==
  /\ phase # "idle" /\ clock' = clock
  /\ \E i \in Id(kind), b \in Time, c \in BOOLEAN :
       /\ UpdateLoop /\ CreateLoop => i \notin Ids(ActiveRows(kind))
       /\ net[kind][i] # NoEntity
       /\ rows' = [rows EXCEPT ![kind] = @ \cup {NewRow(i, b, c)}]

Leaves == rows' = rows /\ (clock' = clock \/ (clock' = clock + 1 /\ clock < MaxTime))

LEMMA StepOfRows ==
  ASSUME TypeInv, Next
  PROVE  \/ Ends \/ Leaves
         \/ \E r \in replacing : CreateUpdatedSnapShot(r) \/ StoreHomeDomainFails(r)
         \/ \E i \in missing : CreateSnapShot(i) /\ Insert(NewRow(i, clock, FALSE))
  <1> USE DEF TypeInv
  <1>1. CASE StartUpdate
    BY <1>1 DEF StartUpdate, dbVars, Leaves
  <1>2. CASE LoadActiveSnapShots \/ GetEntitiesWithoutSnapShots \/ SnapShotsDone
             \/ CreateUpdatedSnapShotFails \/ CreateMeasurements \/ AbortSave \/ Crash
    BY <1>2 DEF LoadActiveSnapShots, GetEntitiesWithoutSnapShots, SnapShotsDone,
       CreateUpdatedSnapShotFails, CreateMeasurements, CreateNodeMeasurements,
       CreateOrganizationMeasurements, CompleteUpdate, AbortSave, Crash, Forget, dbVars, Leaves
  <1>3. ASSUME NEW r \in todo, KeepSnapShot(r) \/ ArchiveSnapShotFails(r)
        PROVE  Leaves
    BY <1>3 DEF KeepSnapShot, ArchiveSnapShotFails, dbVars, Leaves
  <1>4. ASSUME NEW r \in todo, ArchiveSnapShot(r)
        PROVE  Ends
    <2>1. phase = "update" /\ clock' = clock /\ rows' = Ended(kind, {r})
      BY <1>4 DEF ArchiveSnapShot, Visiting
    <2>2. {r} \subseteq ActiveRows(kind)
      BY <2>1 DEF Loops
    <2>3. kind \in Kind /\ {r} \in (SUBSET Row("node")) \cup (SUBSET Row("org"))
      BY <2>2, ActiveRowsType DEF TypeOK, Kind
    <2>4. QED
      BY <2>1, <2>2, <2>3 DEF Ends
  <1>5. ASSUME NEW i \in missing, CreateSnapShot(i), ~Insert(NewRow(i, clock, FALSE))
        PROVE  Leaves
    BY <1>5 DEF CreateSnapShot, Leaves
  <1>6. CASE ArchiveInactiveValidators \/ DemoteValidators
    BY <1>6, ValidatorsUntouched DEF ArchiveInactiveValidators, DemoteValidators, Leaves
  <1>7. ASSUME NEW S \in SUBSET ActiveRows("node"), rows' = Ended("node", S),
               phase # "idle", clock' = clock
        PROVE  Ends
    BY <1>7, ActiveRowsType DEF Ends, Kind
  <1>8. CASE ArchiveInactiveWatchers
    BY <1>7, <1>8 DEF ArchiveInactiveWatchers
  <1>9. CASE ArchiveInactiveWithMultipleIpSamePort
    BY <1>7, <1>9 DEF ArchiveInactiveWithMultipleIpSamePort
  <1>10. QED
    BY <1>1, <1>2, <1>3, <1>4, <1>5, <1>6, <1>8, <1>9
       DEF Next, UpdateOrCreateSnapShots, ArchiveNodes

LEMMA RowsStep ==
  ASSUME TypeInv, Next
  PROVE  Ends \/ Adds \/ Leaves
  <1> USE DEF TypeInv
  <1>1. ASSUME NEW r \in replacing, CreateUpdatedSnapShot(r) \/ StoreHomeDomainFails(r)
        PROVE  Adds
    <2>1. phase = "update" /\ clock' = clock
      BY <1>1 DEF CreateUpdatedSnapShot, StoreHomeDomainFails
    <2>2. rows' = [rows EXCEPT ![kind] = @ \cup {NewRow(r.id, r.since, IpPortChanged(r))}]
      BY <1>1 DEF CreateUpdatedSnapShot, StoreHomeDomainFails, Insert
    <2>3. r.id \in Id(kind) /\ r.since \in Time /\ IpPortChanged(r) \in BOOLEAN
      BY DEF TypeOK, Row, IpPortChanged
    <2>4. /\ UpdateLoop => r.id \notin Ids(ActiveRows(kind))
          /\ net[kind][r.id] # NoEntity
      BY <2>1 DEF UpdateLoop, Loops
    <2>5. QED
      BY <2>1, <2>2, <2>3, <2>4 DEF Adds
  <1>2. ASSUME NEW i \in missing, CreateSnapShot(i), Insert(NewRow(i, clock, FALSE))
        PROVE  Adds
    <2>1. phase = "create" /\ clock' = clock
      BY <1>2 DEF CreateSnapShot
    <2>2. /\ i \in Id(kind) /\ clock \in Time /\ net[kind][i] # NoEntity
          /\ CreateLoop => i \notin Ids(ActiveRows(kind))
      BY <2>1 DEF TypeOK, CreateLoop, Loops
    <2>3. QED
      BY <1>2, <2>1, <2>2 DEF Adds, Insert
  <1>3. QED
    BY <1>1, <1>2, StepOfRows

LEMMA EndsEffect ==
  ASSUME TypeOK, NEW k \in Kind, NEW S, S \subseteq ActiveRows(k), rows' = Ended(k, S)
  PROVE  \A j \in Kind : \A r \in rows'[j] :
           \/ r \in rows[j] /\ (j = k => r \notin S)
           \/ j = k /\ r.end = clock /\ \E old \in S :
                r.id = old.id /\ r.start = old.start /\ r.content = old.content
  <1>1. S \in SUBSET rows[k] /\ S \subseteq Row(k)
    BY ActiveRowsType
  <1>2. SUFFICES ASSUME NEW j \in Kind, NEW r \in Ended(k, S)[j], j = k, r \notin rows[k] \ S
                 PROVE  r.end = clock /\ \E old \in S :
                          r.id = old.id /\ r.start = old.start /\ r.content = old.content
    BY <1>1, EndedType
  <1>3. PICK old \in S : r = [old EXCEPT !.end = clock]
    BY <1>1, <1>2, EndedType
  <1>4. old \in Row(k)
    BY <1>1
  <1>5. QED
    BY <1>3, <1>4 DEF Row

LEMMA AddsEffect ==
  ASSUME TypeOK, NEW i \in Id(kind), NEW b \in Time, NEW c \in BOOLEAN,
         rows' = [rows EXCEPT ![kind] = @ \cup {NewRow(i, b, c)}]
  PROVE  /\ \A j \in Kind : \A r \in rows'[j] :
              r \in rows[j] \/ (j = kind /\ r = NewRow(i, b, c))
         /\ \A j \in Kind : rows[j] \subseteq rows'[j]
         /\ NewRow(i, b, c).id = i /\ NewRow(i, b, c).start = clock /\ NewRow(i, b, c).end = MaxDate
  BY DEF TypeOK, NewRow
-----------------------------------------------------------------------------
(* The invariant holds initially. *)

LEMMA TimeFacts ==
  /\ MaxTime \in Nat /\ MaxDate \in Nat /\ MaxDate > MaxTime
  /\ 0 \in Time /\ Time \subseteq Nat
  /\ \A t \in Time : t <= MaxTime /\ t # MaxDate
  BY SnapShotterAssumption DEF MaxDate, Time

LEMMA InitIInv == Init => IInv
  <1> SUFFICES ASSUME Init PROVE IInv
    OBVIOUS
  <1>0. PICK seeds \in SUBSET Node : \E content \in [seeds -> Content] :
          /\ rows = [k \in Kind |-> IF k = "org" THEN {} ELSE
                   {[id |-> n, since |-> 0, start |-> 0, end |-> MaxDate,
                     content |-> content[n], ipChange |-> FALSE] : n \in seeds}]
          /\ \E up \in SUBSET seeds :
               measured = {[node |-> n, time |-> 0, active |-> n \in up] : n \in seeds}
    BY DEF Init
  <1>1. PICK content \in [seeds -> Content] :
          /\ rows = [k \in Kind |-> IF k = "org" THEN {} ELSE
                   {[id |-> n, since |-> 0, start |-> 0, end |-> MaxDate,
                     content |-> content[n], ipChange |-> FALSE] : n \in seeds}]
          /\ \E up \in SUBSET seeds :
               measured = {[node |-> n, time |-> 0, active |-> n \in up] : n \in seeds}
    BY <1>0
  <1>2. rows["org"] = {} /\ rows["node"] =
          {[id |-> n, since |-> 0, start |-> 0, end |-> MaxDate, content |-> content[n],
            ipChange |-> FALSE] : n \in seeds}
    BY <1>1 DEF Kind
  <1>3. clock = 0 /\ phase = "idle" /\ kind = "node"
    BY DEF Init
  <1>4. ASSUME NEW r \in rows["node"]
        PROVE  r \in Row("node") /\ r.start = 0 /\ r.end = MaxDate
    <2>1. PICK n \in seeds : r = [id |-> n, since |-> 0, start |-> 0, end |-> MaxDate,
                                  content |-> content[n], ipChange |-> FALSE]
      BY <1>2
    <2>2. n \in Id("node") /\ content[n] \in Entity("node")
      BY DEF Id, Entity
    <2>3. QED
      BY <2>1, <2>2, TimeFacts DEF Row
  <1>5. measured \subseteq [node : Node, time : Time, active : BOOLEAN]
    <2>1. PICK up \in SUBSET seeds :
            measured = {[node |-> n, time |-> 0, active |-> n \in up] : n \in seeds}
      BY <1>1
    <2>2. ASSUME NEW n \in seeds
          PROVE  [node |-> n, time |-> 0, active |-> n \in up] \in
                   [node : Node, time : Time, active : BOOLEAN]
      <3>1. n \in Node /\ (n \in up) \in BOOLEAN
        OBVIOUS
      <3>2. QED
        BY <3>1, TimeFacts, Zenon
    <2>3. QED
      BY <2>1, <2>2
  <1>6. TypeOK
    BY <1>1, <1>2, <1>4, <1>5, NothingReadType, TimeFacts DEF Init, TypeOK, Kind
  <1>7. RowTimes /\ \A k \in Kind : SingleActive(k) /\ Disjoint(rows[k])
    <2>1. ASSUME NEW r \in rows["node"], NEW s \in rows["node"], r.id = s.id
          PROVE  r = s
      <3>1. PICK n \in seeds : r = [id |-> n, since |-> 0, start |-> 0, end |-> MaxDate,
                                    content |-> content[n], ipChange |-> FALSE]
        BY <1>2
      <3>2. PICK m \in seeds : s = [id |-> m, since |-> 0, start |-> 0, end |-> MaxDate,
                                    content |-> content[m], ipChange |-> FALSE]
        BY <1>2
      <3>3. QED
        BY <2>1, <3>1, <3>2
    <2>2. QED
      BY <1>2, <1>3, <1>4, <2>1, TimeFacts DEF RowTimes, SingleActive, Disjoint, ActiveRows,
         IsActive, Kind
  <1>8. UpdateLoop /\ CreateLoop /\ Loops /\ LoopsIdle
    BY DEF Init, UpdateLoop, CreateLoop, Loops, LoopsIdle
  <1>9. CoursesDisjoint
    BY <1>7 DEF CoursesDisjoint, Course, Disjoint
  <1>10. Begun /\ Continued
    BY <1>2, <1>3, TimeFacts DEF Begun, Continued, Kind
  <1>11. QED
    BY <1>6, <1>7, <1>8, <1>9, <1>10 DEF IInv, TypeInv
-----------------------------------------------------------------------------
(* Every step preserves its parts. *)

LEMMA TypeStep ==
  ASSUME TypeInv, Next
  PROVE  TypeOK'
  <1> USE DEF TypeInv
  <1>1. CASE StartUpdate
    <2>1. PICK reached \in (SUBSET Node) \ {{}} :
          \E nodes \in CrawledNodes(reached), orgs \in TomlOrganizations :
            /\ net' = [k \in Kind |-> IF k = "node" THEN nodes ELSE orgs]
            /\ active' = reached
      BY <1>1 DEF StartUpdate
    <2>2. \A k \in Kind : net'[k] \in [Id(k) -> Entity(k) \cup {NoEntity}]
      BY <2>1 DEF CrawledNodes, TomlOrganizations, Kind, Id, Entity
    <2>3. net' = [k \in Kind |-> net'[k]]
      BY <2>1
    <2>4. clock' \in Time
      BY <1>1, SnapShotterAssumption DEF StartUpdate, TypeOK, Time
    <2>5. kind = "node" /\ todo = {} /\ kept \subseteq Row("node") /\ replacing = {} /\ missing = {}
      BY <1>1 DEF StartUpdate, LoopsIdle, TypeOK
    <2>6. QED
      BY <1>1, <2>1, <2>2, <2>3, <2>4, <2>5 DEF StartUpdate, dbVars, loopVars, TypeOK, Kind
  <1>2. CASE LoadActiveSnapShots
    BY <1>2, ActiveRowsType DEF LoadActiveSnapShots, LoopsIdle, TypeOK, dbVars
  <1>3. ASSUME NEW r \in todo, KeepSnapShot(r)
        PROVE  TypeOK'
    BY <1>3 DEF KeepSnapShot, TypeOK, dbVars
  <1>4. ASSUME NEW r \in todo, ArchiveSnapShotFails(r)
        PROVE  TypeOK'
    BY <1>4 DEF ArchiveSnapShotFails, TypeOK, dbVars
  <1>5. ASSUME NEW r \in todo, ArchiveSnapShot(r)
        PROVE  TypeOK'
    <2>1. {r} \in SUBSET rows[kind]
      BY <1>5, ActiveRowsType DEF ArchiveSnapShot, Visiting, Loops, TypeOK
    <2>2. rows' = [j \in Kind |-> rows'[j]] /\ \A j \in Kind : rows'[j] \subseteq Row(j)
      <3>1. rows' = Ended(kind, {r}) /\ kind \in Kind
        BY <1>5 DEF ArchiveSnapShot, TypeOK
      <3>2. QED
        BY <2>1, <3>1, EndedType
    <2>3. [r EXCEPT !.end = clock] \in Row(kind)
      BY DEF TypeOK, Row
    <2>4. replacing' \subseteq Row(kind) /\ todo' \subseteq Row(kind)
      BY <1>5, <2>3 DEF ArchiveSnapShot, TypeOK
    <2>5. QED
      BY <1>5, <2>2, <2>4 DEF ArchiveSnapShot, TypeOK
  <1>6. ASSUME NEW i \in Id(kind), NEW b \in Time, NEW c \in BOOLEAN,
               net[kind][i] # NoEntity, Insert(NewRow(i, b, c))
        PROVE  /\ rows' = [j \in Kind |-> rows'[j]] /\ \A j \in Kind : rows'[j] \subseteq Row(j)
               /\ kept' \subseteq Row(kind)
    <2>1. NewRow(i, b, c) \in Row(kind)
      BY <1>6, NewRowType
    <2>2. rows' = [rows EXCEPT ![kind] = @ \cup {NewRow(i, b, c)}] /\ kept' = kept \cup {NewRow(i, b, c)}
      BY <1>6 DEF Insert
    <2>3. rows' = [j \in Kind |-> rows'[j]]
      BY <2>2 DEF TypeOK
    <2>4. \A j \in Kind : rows'[j] = IF j = kind THEN rows[j] \cup {NewRow(i, b, c)} ELSE rows[j]
      BY <2>2 DEF TypeOK
    <2>5. ASSUME NEW j \in Kind
          PROVE  rows'[j] \subseteq Row(j)
      <3>1. rows[j] \subseteq Row(j)
        BY DEF TypeOK
      <3>2. QED
        BY <2>1, <2>4, <3>1
    <2>6. kept' \subseteq Row(kind)
      BY <2>1, <2>2 DEF TypeOK
    <2>7. QED
      BY <2>3, <2>5, <2>6
  <1>7. ASSUME NEW r \in replacing, CreateUpdatedSnapShot(r)
        PROVE  TypeOK'
    <2>1. /\ r.id \in Id(kind) /\ r.since \in Time /\ IpPortChanged(r) \in BOOLEAN
          /\ net[kind][r.id] # NoEntity
      BY <1>7 DEF CreateUpdatedSnapShot, Loops, TypeOK, Row, IpPortChanged
    <2>2. QED
      BY <1>6, <1>7, <2>1 DEF CreateUpdatedSnapShot, TypeOK
  <1>7a. ASSUME NEW r \in replacing, StoreHomeDomainFails(r)
         PROVE  TypeOK'
    <2>1. /\ r.id \in Id(kind) /\ r.since \in Time /\ IpPortChanged(r) \in BOOLEAN
          /\ net[kind][r.id] # NoEntity
      BY <1>7a DEF StoreHomeDomainFails, Loops, TypeOK, Row, IpPortChanged
    <2>2. NewRow(r.id, r.since, IpPortChanged(r)) \in Row(kind)
      BY <2>1, NewRowType
    <2>3. /\ rows' = [j \in Kind |-> rows'[j]]
          /\ \A j \in Kind : rows'[j] \subseteq Row(j)
      BY <1>7a, <2>2 DEF StoreHomeDomainFails, TypeOK
    <2>4. QED
      BY <1>7a, <2>3 DEF StoreHomeDomainFails, TypeOK
  <1>8. ASSUME NEW i \in missing, CreateSnapShot(i)
        PROVE  TypeOK'
    <2>1. i \in Id(kind) /\ clock \in Time /\ net[kind][i] # NoEntity
      BY <1>8 DEF CreateSnapShot, Loops, TypeOK
    <2>2. CASE Insert(NewRow(i, clock, FALSE))
      BY <1>6, <1>8, <2>1, <2>2 DEF CreateSnapShot, TypeOK
    <2>3. CASE UNCHANGED <<rows, kept>>
      BY <1>8, <2>3 DEF CreateSnapShot, TypeOK
    <2>4. QED
      BY <1>8, <2>2, <2>3 DEF CreateSnapShot
  <1>9. CASE CreateUpdatedSnapShotFails \/ GetEntitiesWithoutSnapShots
    BY <1>9 DEF CreateUpdatedSnapShotFails, GetEntitiesWithoutSnapShots, TypeOK, dbVars
  <1>10. CASE SnapShotsDone
    <2>1. kind = "node" => Ids(kept) \subseteq Node
      BY DEF TypeOK, Ids, Row, Id
    <2>2. CASE kind = "node"
      BY <1>10, <2>1, <2>2 DEF SnapShotsDone, LoopsIdle, TypeOK, dbVars, Kind
    <2>3. CASE kind # "node"
      BY <1>10, <2>3 DEF SnapShotsDone, TypeOK, dbVars
    <2>4. QED
      BY <2>2, <2>3
  <1>11. CASE CreateNodeMeasurements
    <2>1. \A n \in MeasuredNodes :
            [node |-> n, time |-> clock, active |-> net["node"][n] # NoEntity /\ n \in active] \in
              [node : Node, time : Time, active : BOOLEAN]
      BY DEF TypeOK, MeasuredNodes
    <2>2. measured' \subseteq [node : Node, time : Time, active : BOOLEAN]
      BY <1>11, <2>1 DEF CreateNodeMeasurements, TypeOK
    <2>3. QED
      BY <1>11, <2>2 DEF CreateNodeMeasurements, TypeOK, loopVars
  <1>12. CASE CreateOrganizationMeasurements
    <2>1. Ids(kept) \subseteq Id(kind)
      BY DEF TypeOK, Ids, Row
    <2>2. orgMeasured' \subseteq [org : Org, time : Time]
      BY <1>12, <2>1 DEF CreateOrganizationMeasurements, LoopsIdle, TypeOK, Id
    <2>3. QED
      BY <1>12, <2>2 DEF CreateOrganizationMeasurements, TypeOK, loopVars
  <1>13. CASE CompleteUpdate
    BY <1>13, NothingReadType DEF CompleteUpdate, LoopsIdle, TypeOK, Kind
  <1>14. CASE ArchiveNodes
    <2>1. rows' = [j \in Kind |-> rows'[j]] /\ \A j \in Kind : rows'[j] \subseteq Row(j)
      <3>1. ASSUME NEW S, S \subseteq ActiveRows("node"), rows' = Ended("node", S)
            PROVE  <2>1!1 /\ <2>1!2
        BY <3>1, ActiveRowsType, EndedType DEF Kind
      <3>2. QED
        BY <1>14, <3>1, ValidatorsUntouched DEF ArchiveNodes, ArchiveInactiveWatchers,
           ArchiveInactiveWithMultipleIpSamePort, TypeOK
    <2>2. QED
      BY <1>14, <2>1 DEF ArchiveNodes, ArchiveInactiveValidators, ArchiveInactiveWatchers,
         ArchiveInactiveWithMultipleIpSamePort, DemoteValidators, TypeOK, loopVars
  <1>15. CASE AbortSave \/ Crash
    BY <1>15, NothingReadType DEF AbortSave, Crash, Forget, TypeOK, dbVars, Kind
  <1>16. QED
    BY <1>1, <1>2, <1>3, <1>4, <1>5, <1>7, <1>7a, <1>8, <1>9, <1>10, <1>11, <1>12, <1>13, <1>14,
       <1>15
       DEF Next, UpdateOrCreateSnapShots, CreateMeasurements

LEMMA LoopsStep ==
  ASSUME TypeInv, Next
  PROVE  Loops' /\ LoopsIdle'
  <1> USE DEF TypeInv
  <1>1. CASE StartUpdate \/ AbortSave \/ Crash
    BY <1>1 DEF StartUpdate, AbortSave, Crash, Forget, loopVars, Loops, LoopsIdle
  <1>2. CASE LoadActiveSnapShots
    BY <1>2 DEF LoadActiveSnapShots, Loops, LoopsIdle, ActiveRows, dbVars
  <1>3. ASSUME NEW r \in todo, KeepSnapShot(r) \/ ArchiveSnapShotFails(r)
        PROVE  Loops' /\ LoopsIdle'
    BY <1>3 DEF KeepSnapShot, ArchiveSnapShotFails, Visiting, Loops, LoopsIdle, ActiveRows, dbVars
  <1>4. ASSUME NEW r \in todo, ArchiveSnapShot(r)
        PROVE  Loops' /\ LoopsIdle'
    <2>1. {r} \in SUBSET rows[kind] /\ kind \in Kind /\ rows' = Ended(kind, {r})
      BY <1>4, ActiveRowsType DEF ArchiveSnapShot, Visiting, Loops, TypeOK
    <2>2. ActiveRows(kind) \ {r} \subseteq ActiveRows(kind)'
      BY <1>4, <2>1, EndedType DEF ArchiveSnapShot, ActiveRows
    <2>3. \A s \in replacing' : net'[kind'][s.id] # NoEntity
      BY <1>4 DEF ArchiveSnapShot, TypeOK, Row
    <2>4. QED
      BY <1>4, <2>2, <2>3 DEF ArchiveSnapShot, Visiting, Loops, LoopsIdle
  <1>5. ASSUME NEW i \in Id(kind), NEW b \in Time, NEW c \in BOOLEAN,
               rows' = [rows EXCEPT ![kind] = @ \cup {NewRow(i, b, c)}]
        PROVE  ActiveRows(kind) \subseteq {r \in rows'[kind] : IsActive(r)}
    BY <1>5 DEF TypeOK, ActiveRows
  <1>6. ASSUME NEW r \in replacing, CreateUpdatedSnapShot(r) \/ StoreHomeDomainFails(r)
        PROVE  Loops' /\ LoopsIdle'
    <2>1. r.id \in Id(kind) /\ r.since \in Time /\ IpPortChanged(r) \in BOOLEAN
      BY DEF TypeOK, Row, IpPortChanged
    <2>2. ActiveRows(kind) \subseteq ActiveRows(kind)'
      BY <1>5, <1>6, <2>1 DEF CreateUpdatedSnapShot, StoreHomeDomainFails, Insert, ActiveRows
    <2>3. QED
      BY <1>6, <2>2 DEF CreateUpdatedSnapShot, StoreHomeDomainFails, Loops, LoopsIdle
  <1>7. ASSUME NEW i \in missing, CreateSnapShot(i)
        PROVE  Loops' /\ LoopsIdle'
    BY <1>7 DEF CreateSnapShot, Loops, LoopsIdle, Insert
  <1>8. CASE CreateUpdatedSnapShotFails \/ GetEntitiesWithoutSnapShots \/ SnapShotsDone
    BY <1>8 DEF CreateUpdatedSnapShotFails, GetEntitiesWithoutSnapShots, SnapShotsDone,
       Loops, LoopsIdle, ActiveRows, dbVars, TypeOK, Kind
  <1>9. CASE CreateMeasurements \/ ArchiveNodes
    BY <1>9 DEF CreateMeasurements, CreateNodeMeasurements, CreateOrganizationMeasurements,
       CompleteUpdate, ArchiveNodes, ArchiveInactiveValidators, ArchiveInactiveWatchers,
       ArchiveInactiveWithMultipleIpSamePort, DemoteValidators, loopVars, Loops, LoopsIdle
  <1>10. QED
    BY <1>1, <1>2, <1>3, <1>4, <1>6, <1>7, <1>8, <1>9
       DEF Next, UpdateOrCreateSnapShots

\* No step leaves anything of a loop behind, wherever a save is cut short.
LEMMA TypeInductive == Spec => []TypeInv
  <1>1. Init => TypeInv
    BY InitIInv DEF IInv
  <1>2. TypeInv /\ [Next]_vars => TypeInv'
    <2> SUFFICES ASSUME TypeInv, [Next]_vars PROVE TypeInv'
      OBVIOUS
    <2>1. CASE Next
      BY <2>1, TypeStep, LoopsStep DEF TypeInv
    <2>2. CASE UNCHANGED vars
      BY <2>2 DEF vars, dbVars, loopVars, TypeInv, TypeOK, Loops, LoopsIdle, ActiveRows
    <2>3. QED
      BY <2>1, <2>2
  <1>3. QED
    BY <1>1, <1>2, PTL DEF Spec

\* Whatever write fails and wherever a save is cut short, the database only ever
\* holds well-formed snapshots and measurements.
THEOREM TypeCorrect == Spec => []TypeOK
  <1>1. TypeInv => TypeOK
    BY DEF TypeInv
  <1>2. QED
    BY <1>1, TypeInductive, PTL
-----------------------------------------------------------------------------
(* What was shown of an earlier time is never shown differently. *)

LEMMA ViewUnchanged ==
  ASSUME TypeInv, Next, NEW k \in Kind, NEW t \in completed, t < clock \/ phase = "idle"
  PROVE  View(k, t)' = View(k, t)
  <1> USE DEF TypeInv
  <1>1. t \in Nat /\ t <= MaxTime /\ clock \in Nat /\ MaxDate \in Nat /\ MaxTime \in Nat
    BY TimeFacts DEF TypeOK
  <1>2. CASE Ends
    <2>1. PICK l \in Kind, S \in (SUBSET Row("node")) \cup (SUBSET Row("org")) :
            S \subseteq ActiveRows(l) /\ rows' = Ended(l, S)
      BY <1>2 DEF Ends
    <2>2. t < clock
      BY <1>2 DEF Ends
    <2>3. S \in SUBSET rows[l] /\ \A r \in S : r \in Row(l) /\ r.end = MaxDate
      BY <2>1, ActiveRowsType DEF ActiveRows, IsActive
    <2>4. ASSUME NEW r \in rows[k], r.start <= t, t < r.end
          PROVE  \E s \in rows'[k] : s.start <= t /\ t < s.end /\ s.id = r.id /\ s.content = r.content
      <3>1. CASE k # l \/ r \notin S
        BY <2>1, <2>3, <2>4, <3>1, EndedType
      <3>2. CASE k = l /\ r \in S
        <4>1. [r EXCEPT !.end = clock] \in rows'[k]
          BY <2>1, <2>3, <3>2, EndedType
        <4>2. LET s == [r EXCEPT !.end = clock]
              IN s.start <= t /\ t < s.end /\ s.id = r.id /\ s.content = r.content
          BY <2>2, <2>3, <2>4, <3>2 DEF Row
        <4>3. QED
          BY <4>1, <4>2
      <3>3. QED
        BY <3>1, <3>2
    <2>5. ASSUME NEW s \in rows'[k], s.start <= t, t < s.end
          PROVE  \E r \in rows[k] : r.start <= t /\ t < r.end /\ s.id = r.id /\ s.content = r.content
      <3>1. CASE s \in rows[k]
        BY <2>5, <3>1
      <3>2. CASE k = l /\ \E old \in S :
                   s.id = old.id /\ s.start = old.start /\ s.content = old.content
        <4>1. PICK old \in S : s.id = old.id /\ s.start = old.start /\ s.content = old.content
          BY <3>2
        <4>2. old \in rows[k] /\ t < old.end
          BY <1>1, <2>3, <3>2, TimeFacts DEF MaxDate
        <4>3. QED
          BY <2>5, <4>1, <4>2
      <3>3. QED
        BY <2>1, <3>1, <3>2, EndsEffect
    <2>6. QED
      BY <2>4, <2>5 DEF View, ActiveAt
  <1>3. CASE Adds
    <2>1. PICK i \in Id(kind), b \in Time, c \in BOOLEAN :
            rows' = [rows EXCEPT ![kind] = @ \cup {NewRow(i, b, c)}]
      BY <1>3 DEF Adds
    <2>2. t < clock
      BY <1>3 DEF Adds
    <2>3. rows[k] \subseteq rows'[k] /\ \A r \in rows'[k] : r \in rows[k] \/ r.start = clock
      BY <2>1, AddsEffect
    <2>4. ActiveAt(k, t)' = ActiveAt(k, t)
      BY <1>1, <2>2, <2>3 DEF ActiveAt
    <2>5. QED
      BY <2>4 DEF View
  <1>4. CASE Leaves
    BY <1>4 DEF Leaves, View, ActiveAt
  <1>5. QED
    BY <1>2, <1>3, <1>4, RowsStep

\* Once the save of an update is over, no step (a later update, a crash, a failed
\* write) changes the snapshots that are shown for its time.
THEOREM TimeTravel == Spec => HistoryImmutable
  <1> DEFINE Unchanged ==
        \A k \in Kind : \A t \in completed : t < clock \/ phase = "idle" => View(k, t)' = View(k, t)
  <1>1. TypeInv /\ [Next]_vars => [Unchanged]_vars
    BY ViewUnchanged
  <1>2. QED
    BY <1>1, TypeInductive, PTL DEF Spec, HistoryImmutable

-----------------------------------------------------------------------------
(* One active snapshot at a time, as long as the loops lose sight of none. *)

LEMMA RowFacts ==
  ASSUME TypeOK, NEW k \in Kind, NEW r \in rows[k]
  PROVE  /\ r \in Row(k) /\ r.start \in Nat /\ r.end \in Nat
         /\ clock \in Nat /\ clock < MaxDate /\ MaxDate \in Nat
  BY TimeFacts DEF TypeOK, Row

LEMMA RowTimesStep ==
  ASSUME TypeInv, RowTimes, Next
  PROVE  RowTimes'
  <1> USE DEF TypeInv
  <1> SUFFICES ASSUME NEW j \in Kind, NEW r \in rows'[j]
               PROVE  /\ r.start <= clock'
                      /\ IsActive(r) \/ (r.start <= r.end /\ r.end <= clock')
    BY DEF RowTimes, IsActive
  <1>1. clock \in Nat /\ MaxDate \in Nat
    BY TimeFacts DEF TypeOK
  <1>2. CASE Ends
    <2>1. PICK k \in Kind, S \in (SUBSET Row("node")) \cup (SUBSET Row("org")) :
            S \subseteq ActiveRows(k) /\ rows' = Ended(k, S)
      BY <1>2 DEF Ends
    <2>2. CASE r \in rows[j]
      BY <1>2, <2>2 DEF Ends, RowTimes
    <2>3. CASE j = k /\ r.end = clock /\ \E old \in S :
                 r.id = old.id /\ r.start = old.start /\ r.content = old.content
      <3>1. PICK old \in S : r.start = old.start
        BY <2>3
      <3>2. old \in rows[k] /\ old.start <= clock
        BY <2>1, ActiveRowsType DEF RowTimes
      <3>3. QED
        BY <1>1, <1>2, <2>3, <3>1, <3>2 DEF Ends
    <2>4. QED
      BY <2>1, <2>2, <2>3, EndsEffect
  <1>3. CASE Adds
    <2>1. PICK i \in Id(kind), b \in Time, c \in BOOLEAN :
            rows' = [rows EXCEPT ![kind] = @ \cup {NewRow(i, b, c)}]
      BY <1>3 DEF Adds
    <2>2. r \in rows[j] \/ (r.start = clock /\ r.end = MaxDate)
      BY <2>1, AddsEffect
    <2>3. QED
      BY <1>1, <1>3, <2>2 DEF Adds, RowTimes, IsActive
  <1>4. CASE Leaves
    <2>1. r \in rows[j] /\ r.start \in Nat /\ r.end \in Nat
      BY <1>4, RowFacts DEF Leaves
    <2>2. QED
      BY <1>1, <1>4, <2>1 DEF Leaves, RowTimes
  <1>5. QED
    BY <1>2, <1>3, <1>4, RowsStep

LEMMA SingleActiveStep ==
  ASSUME IInv, Next, NEW j \in Kind, InSight(j)
  PROVE  SingleActive(j)'
  <1> USE DEF IInv, TypeInv
  <1> SUFFICES ASSUME NEW r \in rows'[j], NEW s \in rows'[j],
                      IsActive(r), IsActive(s), r.id = s.id
               PROVE  r = s
    BY DEF SingleActive, ActiveRows, IsActive
  <1>1. clock # MaxDate
    BY TimeFacts DEF TypeOK
  <1>2. CASE r \in rows[j] /\ s \in rows[j]
    BY <1>2 DEF SingleActive, ActiveRows
  <1>3. CASE Ends
    <2>1. PICK k \in Kind, S \in (SUBSET Row("node")) \cup (SUBSET Row("org")) :
            S \subseteq ActiveRows(k) /\ rows' = Ended(k, S)
      BY <1>3 DEF Ends
    <2>2. r \in rows[j] /\ s \in rows[j]
      BY <1>1, <2>1, EndsEffect DEF IsActive
    <2>3. QED
      BY <1>2, <2>2
  <1>4. CASE Adds
    <2>1. PICK i \in Id(kind), b \in Time, c \in BOOLEAN :
            /\ j = kind => i \notin Ids(ActiveRows(kind))
            /\ rows' = [rows EXCEPT ![kind] = @ \cup {NewRow(i, b, c)}]
      BY <1>4 DEF Adds
    <2>2. /\ \A q \in rows'[j] : q \in rows[j] \/ (j = kind /\ q = NewRow(i, b, c))
          /\ NewRow(i, b, c).id = i
      <3>1. TypeOK
        OBVIOUS
      <3> HIDE DEF IInv, TypeInv
      <3>2. rows' = [rows EXCEPT ![kind] = @ \cup {NewRow(i, b, c)}]
        BY <2>1
      <3>3. QED
        BY <3>1, <3>2 DEF TypeOK, NewRow
    <2>3. j = kind => \A q \in rows[kind] : IsActive(q) => q.id # i
      BY <2>1 DEF Ids, ActiveRows
    <2>4. CASE r \in rows[j]
      BY <1>1, <1>2, <2>2, <2>3, <2>4
    <2>5. CASE r \notin rows[j]
      BY <1>1, <2>2, <2>3, <2>5
    <2>6. QED
      BY <2>4, <2>5
  <1>5. CASE Leaves
    BY <1>2, <1>5 DEF Leaves
  <1>6. QED
    BY <1>3, <1>4, <1>5, RowsStep

\* Some snapshots of one kind, told by their courses.
Begin(j, T) == {r \in rows[j] : r.since \in T}

\* Ending active snapshots keeps such snapshots apart.
LEMMA EndingDisjoint ==
  ASSUME TypeOK, RowTimes, NEW k \in Kind, NEW S, S \subseteq ActiveRows(k), rows' = Ended(k, S),
         NEW j \in Kind, NEW T, Disjoint(Begin(j, T))
  PROVE  Disjoint(Begin(j, T))'
  <1> SUFFICES ASSUME NEW r \in rows'[j], NEW s \in rows'[j], r.since \in T, s.since \in T,
                      r.id = s.id, r # s
               PROVE  r.end <= s.start \/ s.end <= r.start
    BY DEF Disjoint, Begin
  <1>1. CASE r \in rows[j] /\ s \in rows[j]
    BY <1>1 DEF Disjoint, Begin
  <1>2. ASSUME NEW p \in rows'[j], NEW q \in rows'[j], p.id = q.id, p # q, p.since \in T,
               p \in rows[j], j = k => p \notin S,
               j = k, q.end = clock,
               NEW old \in S, q.id = old.id, q.start = old.start, old.since \in T
        PROVE  p.end <= q.start
    <2>1. old \in rows[j] /\ IsActive(old) /\ old # p
      BY <1>2 DEF ActiveRows
    <2>2. p.end <= old.start \/ old.end <= p.start
      BY <1>2, <2>1 DEF Disjoint, Begin
    <2>3. p.start <= clock /\ old.end = MaxDate
      BY <1>2, <2>1 DEF RowTimes, IsActive
    <2>4. QED
      BY <1>2, <2>1, <2>2, <2>3, RowFacts
  <1>3. ASSUME NEW p \in S, NEW q \in S, j = k, r = [p EXCEPT !.end = clock],
               s = [q EXCEPT !.end = clock]
        PROVE  FALSE
    <2>1. p \in rows[j] /\ q \in rows[j] /\ p.end = MaxDate /\ q.end = MaxDate
      BY <1>3 DEF ActiveRows, IsActive
    <2>2. p \in Row(j) /\ q \in Row(j)
      BY <2>1 DEF TypeOK
    <2>3. p.since \in T /\ q.since \in T /\ p.id = q.id /\ p # q
      BY <1>3, <2>2 DEF Row
    <2>4. p.end <= q.start \/ q.end <= p.start
      BY <2>1, <2>3 DEF Disjoint, Begin
    <2>5. p.start <= clock /\ q.start <= clock
      BY <2>1 DEF RowTimes
    <2>6. QED
      BY <2>1, <2>4, <2>5, RowFacts
  <1>4. S \in SUBSET rows[k]
    BY ActiveRowsType
  <1>5. /\ (r \in rows[j] /\ (j = k => r \notin S)) \/
           (j = k /\ \E p \in S : r = [p EXCEPT !.end = clock])
        /\ (s \in rows[j] /\ (j = k => s \notin S)) \/
           (j = k /\ \E p \in S : s = [p EXCEPT !.end = clock])
    BY <1>4, EndedType
  <1>6. \A p \in S : p \in Row(k)
    BY ActiveRowsType
  <1>7. \A p \in S : LET e == [p EXCEPT !.end = clock]
                    IN e.id = p.id /\ e.since = p.since /\ e.start = p.start /\ e.end = clock
    BY <1>6 DEF Row
  <1>8. CASE r \in rows[j] /\ (j = k => r \notin S) /\ ~(s \in rows[j] /\ (j = k => s \notin S))
    <2>1. PICK p \in S : j = k /\ s = [p EXCEPT !.end = clock]
      BY <1>5, <1>8
    <2>2. s.id = p.id /\ s.since = p.since /\ s.start = p.start /\ s.end = clock
      BY <1>7, <2>1
    <2>3. r.end <= s.start
      BY <1>2, <1>8, <2>1, <2>2
    <2>4. QED
      BY <2>3
  <1>9. CASE s \in rows[j] /\ (j = k => s \notin S) /\ ~(r \in rows[j] /\ (j = k => r \notin S))
    <2>1. PICK p \in S : j = k /\ r = [p EXCEPT !.end = clock]
      BY <1>5, <1>9
    <2>2. r.id = p.id /\ r.since = p.since /\ r.start = p.start /\ r.end = clock
      BY <1>7, <2>1
    <2>3. s.end <= r.start
      BY <1>2, <1>9, <2>1, <2>2
    <2>4. QED
      BY <2>3
  <1>10. QED
    BY <1>1, <1>3, <1>5, <1>8, <1>9

\* And so does adding one, where those of its entity have ended.
LEMMA AddingDisjoint ==
  ASSUME TypeOK, RowTimes, NEW i \in Id(kind), NEW b \in Time, NEW c \in BOOLEAN,
         rows' = [rows EXCEPT ![kind] = @ \cup {NewRow(i, b, c)}],
         NEW j \in Kind, NEW T, Disjoint(Begin(j, T)),
         j = kind /\ b \in T => \A q \in Begin(kind, T) : q.id = i => ~IsActive(q)
  PROVE  Disjoint(Begin(j, T))'
  <1> SUFFICES ASSUME NEW r \in rows'[j], NEW s \in rows'[j], r.since \in T, s.since \in T,
                      r.id = s.id, r # s
               PROVE  r.end <= s.start \/ s.end <= r.start
    BY DEF Disjoint, Begin
  <1>1. CASE r \in rows[j] /\ s \in rows[j]
    BY <1>1 DEF Disjoint, Begin
  <1>2. \A q \in rows'[j] : q \in rows[j] \/ (j = kind /\ q = NewRow(i, b, c))
    BY AddsEffect
  <1>3. NewRow(i, b, c).id = i /\ NewRow(i, b, c).since = b /\ NewRow(i, b, c).start = clock
    BY DEF NewRow
  <1>4. j = kind /\ b \in T => \A q \in rows[j] : q.since \in T /\ q.id = i => q.end <= clock
    BY DEF RowTimes, Begin
  <1>5. CASE r \in rows[j]
    BY <1>1, <1>2, <1>3, <1>4, <1>5
  <1>6. CASE r \notin rows[j]
    BY <1>2, <1>3, <1>4, <1>6
  <1>7. QED
    BY <1>5, <1>6

LEMMA DisjointStep ==
  ASSUME IInv, Next, NEW j \in Kind, InSight(j)
  PROVE  Disjoint(rows[j])'
  <1> USE DEF IInv, TypeInv
  <1>1. Begin(j, Time) = rows[j] /\ Begin(j, Time)' = rows'[j]
    BY TypeStep DEF Begin, TypeOK, Row
  <1>2. Disjoint(Begin(j, Time))
    BY <1>1
  <1>3. CASE Ends
    <2>1. PICK k \in Kind, S \in (SUBSET Row("node")) \cup (SUBSET Row("org")) :
            S \subseteq ActiveRows(k) /\ rows' = Ended(k, S)
      BY <1>3 DEF Ends
    <2>2. Disjoint(Begin(j, Time))'
      BY <1>2, <2>1, EndingDisjoint
    <2>3. QED
      BY <1>1, <2>2 DEF Disjoint
  <1>4. CASE Adds
    <2>1. PICK i \in Id(kind), b \in Time, c \in BOOLEAN :
            /\ j = kind => i \notin Ids(ActiveRows(kind))
            /\ rows' = [rows EXCEPT ![kind] = @ \cup {NewRow(i, b, c)}]
      BY <1>4 DEF Adds
    <2>2. j = kind => \A q \in Begin(kind, Time) : q.id = i => ~IsActive(q)
      BY <2>1 DEF Ids, ActiveRows, Begin
    <2>3. Disjoint(Begin(j, Time))'
      BY <1>2, <2>1, <2>2, AddingDisjoint
    <2>4. QED
      BY <1>1, <2>3 DEF Disjoint
  <1>5. CASE Leaves
    BY <1>5 DEF Leaves, Disjoint
  <1>6. QED
    BY <1>3, <1>4, <1>5, RowsStep

\* The snapshots of a course, whichever writes fail: one that has been ended is continued by
\* one, and a course begins with one.
LEMMA CoursesStep ==
  ASSUME IInv, Next
  PROVE  CoursesDisjoint'
  <1> USE DEF IInv, TypeInv
  <1> SUFFICES ASSUME NEW j \in Kind, NEW t \in Time PROVE Disjoint(Course(j, t))'
    BY DEF CoursesDisjoint
  <1>1. Begin(j, {t}) = Course(j, t) /\ Begin(j, {t})' = Course(j, t)'
    BY DEF Begin, Course
  <1>2. Disjoint(Begin(j, {t}))
    BY <1>1 DEF CoursesDisjoint
  <1>3. ASSUME NEW i \in Id(kind), NEW b \in Time, NEW c \in BOOLEAN,
               rows' = [rows EXCEPT ![kind] = @ \cup {NewRow(i, b, c)}],
               \A q \in rows[kind] : q.id = i /\ q.since = b => ~IsActive(q)
        PROVE  Disjoint(Course(j, t))'
    <2>1. j = kind /\ b \in {t} => \A q \in Begin(kind, {t}) : q.id = i => ~IsActive(q)
      BY <1>3 DEF Begin
    <2>2. Disjoint(Begin(j, {t}))'
      BY <1>2, <1>3, <2>1, AddingDisjoint
    <2>3. QED
      BY <1>1, <2>2 DEF Disjoint
  <1>4. ASSUME NEW r \in replacing, CreateUpdatedSnapShot(r) \/ StoreHomeDomainFails(r)
        PROVE  Disjoint(Course(j, t))'
    <2>1. phase = "update" /\ rows' = [rows EXCEPT ![kind] = @ \cup {NewRow(r.id, r.since, IpPortChanged(r))}]
      BY <1>4 DEF CreateUpdatedSnapShot, StoreHomeDomainFails, Insert
    <2>2. r.id \in Id(kind) /\ r.since \in Time /\ IpPortChanged(r) \in BOOLEAN
      BY DEF TypeOK, Row, IpPortChanged
    <2>3. \A q \in rows[kind] : q.id = r.id /\ q.since = r.since => ~IsActive(q)
      BY <2>1 DEF Continued
    <2>4. QED
      BY <1>3, <2>1, <2>2, <2>3
  <1>5. ASSUME NEW i \in missing, CreateSnapShot(i), Insert(NewRow(i, clock, FALSE))
        PROVE  Disjoint(Course(j, t))'
    <2>1. i \in Id(kind) /\ clock \in Time /\ phase = "create"
      BY <1>5 DEF TypeOK, CreateSnapShot
    <2>2. \A q \in rows[kind] : q.id = i /\ q.since = clock => ~IsActive(q)
      BY <2>1, TimeFacts DEF Begun
    <2>3. QED
      BY <1>3, <1>5, <2>1, <2>2 DEF Insert
  <1>6. CASE Ends
    <2>1. PICK k \in Kind, S \in (SUBSET Row("node")) \cup (SUBSET Row("org")) :
            S \subseteq ActiveRows(k) /\ rows' = Ended(k, S)
      BY <1>6 DEF Ends
    <2>2. Disjoint(Begin(j, {t}))'
      BY <1>2, <2>1, EndingDisjoint
    <2>3. QED
      BY <1>1, <2>2 DEF Disjoint
  <1>7. CASE Leaves
    BY <1>1, <1>2, <1>7 DEF Leaves, Disjoint, Begin
  <1>8. QED
    BY <1>4, <1>5, <1>6, <1>7, StepOfRows

\* Ending snapshots makes none active, and leaves each in its course.
LEMMA EndingCourse ==
  ASSUME TypeOK, NEW k \in Kind, NEW S, S \subseteq ActiveRows(k), rows' = Ended(k, S)
  PROVE  \A j \in Kind : \A r \in rows'[j] :
           /\ \E s \in rows[j] : s.id = r.id /\ s.since = r.since
           /\ IsActive(r) => r \in rows[j] /\ (j = k => r \notin S)
  <1>1. S \in SUBSET rows[k] /\ S \subseteq Row(k) /\ clock # MaxDate
    BY ActiveRowsType, TimeFacts DEF TypeOK
  <1>2. SUFFICES ASSUME NEW j \in Kind, NEW r \in Ended(k, S)[j], j = k, r \notin rows[k] \ S
                 PROVE  ~IsActive(r) /\ \E s \in rows[j] : s.id = r.id /\ s.since = r.since
    BY <1>1, EndedType
  <1>3. PICK old \in S : r = [old EXCEPT !.end = clock]
    BY <1>1, <1>2, EndedType
  <1>4. old \in Row(k) /\ old \in rows[k]
    BY <1>1
  <1>5. QED
    BY <1>1, <1>2, <1>3, <1>4 DEF Row, IsActive

LEMMA BegunStep ==
  ASSUME IInv, Next
  PROVE  Begun'
  <1> USE DEF IInv, TypeInv
  <1>0. clock \in Nat /\ \A j \in Kind : rows[j] \subseteq Row(j)
    BY TimeFacts DEF TypeOK
  <1>1. CASE StartUpdate
    <2>1. \A j \in Kind : \A r \in rows[j] : r.since \in Nat /\ r.since < clock + 1
      BY <1>0, TimeFacts DEF Begun, Row
    <2>2. rows' = rows /\ clock' = clock + 1 /\ phase' = "load" /\ kind' = "node" /\ replacing' = {}
      BY <1>1 DEF StartUpdate, dbVars, loopVars, LoopsIdle
    <2>3. QED
      BY <1>0, <2>1, <2>2 DEF Begun, Kind
  <1>2. CASE LoadActiveSnapShots \/ CreateUpdatedSnapShotFails \/ GetEntitiesWithoutSnapShots
    BY <1>2 DEF LoadActiveSnapShots, CreateUpdatedSnapShotFails, GetEntitiesWithoutSnapShots,
       Begun, dbVars
  <1>3. ASSUME NEW r \in todo, KeepSnapShot(r) \/ ArchiveSnapShotFails(r)
        PROVE  Begun'
    BY <1>3 DEF KeepSnapShot, ArchiveSnapShotFails, Visiting, Begun, dbVars
  <1>4. ASSUME NEW r \in todo, ArchiveSnapShot(r)
        PROVE  Begun'
    <2>1. /\ kind \in Kind /\ {r} \subseteq ActiveRows(kind) /\ rows' = Ended(kind, {r})
          /\ phase = "update" /\ UNCHANGED <<phase, kind, clock>>
      BY <1>4 DEF ArchiveSnapShot, Visiting, Loops, TypeOK
    <2>2. \A j \in Kind : \A q \in rows'[j] : \E s \in rows[j] : s.since = q.since
      BY <2>1, EndingCourse
    <2>3. r \in rows[kind] /\ r \in Row(kind)
      BY <2>1, ActiveRowsType
    <2>4. \A q \in replacing' : q.since = r.since
      BY <1>4, <2>3 DEF ArchiveSnapShot, Row
    <2>5. QED
      BY <2>1, <2>2, <2>3, <2>4 DEF Begun, Kind
  <1>5. ASSUME NEW r \in replacing, CreateUpdatedSnapShot(r) \/ StoreHomeDomainFails(r)
        PROVE  Begun'
    <2>1. /\ rows' = [rows EXCEPT ![kind] = @ \cup {NewRow(r.id, r.since, IpPortChanged(r))}]
          /\ phase = "update" /\ replacing' = {} /\ UNCHANGED <<phase, kind, clock>>
      BY <1>5 DEF CreateUpdatedSnapShot, StoreHomeDomainFails, Insert
    <2>2. r.since < clock /\ r.since \in Nat
      BY <2>1, TimeFacts DEF Begun, TypeOK, Row
    <2>3. \A j \in Kind : \A q \in rows'[j] : q \in rows[j] \/ (j = kind /\ q.since = r.since)
      BY <2>1 DEF TypeOK, NewRow
    <2>4. \A j \in Kind : \A q \in rows'[j] : q.since <= clock
      BY <1>0, <2>2, <2>3 DEF Begun
    <2>5. \A q \in rows'[kind] : q.since < clock
      BY <2>1, <2>2, <2>3 DEF Begun, TypeOK
    <2>6. kind = "node" => \A q \in rows'["org"] : q.since < clock
      BY <2>1, <2>3 DEF Begun, Kind
    <2>7. QED
      BY <2>1, <2>4, <2>5, <2>6 DEF Begun
  <1>6. ASSUME NEW i \in missing, CreateSnapShot(i)
        PROVE  Begun'
    <2>1. phase = "create" /\ missing' = missing \ {i} /\ UNCHANGED <<phase, kind, clock>>
      BY <1>6 DEF CreateSnapShot
    <2>2. \A j \in Kind : \A q \in rows'[j] :
            q \in rows[j] \/ (j = kind /\ q.id = i /\ q.since = clock)
      BY <1>6 DEF CreateSnapShot, Insert, TypeOK, NewRow
    <2>3. \A j \in Kind : \A q \in rows'[j] : q.since <= clock
      BY <1>0, <2>2 DEF Begun
    <2>4. \A q \in rows'[kind] : q.id \in missing' => q.since < clock
      BY <2>1, <2>2 DEF Begun, TypeOK
    <2>5. kind = "node" => \A q \in rows'["org"] : q.since < clock
      BY <2>1, <2>2 DEF Begun, Kind
    <2>6. QED
      BY <2>1, <2>3, <2>4, <2>5 DEF Begun
  <1>7. CASE SnapShotsDone
    BY <1>7 DEF SnapShotsDone, LoopsIdle, Begun, dbVars, TypeOK, Kind
  <1>8. CASE CreateMeasurements \/ AbortSave \/ Crash
    BY <1>8 DEF CreateMeasurements, CreateNodeMeasurements, CreateOrganizationMeasurements,
       CompleteUpdate, AbortSave, Crash, Forget, Begun, dbVars
  <1>9. CASE ArchiveNodes
    <2>1. /\ clock' = clock
          /\ phase' \in {"idle", "archiveWatchers", "archiveShared", "demote"}
      BY <1>9 DEF ArchiveNodes, ArchiveInactiveValidators, ArchiveInactiveWatchers,
         ArchiveInactiveWithMultipleIpSamePort, DemoteValidators
    <2>2. ASSUME NEW S, S \subseteq ActiveRows("node"), rows' = Ended("node", S)
          PROVE  \A j \in Kind : \A q \in rows'[j] : \E s \in rows[j] : s.since = q.since
      BY <2>2, EndingCourse DEF Kind
    <2>3. \A j \in Kind : \A q \in rows'[j] : \E s \in rows[j] : s.since = q.since
      BY <1>9, <2>2, ValidatorsUntouched DEF ArchiveNodes, ArchiveInactiveWatchers,
         ArchiveInactiveWithMultipleIpSamePort
    <2>4. QED
      BY <2>1, <2>3 DEF Begun
  <1>10. QED
    BY <1>1, <1>2, <1>3, <1>4, <1>5, <1>6, <1>7, <1>8, <1>9
       DEF Next, UpdateOrCreateSnapShots

\* The snapshot just ended was the only active one of its course.
LEMMA ContinuedStep ==
  ASSUME IInv, Next
  PROVE  Continued'
  <1> USE DEF IInv, TypeInv
  <1>1. ASSUME NEW r \in todo, ArchiveSnapShot(r)
        PROVE  Continued'
    <2>1. /\ kind \in Kind /\ r \in ActiveRows(kind) /\ rows' = Ended(kind, {r})
          /\ UNCHANGED kind
      BY <1>1 DEF ArchiveSnapShot, Visiting, Loops, TypeOK
    <2>2. r \in rows[kind] /\ r \in Row(kind) /\ r.end = MaxDate
      BY <2>1, ActiveRowsType DEF ActiveRows, IsActive
    <2>3. \A p \in replacing' : p.id = r.id /\ p.since = r.since
      BY <1>1, <2>2 DEF ArchiveSnapShot, Row
    <2>4. ASSUME NEW s \in rows'[kind], s.id = r.id, s.since = r.since, IsActive(s)
          PROVE  FALSE
      <3>1. s \in rows[kind] /\ s # r /\ s.end = MaxDate
        BY <2>1, <2>4, EndingCourse DEF IsActive
      <3>2. Disjoint(Course(kind, r.since)) /\ r.since \in Time
        BY <2>1, <2>2 DEF CoursesDisjoint, Row
      <3>3. r.end <= s.start \/ s.end <= r.start
        BY <2>2, <2>4, <3>1, <3>2 DEF Disjoint, Course
      <3>4. r.start <= clock /\ s.start <= clock
        BY <2>1, <2>2, <3>1 DEF RowTimes
      <3>5. QED
        BY <2>1, <2>2, <3>1, <3>3, <3>4, RowFacts
    <2>5. QED
      BY <2>1, <2>3, <2>4 DEF Continued
  <1>2. ASSUME NEW r \in todo, KeepSnapShot(r) \/ ArchiveSnapShotFails(r)
        PROVE  Continued'
    BY <1>2 DEF KeepSnapShot, ArchiveSnapShotFails, Visiting, Continued
  <1>3. CASE \/ LoadActiveSnapShots \/ CreateUpdatedSnapShotFails
             \/ \E r \in replacing : CreateUpdatedSnapShot(r) \/ StoreHomeDomainFails(r)
    BY <1>3 DEF LoadActiveSnapShots, LoopsIdle, CreateUpdatedSnapShotFails, StoreHomeDomainFails,
       CreateUpdatedSnapShot, Continued
  <1>4. CASE \/ StartUpdate \/ GetEntitiesWithoutSnapShots \/ SnapShotsDone
             \/ CreateMeasurements \/ ArchiveNodes \/ AbortSave \/ Crash
    BY <1>4 DEF StartUpdate, GetEntitiesWithoutSnapShots, SnapShotsDone, CreateMeasurements,
       CreateNodeMeasurements, CreateOrganizationMeasurements, CompleteUpdate, ArchiveNodes,
       ArchiveInactiveValidators, ArchiveInactiveWatchers, ArchiveInactiveWithMultipleIpSamePort,
       DemoteValidators, AbortSave, Crash, Forget, Continued
  <1>5. ASSUME NEW i \in missing, CreateSnapShot(i)
        PROVE  Continued'
    BY <1>5 DEF CreateSnapShot, Continued
  <1>6. QED
    BY <1>1, <1>2, <1>3, <1>4, <1>5 DEF Next, UpdateOrCreateSnapShots

\* The active snapshots after one was ended, and after one was added.
LEMMA ActiveAfterEnding ==
  ASSUME TypeOK, NEW r \in ActiveRows(kind), rows' = Ended(kind, {r}), kind' = kind
  PROVE  ActiveRows(kind)' = ActiveRows(kind) \ {r}
  <1>1. kind \in Kind /\ {r} \in SUBSET rows[kind] /\ r \in Row(kind)
    BY ActiveRowsType DEF TypeOK
  <1>2. rows'[kind] = (rows[kind] \ {r}) \cup {[s EXCEPT !.end = clock] : s \in {r}}
    BY <1>1, EndedType
  <1>3. [r EXCEPT !.end = clock].end # MaxDate
    BY <1>1, TimeFacts DEF Row, TypeOK
  <1>4. QED
    BY <1>2, <1>3 DEF ActiveRows, IsActive

LEMMA ActiveAfterAdding ==
  ASSUME TypeOK, NEW i \in Id(kind), NEW b \in Time, NEW c \in BOOLEAN,
         Insert(NewRow(i, b, c)), kind' = kind
  PROVE  /\ ActiveRows(kind)' = ActiveRows(kind) \cup {NewRow(i, b, c)}
         /\ kept' = kept \cup {NewRow(i, b, c)}
         /\ NewRow(i, b, c).id = i
  <1>1. NewRow(i, b, c).end = MaxDate /\ NewRow(i, b, c).id = i
    BY DEF NewRow
  <1>2. rows'[kind] = rows[kind] \cup {NewRow(i, b, c)}
    BY DEF Insert, TypeOK
  <1>3. QED
    BY <1>1, <1>2 DEF ActiveRows, IsActive, Insert

LEMMA UpdateLoopStep ==
  ASSUME IInv, Next, InSight(kind')
  PROVE  UpdateLoop'
  <1> USE DEF IInv, TypeInv
  <1>0. phase' = "update" => kind' = kind /\ UpdateLoop /\ CreateLoop
    <2>1. phase' = "update" => kind' = kind
      BY DEF Next, StartUpdate, UpdateOrCreateSnapShots, LoadActiveSnapShots, KeepSnapShot,
         ArchiveSnapShot, ArchiveSnapShotFails, Visiting, CreateUpdatedSnapShot,
         CreateUpdatedSnapShotFails, StoreHomeDomainFails, GetEntitiesWithoutSnapShots,
         CreateSnapShot, SnapShotsDone, CreateMeasurements, CreateNodeMeasurements,
         CreateOrganizationMeasurements, CompleteUpdate, ArchiveNodes, ArchiveInactiveValidators,
         ArchiveInactiveWatchers, ArchiveInactiveWithMultipleIpSamePort, DemoteValidators,
         AbortSave, Crash, Forget
    <2>2. QED
      BY <2>1
  <1>1. CASE LoadActiveSnapShots
    BY <1>1 DEF LoadActiveSnapShots, LoopsIdle, UpdateLoop, ActiveRows, dbVars
  <1>2. ASSUME NEW r \in todo, KeepSnapShot(r)
        PROVE  UpdateLoop'
    BY <1>0, <1>2 DEF KeepSnapShot, Visiting, UpdateLoop, ActiveRows, Ids, dbVars
  <1>3. ASSUME NEW r \in todo, ArchiveSnapShot(r)
        PROVE  UpdateLoop'
    <2>0. phase' = "update" /\ kind' = kind /\ InSight(kind)
      BY <1>0, <1>3 DEF ArchiveSnapShot, Visiting
    <2>1. r \in ActiveRows(kind) /\ r \notin kept
      BY <1>0, <1>3, <2>0 DEF ArchiveSnapShot, Visiting, UpdateLoop
    <2>2. ActiveRows(kind)' = ActiveRows(kind) \ {r}
      BY <1>3, <2>1, ActiveAfterEnding DEF ArchiveSnapShot
    <2>3. \A s \in ActiveRows(kind) : s.id = r.id => s = r
      BY <2>0, <2>1 DEF SingleActive, TypeOK
    <2>4. \A s \in replacing' : s = [r EXCEPT !.end = clock] /\ s.id = r.id
      BY <1>3 DEF ArchiveSnapShot, TypeOK, Row
    <2>5. \A s \in replacing' : s.id \notin Ids(ActiveRows(kind))'
      BY <2>2, <2>3, <2>4 DEF Ids
    <2>6. QED
      BY <1>0, <1>3, <2>0, <2>1, <2>2, <2>4, <2>5 DEF ArchiveSnapShot, Visiting, UpdateLoop
  <1>4. ASSUME NEW r \in todo, ArchiveSnapShotFails(r)
        PROVE  FALSE
    BY <1>4 DEF ArchiveSnapShotFails, InSight, ArchiveSaves
  <1>5. ASSUME NEW r \in replacing, CreateUpdatedSnapShot(r)
        PROVE  UpdateLoop'
    <2>1. r.id \in Id(kind) /\ r.since \in Time /\ IpPortChanged(r) \in BOOLEAN
      BY DEF TypeOK, Row, IpPortChanged
    <2>2. /\ ActiveRows(kind)' = ActiveRows(kind) \cup {NewRow(r.id, r.since, IpPortChanged(r))}
          /\ kept' = kept \cup {NewRow(r.id, r.since, IpPortChanged(r))}
          /\ NewRow(r.id, r.since, IpPortChanged(r)).id = r.id
      BY <1>5, <2>1, ActiveAfterAdding DEF CreateUpdatedSnapShot
    <2>3. NewRow(r.id, r.since, IpPortChanged(r)) \notin todo
      BY <1>0, <1>5, <2>2 DEF CreateUpdatedSnapShot, UpdateLoop, Ids
    <2>4. QED
      BY <1>0, <1>5, <2>2, <2>3 DEF CreateUpdatedSnapShot, UpdateLoop
  <1>6. CASE CreateUpdatedSnapShotFails
    BY <1>0, <1>6 DEF CreateUpdatedSnapShotFails, UpdateLoop, ActiveRows, dbVars
  <1>6a. ASSUME NEW r \in replacing, StoreHomeDomainFails(r)
         PROVE  FALSE
    BY <1>6a DEF StoreHomeDomainFails, InSight, HomeDomainSaves
  <1>7. ASSUME NEW i \in missing, CreateSnapShot(i)
        PROVE  UpdateLoop'
    BY <1>7 DEF CreateSnapShot, UpdateLoop, LoopsIdle
  <1>8. CASE \/ StartUpdate \/ GetEntitiesWithoutSnapShots \/ SnapShotsDone
             \/ CreateMeasurements \/ ArchiveNodes \/ AbortSave \/ Crash
    BY <1>8 DEF StartUpdate, GetEntitiesWithoutSnapShots, SnapShotsDone, CreateMeasurements,
       CreateNodeMeasurements, CreateOrganizationMeasurements, CompleteUpdate, ArchiveNodes,
       ArchiveInactiveValidators, ArchiveInactiveWatchers, ArchiveInactiveWithMultipleIpSamePort,
       DemoteValidators, AbortSave, Crash, Forget, UpdateLoop
  <1>9. QED
    BY <1>1, <1>2, <1>3, <1>4, <1>5, <1>6, <1>6a, <1>7, <1>8 DEF Next, UpdateOrCreateSnapShots

LEMMA CreateLoopStep ==
  ASSUME IInv, Next, InSight(kind')
  PROVE  CreateLoop'
  <1> USE DEF IInv, TypeInv
  <1>1. CASE GetEntitiesWithoutSnapShots
    <2>1. kept = ActiveRows(kind)
      BY <1>1 DEF GetEntitiesWithoutSnapShots, UpdateLoop
    <2>2. QED
      BY <1>1, <2>1 DEF GetEntitiesWithoutSnapShots, CreateLoop, ActiveRows, Ids, dbVars
  <1>2. ASSUME NEW i \in missing, CreateSnapShot(i)
        PROVE  CreateLoop'
    <2>1. /\ i \in Id(kind) /\ clock \in Time /\ kind' = kind /\ missing' = missing \ {i}
          /\ phase = "create" /\ CreateLoop
      BY <1>2 DEF CreateSnapShot, TypeOK
    <2>2. CASE Insert(NewRow(i, clock, FALSE))
      <3>1. /\ ActiveRows(kind)' = ActiveRows(kind) \cup {NewRow(i, clock, FALSE)}
            /\ NewRow(i, clock, FALSE).id = i
        BY <2>1, <2>2, ActiveAfterAdding
      <3>2. QED
        BY <2>1, <3>1 DEF CreateLoop, Ids
    <2>3. CASE UNCHANGED <<rows, kept>>
      BY <2>1, <2>3 DEF CreateLoop, ActiveRows
    <2>4. QED
      BY <1>2, <2>2, <2>3 DEF CreateSnapShot
  <1>3. ASSUME NEW r \in todo, KeepSnapShot(r) \/ ArchiveSnapShot(r) \/ ArchiveSnapShotFails(r)
        PROVE  CreateLoop'
    BY <1>3 DEF KeepSnapShot, ArchiveSnapShot, ArchiveSnapShotFails, Visiting, CreateLoop
  <1>4. CASE \/ CreateUpdatedSnapShotFails
             \/ \E r \in replacing : CreateUpdatedSnapShot(r) \/ StoreHomeDomainFails(r)
    BY <1>4 DEF CreateUpdatedSnapShotFails, StoreHomeDomainFails, CreateUpdatedSnapShot,
       CreateLoop
  <1>5. CASE \/ StartUpdate \/ LoadActiveSnapShots \/ SnapShotsDone
             \/ CreateMeasurements \/ ArchiveNodes \/ AbortSave \/ Crash
    BY <1>5 DEF StartUpdate, LoadActiveSnapShots, SnapShotsDone, CreateMeasurements,
       CreateNodeMeasurements, CreateOrganizationMeasurements, CompleteUpdate, ArchiveNodes,
       ArchiveInactiveValidators, ArchiveInactiveWatchers, ArchiveInactiveWithMultipleIpSamePort,
       DemoteValidators, AbortSave, Crash, Forget, CreateLoop
  <1>6. QED
    BY <1>1, <1>2, <1>3, <1>4, <1>5 DEF Next, UpdateOrCreateSnapShots

\* The inductive invariant. Where the write that ends a snapshot, or that of a home domain,
\* may fail, the update loop returns without an active snapshot and the create loop adds
\* another one.
LEMMA InvStep == IInv /\ [Next]_vars => IInv'
  <1> SUFFICES ASSUME IInv, [Next]_vars PROVE IInv'
    OBVIOUS
  <1>1. CASE Next
    <2>1. \A k \in Kind : InSight(k) => SingleActive(k)' /\ Disjoint(rows[k])'
      BY <1>1, SingleActiveStep, DisjointStep
    <2>2. \A k : InSight(k)' = InSight(k)
      BY DEF InSight, ArchiveSaves, HomeDomainSaves
    <2>3. InSight(kind') => UpdateLoop' /\ CreateLoop'
      BY <1>1, UpdateLoopStep, CreateLoopStep
    <2>4. InSight(kind)' = InSight(kind')
      BY DEF InSight, ArchiveSaves, HomeDomainSaves
    <2>5. QED
      BY <1>1, <2>1, <2>2, <2>3, <2>4, TypeStep, LoopsStep, RowTimesStep, BegunStep,
         ContinuedStep, CoursesStep DEF IInv, TypeInv
  <1>2. CASE UNCHANGED vars
    BY <1>2 DEF vars, dbVars, loopVars, IInv, TypeInv, TypeOK, Loops, LoopsIdle, ActiveRows,
       RowTimes, Begun, Continued, CoursesDisjoint, Course, SingleActive, Disjoint, UpdateLoop,
       CreateLoop, InSight
  <1>3. QED
    BY <1>1, <1>2

LEMMA Inductive == Spec => []IInv
  BY InvStep, InitIInv, PTL DEF Spec

\* "A node can only have one active snapshot at a time", and its snapshots never overlap,
\* across any crash, aborted save or other failed write, as long as ending one does not fail.
THEOREM NodesDisjoint ==
  ASSUME ArchiveSaves PROVE Spec => [](SingleActive("node") /\ Disjoint(rows["node"]))
  <1>1. IInv => SingleActive("node") /\ Disjoint(rows["node"])
    BY DEF IInv, InSight, Kind
  <1>2. QED
    BY <1>1, Inductive, PTL

\* So with nodes and organizations, as long as the write of a home domain does not fail either.
THEOREM OneActive ==
  ASSUME ArchiveSaves, HomeDomainSaves PROVE Spec => []SingleActiveSnapShot
  <1>1. IInv => SingleActiveSnapShot
    BY DEF IInv, InSight, SingleActiveSnapShot
  <1>2. QED
    BY <1>1, Inductive, PTL

\* The snapshots of a node never overlap, nor do those of an organization unless storing its
\* home domain may fail: those that continue one another do not overlap even then.
THEOREM HistoryDisjoint ==
  ASSUME ArchiveSaves PROVE Spec => []DisjointHistory
  <1>1. IInv => DisjointHistory
    BY DEF IInv, InSight, HomeDomainSaves, CoursesDisjoint, DisjointHistory, Kind
  <1>2. QED
    BY <1>1, Inductive, PTL
===============================================================================

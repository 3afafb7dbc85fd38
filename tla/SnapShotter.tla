------------------------------ MODULE SnapShotter ------------------------------
(***************************************************************************)
(* Saving a network update: the slowly changing history of nodes and       *)
(* organizations (snapshots), the measurements, and the archiver, as       *)
(* NetworkWriteRepository.save drives them.  There is no transaction       *)
(* around a save: each database write below is a step of its own, the      *)
(* process can crash between any two of them, and an exception abandons    *)
(* the update without undoing what was written.                            *)
(***************************************************************************)
EXTENDS Integers, FiniteSets

CONSTANTS
  Node,          \* public keys
  Org,           \* organization ids
  Address,       \* ip:port
  Info,          \* what else a node snapshot holds: quorum set, geo data, organization, and the
                 \* details of a node whose version is known
  WatcherInfo,   \* the members of Info without a quorum set
  NoEntity,      \* the crawled network does not contain this node or organization
  DayLength,     \* clock ticks in a day
  ValidatorDays, \* NodeSnapShotArchiver.VALIDATORS_MAX_DAYS_INACTIVE
  WatcherDays,   \* NodeSnapShotArchiver.WATCHERS_MAX_DAYS_INACTIVE
  MaxTime,       \* bound: the time of the last update
  FailingWrites  \* the snapshot writes that may throw

Content == [address : Address, info : Info]
Kind == {"node", "org"}
Id(k) == IF k = "node" THEN Node ELSE Org
Entity(k) == IF k = "node" THEN Content ELSE SUBSET Node
\* NodeSnapShot.MAX_DATE, later than every update
MaxDate == MaxTime + 1
Time == 0..MaxTime
Write == {"archive", "createUpdated", "homeDomain", "create"}

ASSUME SnapShotterAssumption ==
  /\ WatcherInfo \subseteq Info /\ WatcherInfo # {}
  /\ DayLength \in Nat \ {0} /\ MaxTime \in Nat
  /\ ValidatorDays \in Nat \ {0} /\ WatcherDays \in Nat \ {0}
  /\ FailingWrites \subseteq Write
  /\ NoEntity \notin Content

VARIABLES
  clock,       \* time of the update being saved, or of the last one
  completed,   \* times of the updates with completed = true
  rows,        \* the two snapshot tables
  measured,    \* node_measurement_v2
  orgMeasured, \* organization_measurement
  phase, kind, \* where the save is, and which of the two snapshotters runs
  net,         \* the entities of the network being saved
  active,      \* the nodes the crawl reached
  todo,        \* active snapshots the update loop has not visited
  kept,        \* the snapshots updateOrCreateSnapShots will return
  replacing,   \* the snapshot archived by the change being recorded, at most one
  missing,     \* entities without snapshot the create loop has not visited
  tracked      \* the nodes with a snapshot, as given to the OrganizationSnapShotter

dbVars == <<completed, rows, measured, orgMeasured>>
loopVars == <<todo, kept, replacing, missing>>
vars == <<clock, dbVars, phase, kind, net, active, loopVars, tracked>>

\* since is the update that created the first of the snapshots this one continues: with it
\* two snapshots of an entity that start together are told apart, as their serial ids do.
Row(k) == [id : Id(k), since : Time, start : Time, end : Time \cup {MaxDate},
           content : Entity(k), ipChange : BOOLEAN]

IsActive(r) == r.end = MaxDate
ActiveRows(k) == {r \in rows[k] : IsActive(r)}
\* findActiveAtTime
ActiveAt(k, t) == {r \in rows[k] : r.start <= t /\ t < r.end}
Ids(S) == {r.id : r \in S}
\* What a reader of the network at time t is shown.
View(k, t) == {[id |-> r.id, content |-> r.content] : r \in ActiveAt(k, t)}
\* Mutant: the end date is set on the loaded snapshot and never saved.
EndedInMemoryOnly(k, S) == rows
\* Sets the end date of the rows S of table k.
Ended(k, S) ==
  [rows EXCEPT ![k] = (@ \ S) \cup {[r EXCEPT !.end = clock] : r \in S}]

NothingRead == [k \in Kind |-> [i \in Id(k) |-> NoEntity]]
LastCompleted == CHOOSE t \in completed : \A u \in completed : u <= t
-----------------------------------------------------------------------------
(* The network an update starts from, and the network it saves. *)

\* A network is reread from the database after a restart or a completed
\* update.  Otherwise getNetwork answers with the cached object of the last
\* completed update, whose nodes the previous attempt has changed in place.
Reread == net = NothingRead
LatestContents(n) ==
  {IF Reread THEN r.content ELSE net["node"][n] :
     r \in {s \in ActiveAt("node", LastCompleted) : s.id = n}}

\* What a crawl may report of node n: anything if it is reached, save that a
\* node that announces no quorum set keeps the one it had.
Sightings(n) ==
  {c \in Content : \A old \in LatestContents(n) :
                     old.info \notin WatcherInfo => c.info \notin WatcherInfo}

\* Known nodes that are not reached are saved as they were last known.
CrawledNodes(reached) ==
  {f \in [Node -> Content \cup {NoEntity}] : \A n \in Node :
     f[n] \in IF n \in reached THEN Sightings(n)
              ELSE IF LatestContents(n) = {} THEN {NoEntity} ELSE LatestContents(n)}

\* The toml files give every known organization, and perhaps new ones, a list
\* of validators; no organization is taken out of the network.
TomlOrganizations ==
  {f \in [Org -> (SUBSET Node) \cup {NoEntity}] :
     \A o \in Ids(ActiveAt("org", LastCompleted)) : f[o] # NoEntity}
-----------------------------------------------------------------------------
TypeOK ==
  /\ clock \in Time
  /\ completed \subseteq Time
  /\ rows = [k \in Kind |-> rows[k]]
  /\ \A k \in Kind : rows[k] \subseteq Row(k)
  /\ measured \subseteq [node : Node, time : Time, active : BOOLEAN]
  /\ orgMeasured \subseteq [org : Org, time : Time]
  /\ phase \in {"idle", "load", "update", "create", "measure", "measureOrgs", "complete",
                "archiveValidators", "archiveWatchers", "archiveShared", "demote"}
  /\ kind \in Kind
  /\ net = [k \in Kind |-> net[k]]
  /\ \A k \in Kind : net[k] \in [Id(k) -> Entity(k) \cup {NoEntity}]
  /\ active \subseteq Node
  /\ todo \subseteq Row(kind) /\ kept \subseteq Row(kind) /\ replacing \subseteq Row(kind)
  /\ missing \subseteq Id(kind)
  /\ tracked \subseteq Node

\* The seed script has saved a first update.
Init ==
  /\ clock = 0 /\ completed = {0}
  /\ \E seeds \in (SUBSET Node) \ {{}} : \E content \in [seeds -> Content] :
       /\ rows = [k \in Kind |-> IF k = "org" THEN {} ELSE
                   {[id |-> n, since |-> 0, start |-> 0, end |-> MaxDate, content |-> content[n],
                     ipChange |-> FALSE] : n \in seeds}]
       /\ \E up \in SUBSET seeds :
            measured = {[node |-> n, time |-> 0, active |-> n \in up] : n \in seeds}
  /\ orgMeasured = {}
  /\ phase = "idle" /\ kind = "node" /\ net = NothingRead
  /\ active = {} /\ todo = {} /\ kept = {} /\ replacing = {} /\ missing = {} /\ tracked = {}
-----------------------------------------------------------------------------
(* Crawl and start of the save. *)

\* Reading the latest network fails when its view holds no nodes
\* (IncompleteNetworkError), and then nothing is crawled.
StartUpdate ==
  /\ phase = "idle" /\ clock < MaxTime
  /\ ActiveAt("node", LastCompleted) # {}
  /\ \E reached \in (SUBSET Node) \ {{}} :
     \E nodes \in CrawledNodes(reached), orgs \in TomlOrganizations :
       /\ net' = [k \in Kind |-> IF k = "node" THEN nodes ELSE orgs]
       /\ active' = reached
  /\ clock' = clock + 1
  /\ phase' = "load" /\ kind' = "node"
  /\ UNCHANGED <<dbVars, loopVars, tracked>>

LoadActiveSnapShots ==
  /\ phase = "load" /\ phase' = "update"
  /\ todo' = ActiveRows(kind) /\ kept' = {}
  /\ UNCHANGED <<clock, dbVars, kind, net, active, replacing, missing, tracked>>
-----------------------------------------------------------------------------
(* SnapShotterTemplate, for nodes and then for organizations. *)

\* Mutant: looks at every node snapshot there ever was, not at the tracked ones.
NoValidatorEverKnown(i) == kind = "org" /\ net["org"][i] \cap Ids(rows["node"]) = {}
EntityShouldBeArchived(i) == kind = "org" /\ net["org"][i] \cap tracked = {}

\* Mutant: a day is forgotten.
OlderThanBaseDate(t) == t < clock
OlderThanOneDay(t) == t < clock - DayLength
IpPortChanged(r) == kind = "node" /\ r.content.address # net["node"][r.id].address
EntityChangeShouldBeIgnored(r) == IpPortChanged(r) /\ r.ipChange /\ ~OlderThanOneDay(r.start)
\* Mutant: only the address is compared.
OnlyAddressChanged(r) == IpPortChanged(r)
HasEntityChanged(r) == r.content # net[kind][r.id]

Visiting(r) == phase = "update" /\ replacing = {} /\ r \in todo

KeepSnapShot(r) ==
  /\ Visiting(r)
  /\ \/ net[kind][r.id] = NoEntity
     \/ /\ net[kind][r.id] # NoEntity
        /\ ~EntityShouldBeArchived(r.id)
        /\ EntityChangeShouldBeIgnored(r) \/ ~HasEntityChanged(r)
  /\ todo' = todo \ {r} /\ kept' = kept \cup {r}
  /\ UNCHANGED <<clock, dbVars, phase, kind, net, active, replacing, missing, tracked>>

ShouldReplace(r) ==
  /\ net[kind][r.id] # NoEntity /\ ~EntityShouldBeArchived(r.id)
  /\ ~EntityChangeShouldBeIgnored(r) /\ HasEntityChanged(r)

ArchiveSnapShot(r) ==
  /\ Visiting(r)
  /\ net[kind][r.id] # NoEntity
  /\ EntityShouldBeArchived(r.id) \/ ShouldReplace(r)
  /\ todo' = todo \ {r}
  /\ rows' = Ended(kind, {r})
  /\ replacing' = IF ShouldReplace(r) THEN {[r EXCEPT !.end = clock]} ELSE {}
  /\ UNCHANGED <<clock, completed, measured, orgMeasured, phase, kind, net, active,
                 kept, missing, tracked>>

\* The exception is logged and the snapshot is left out of the result.
ArchiveSnapShotFails(r) ==
  /\ "archive" \in FailingWrites
  /\ Visiting(r)
  /\ net[kind][r.id] # NoEntity
  /\ EntityShouldBeArchived(r.id) \/ ShouldReplace(r)
  /\ todo' = todo \ {r}
  /\ UNCHANGED <<clock, dbVars, phase, kind, net, active, kept, replacing, missing, tracked>>

\* Mutants: the new snapshot starts where the previous update was, or after this one.
NewRowBackdated(i, since, ipChange) ==
  [id |-> i, since |-> since, start |-> clock - 1, end |-> MaxDate, content |-> net[kind][i],
   ipChange |-> ipChange]
NewRowPostdated(i, since, ipChange) ==
  [id |-> i, since |-> since, start |-> clock + 1, end |-> MaxDate, content |-> net[kind][i],
   ipChange |-> ipChange]
NewRow(i, since, ipChange) ==
  [id |-> i, since |-> since, start |-> clock, end |-> MaxDate, content |-> net[kind][i],
   ipChange |-> ipChange]

Insert(row) ==
  /\ rows' = [rows EXCEPT ![kind] = @ \cup {row}]
  /\ kept' = kept \cup {row}

CreateUpdatedSnapShot(r) ==
  /\ phase = "update" /\ r \in replacing /\ replacing' = {}
  /\ Insert(NewRow(r.id, r.since, IpPortChanged(r)))
  /\ UNCHANGED <<clock, completed, measured, orgMeasured, phase, kind, net, active,
                 todo, missing, tracked>>

\* The write of the ended snapshot and its successor fails.
CreateUpdatedSnapShotFails ==
  /\ "createUpdated" \in FailingWrites
  /\ phase = "update" /\ replacing # {} /\ replacing' = {}
  /\ UNCHANGED <<clock, dbVars, phase, kind, net, active, todo, kept, missing, tracked>>

\* For an organization the home domain follows in a write of its own, if it is not the one
\* stored.  When that fails the new snapshot is active, and left out of the result.
StoreHomeDomainFails(r) ==
  /\ "homeDomain" \in FailingWrites
  /\ phase = "update" /\ kind = "org" /\ r \in replacing /\ replacing' = {}
  /\ rows' = [rows EXCEPT ![kind] = @ \cup {NewRow(r.id, r.since, IpPortChanged(r))}]
  /\ UNCHANGED <<clock, completed, measured, orgMeasured, phase, kind, net, active,
                 todo, kept, missing, tracked>>

GetEntitiesWithoutSnapShots ==
  /\ phase = "update" /\ replacing = {} /\ todo = {}
  /\ phase' = "create"
  /\ missing' = {i \in Id(kind) : net[kind][i] # NoEntity} \ Ids(kept)
  /\ UNCHANGED <<clock, dbVars, kind, net, active, todo, kept, replacing, tracked>>

CreateSnapShot(i) ==
  /\ phase = "create" /\ i \in missing /\ missing' = missing \ {i}
  /\ \/ /\ ~EntityShouldBeArchived(i)
        /\ Insert(NewRow(i, clock, FALSE))
     \/ /\ EntityShouldBeArchived(i) \/ "create" \in FailingWrites
        /\ UNCHANGED <<rows, kept>>
  /\ UNCHANGED <<clock, completed, measured, orgMeasured, phase, kind, net, active,
                 todo, replacing, tracked>>

\* The node snapshots are kept for their measurements; the organizations'
\* turn comes after they are measured or not at all.
SnapShotsDone ==
  /\ phase = "create" /\ missing = {}
  /\ IF kind = "node"
     THEN phase' = "load" /\ kind' = "org" /\ tracked' = Ids(kept) /\ kept' = {}
     ELSE phase' = "measure" /\ UNCHANGED <<kind, tracked, kept>>
  /\ UNCHANGED <<clock, dbVars, net, active, todo, replacing, missing>>
-----------------------------------------------------------------------------
(* NetworkWriteRepository.save, after the snapshots. *)

\* Mutant: nodes the network does not know are skipped, as organizations are.
KnownNodes == {n \in tracked : net["node"][n] # NoEntity}
\* One measurement per public key.
MeasuredNodes == tracked
\* A node the network does not know is measured as inactive.
CreateNodeMeasurements ==
  /\ phase = "measure" /\ phase' = "measureOrgs"
  /\ measured' = measured \cup
       {[node |-> n, time |-> clock, active |-> net["node"][n] # NoEntity /\ n \in active] :
          n \in MeasuredNodes}
  /\ UNCHANGED <<clock, completed, rows, orgMeasured, kind, net, active, loopVars, tracked>>

CreateOrganizationMeasurements ==
  /\ phase = "measureOrgs" /\ phase' = "complete"
  /\ orgMeasured' = orgMeasured \cup
       {[org |-> o, time |-> clock] : o \in {p \in Ids(kept) : net["org"][p] # NoEntity}}
  /\ UNCHANGED <<clock, completed, rows, measured, kind, net, active, loopVars, tracked>>

\* Network measurement, completed = true and the rollups.  The next update
\* reads its network anew.
CompleteUpdate ==
  /\ phase = "complete" /\ phase' = "archiveValidators"
  /\ completed' = completed \cup {clock}
  /\ net' = NothingRead /\ active' = {}
  /\ kind' = "node" /\ kept' = {} /\ tracked' = {}
  /\ UNCHANGED <<clock, rows, measured, orgMeasured, todo, replacing, missing>>
-----------------------------------------------------------------------------
(* NodeSnapShotArchiver.archiveNodes *)

DayOf(t) == t - (t % DayLength)
\* The measurements whose day record lies in the last d days; records carry
\* the start of their day, and hold completed updates only.
Window(n, d) ==
  {m \in measured : m.node = n /\ m.time \in completed /\ DayOf(m.time) >= clock - d * DayLength}
\* Mutant: one inactive measurement is enough.
FindOnceInactive(d) == {n \in Node : \E m \in Window(n, d) : ~m.active}
FindXDaysInactive(d) ==
  {n \in Node : Window(n, d) # {} /\ \A m \in Window(n, d) : ~m.active}
\* Mutant: the measurements are not restricted to those of this update.
InactiveEver == {m.node : m \in {x \in measured : ~x.active}}
InactiveNow == {m.node : m \in {x \in measured : x.time = clock /\ ~x.active}}
IsWatcher(r) == r.content.info \in WatcherInfo

\* The callback given to filter returns nothing, so that filter keeps nothing.
FilterTrustedValidators(S) == {r \in S : FALSE}

ArchiveInactiveValidators ==
  /\ phase = "archiveValidators" /\ phase' = "archiveWatchers"
  /\ rows' = Ended("node", FilterTrustedValidators(
                {r \in ActiveRows("node") : r.id \in FindXDaysInactive(ValidatorDays)}))
  /\ UNCHANGED <<clock, completed, measured, orgMeasured, kind, net, active, loopVars, tracked>>

ArchiveInactiveWatchers ==
  /\ phase = "archiveWatchers" /\ phase' = "archiveShared"
  /\ rows' = Ended("node", {r \in ActiveRows("node") :
                              IsWatcher(r) /\ r.id \in FindXDaysInactive(WatcherDays)})
  /\ UNCHANGED <<clock, completed, measured, orgMeasured, kind, net, active, loopVars, tracked>>

SharesAddress(r) ==
  \E s \in ActiveRows("node") : s # r /\ s.content.address = r.content.address

ArchiveInactiveWithMultipleIpSamePort ==
  /\ phase = "archiveShared" /\ phase' = "demote"
  /\ rows' = Ended("node", {r \in ActiveRows("node") : r.id \in InactiveNow /\ SharesAddress(r)})
  /\ UNCHANGED <<clock, completed, measured, orgMeasured, kind, net, active, loopVars, tracked>>

\* The model has no validating flag of its own: an active node may be one
\* that is not validating.
DemoteValidators ==
  /\ phase = "demote" /\ phase' = "idle"
  /\ \E notValidating \in SUBSET {n \in Node : \E m \in Window(n, ValidatorDays) : m.active} :
     \E watcher \in WatcherInfo :
       LET demoted == FilterTrustedValidators(
             {r \in ActiveRows("node") : r.id \in notValidating /\ ~IsWatcher(r)})
       IN rows' = [Ended("node", demoted) EXCEPT !["node"] = @ \cup
             {[r EXCEPT !.start = clock, !.ipChange = FALSE, !.content.info = watcher] :
                r \in demoted}]
  /\ UNCHANGED <<clock, completed, measured, orgMeasured, kind, net, active, loopVars, tracked>>
-----------------------------------------------------------------------------
(* Failures. *)

Forget ==
  /\ phase' = "idle" /\ kind' = "node"
  /\ todo' = {} /\ kept' = {} /\ replacing' = {} /\ missing' = {} /\ tracked' = {}
  /\ active' = {}
  /\ UNCHANGED <<clock, dbVars>>

\* An exception outside the loops ends the save with an error; the process goes on.
AbortSave ==
  /\ phase \notin {"idle", "update", "create"}
  /\ Forget /\ UNCHANGED net

Crash ==
  /\ phase # "idle" \/ net # NothingRead
  /\ Forget /\ net' = NothingRead
-----------------------------------------------------------------------------
UpdateOrCreateSnapShots ==
  \/ LoadActiveSnapShots
  \/ \E r \in todo : KeepSnapShot(r) \/ ArchiveSnapShot(r) \/ ArchiveSnapShotFails(r)
  \/ \E r \in replacing : CreateUpdatedSnapShot(r) \/ StoreHomeDomainFails(r)
  \/ CreateUpdatedSnapShotFails
  \/ GetEntitiesWithoutSnapShots
  \/ \E i \in missing : CreateSnapShot(i)
  \/ SnapShotsDone

CreateMeasurements ==
  CreateNodeMeasurements \/ CreateOrganizationMeasurements \/ CompleteUpdate

ArchiveNodes ==
  \/ ArchiveInactiveValidators \/ ArchiveInactiveWatchers
  \/ ArchiveInactiveWithMultipleIpSamePort \/ DemoteValidators

Next ==
  \/ StartUpdate \/ UpdateOrCreateSnapShots \/ CreateMeasurements \/ ArchiveNodes
  \/ AbortSave \/ Crash

Spec == Init /\ [][Next]_vars
-----------------------------------------------------------------------------
(* Properties. *)

\* "A node can only have one active snapshot at a time" (src/README.md), whatever crashes,
\* aborted saves and failed writes the earlier updates met, as long as the write that ends
\* a snapshot does not fail; and so for organizations, as long as the write of a home domain
\* does not fail either.
SingleActive(k) == \A r, s \in ActiveRows(k) : r.id = s.id => r = s
SingleActiveSnapShot == \A k \in Kind : SingleActive(k)

\* The snapshots of one node or organization never overlap in time, so that
\* findActiveAtTime returns at most one of them for any time: as long as the write that ends
\* a snapshot does not fail.  Where that of a home domain does, an organization may be made
\* anew beside a snapshot that was left out, but those that continue one another still do not
\* overlap.
Disjoint(S) ==
  \A r, s \in S : r.id = s.id /\ r # s => r.end <= s.start \/ s.end <= r.start
\* The snapshots of kind k that begin with those created at t and continue one another.
Course(k, t) == {r \in rows[k] : r.since = t}
DisjointHistory ==
  /\ Disjoint(rows["node"])
  /\ "homeDomain" \notin FailingWrites => Disjoint(rows["org"])
  /\ \A t \in Time : Disjoint(Course("org", t))

\* Time travel: once the save of an update is over, the snapshots active at
\* its time never change again.
HistoryImmutable ==
  [][\A k \in Kind : \A t \in completed :
       t < clock \/ phase = "idle" => View(k, t)' = View(k, t)]_vars

\* When the snapshots of an update are done, each entity of the network that is
\* to be tracked has an active snapshot with its content, save a node
\* whose address changed again within a day.
SnapShotsRecordNetwork ==
  phase = "measure" =>
    \A k \in Kind : \A i \in Id(k) :
      net[k][i] # NoEntity /\ (k = "org" => net[k][i] \cap tracked # {}) =>
        \E r \in ActiveRows(k) :
          /\ r.id = i
          /\ \/ r.content = net[k][i]
             \/ /\ k = "node" /\ r.ipChange /\ clock - r.start <= DayLength
                /\ r.content.address # net[k][i].address

\* A completed update can be read back: every node of its view has been
\* measured, and every measured node was active until its time.
CompletedUpdateMeasured ==
  \A t \in completed :
    /\ \A r \in ActiveAt("node", t) : \E m \in measured : m.node = r.id /\ m.time = t
    /\ \A m \in measured : m.time = t =>
         \E r \in rows["node"] : r.id = m.node /\ r.start <= t /\ t <= r.end

\* The latest network is never empty, or every later update would fail on
\* IncompleteNetworkError.
LatestNetworkReadable == ActiveAt("node", LastCompleted) # {}

\* An organization none of whose validators is tracked any more outlives at
\* most one completed update: nodes are archived after organizations were
\* looked at, and the next completed update looks again.
UntrackedOrganizationEnds ==
  phase = "measure" =>
    \A r \in ActiveRows("org") : r.start <= LastCompleted => r.content \cap tracked # {}

\* Of two consecutive snapshots that both record a change of address, the
\* first is more than a day old when the second replaces it, save for a node
\* that a failed write has left with two active snapshots.
AddressFlapsDamped ==
  \A n \in Node : LET history == {r \in rows["node"] : r.id = n} IN
    Disjoint(history) =>
      \A r, s \in history :
        r.ipChange /\ s.ipChange /\ r.end = s.start /\ r # s => s.start - r.start > DayLength

\* Node n was last seen active by a completed update more than d days ago.
InactiveForDays(n, d) ==
  \A m \in measured : m.node = n /\ m.active /\ m.time \in completed =>
    clock - m.time > d * DayLength

\* "A separate archiver process is run to deactivate snapshots of nodes that are
\* inactive for over 7 days" (src/README.md:60): when the archiver is past the
\* inactive nodes, no node is left that was known before that time and inactive throughout.
InactiveNodesArchived ==
  phase = "demote" =>
    ~ \E r \in ActiveRows("node") :
        /\ r.id \in FindXDaysInactive(ValidatorDays)
        /\ InactiveForDays(r.id, ValidatorDays)
        /\ clock - r.start > ValidatorDays * DayLength

\* What a reader of the database is shown for the time of an update.
Reached(t) == {m.node : m \in {x \in measured : x.time = t /\ x.active}}
NetworkAt(t) ==
  [nodes |-> View("node", t), organizations |-> View("org", t), reached |-> Reached(t)]
Archiving == {"archiveValidators", "archiveWatchers", "archiveShared", "demote"}

History == INSTANCE NetworkHistory WITH
  Shown <- [id : Node, content : Content],
  Organization <- [id : Org, content : SUBSET Node],
  history <- [t \in completed |-> NetworkAt(t)],
  finishing <- phase \in Archiving

\* Readers are shown a history of networks: whatever is written, fails or crashes half way,
\* a step completes one update, takes nodes the crawl did not reach out of the
\* update just completed, or is invisible.
ShowsHistory == History!Spec
===============================================================================

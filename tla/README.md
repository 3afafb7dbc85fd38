# Verification of the stellarbeat backend

TLA+ models of the backend in `src/`: a process that crawls the Stellar network every
three minutes, keeps the history of its nodes and organizations, computes statistics and
notifies subscribers, and an API process that reads the same database and manages
subscriptions. The modules are translated from the TypeScript; `PROJECT.json` maps every
definition to the lines it stands for. Paths below are relative to `src/src/` (so
`network/...` is `src/src/network/...`).

Run a check with `tlc -config X.cfg M` for a row of the table under "Runs", and the proofs
with `tlapm M.tla` for the seven `*Proofs` modules and `SnapShotterRefinement`.

## 1. Inventory

### The processes and what they share

```
 update-network process                         api process
 UpdateNetwork.execute (every 3 min)            routes (read network)   SubscriptionRouter
   NetworkReadRepository.getNetwork                 |                   Subscribe, Confirm,
   CrawlerService, TomlService, ...                 |                   Unmute, Unsubscribe
   NetworkWriteRepository.save                      |                        |
      SnapShotter (nodes, then organizations)       |                        |
      measurements; completed = true                v                        v
      MeasurementsRollupService                [ PostgreSQL: network updates, snapshots,
      NodeSnapShotArchiver                       measurements, rollups, subscribers ]
   Notify: EventDetector -> Subscriber               ^
      -> Notifier -> UserService  --------------------
   JSONArchiver, HeartBeater
```

There are no transactions around an update or a request: an operation is a sequence of
awaited writes, each of which may fail, between any two of which the process may end, and
(for subscribers) between which the other process may write the same rows.

| Component | State | Operations | What makes it correct |
|---|---|---|---|
| Snapshotting (`.../snapshotting/SnapShotterTemplate.ts`, `NodeSnapShotter.ts`, `OrganizationSnapShotter.ts`) | two tables of snapshots with start and end date | load active ones, walk and compare, end, replace, create | one active snapshot per entity; history disjoint and never rewritten; the snapshots of an update record its network |
| Saving an update (`network/repositories/NetworkWriteRepository.ts`) | `network_update`, measurements | `save` in a fixed order | what is completed can be read back whole |
| Archiver (`NodeSnapShotArchiver.ts`) | active node snapshots | end inactive validators, watchers, nodes sharing an address; demote validators | ends only inactive nodes, leaves a readable network, does end the inactive |
| Reading (`NetworkReadRepository.ts`) | cache of ten networks | network at a time | readers see a history of networks: each completed update whole, never a half saved one, and no earlier one changed |
| Rollups (`MeasurementsRollupService.ts` and the day and month repositories) | four tables of totals, `lastAggregatedCrawlId` | aggregate since the last time, record how far | no update missed or counted twice; no availability above 100% |
| Update use case (`UpdateNetwork.ts`, `cli/update-network.ts`) | run state, timer, shutdown request, connection | run, tick, signal, shutdown | runs do not overlap, saves are not cut short, updates go on, the process ends |
| Event detection (`domain/event`, `TypeOrmEventRepository.ts`) | none | two window queries, comparison with the previous network | an outage told once and on time; every danger told |
| Subscriptions (`domain/subscription`, the four use cases) | subscribers, subscriptions, notification states, pending subscriptions | subscribe, confirm, unmute, unsubscribe | double opt-in; latest confirmation counts; an unmute lasts until the next delivery |
| Notifying (`Notify.ts`, `Notifier.ts`, `UserService.ts`) | subscribers being sent to | publish, send, save | muted only if delivered; not told twice in the cool-off period |
| Crawl, home domains and TOML (`CrawlerService.ts`, `HomeDomainUpdater.ts`, `TomlService.ts`, `HorizonService.ts`) | the network object, changed in place; a cache of home domains | crawl, fetch domains, fetch and process TOML files | both records of membership agree; the order of files and repeating them do not matter; two quorums of the trusted quorum set always meet |
| Full validators, history, geo data (`network-update/domain`) | none | enrich the network in memory | - |
| Statistics, archival, heartbeat, HTTP API, kernel, configuration, migrations, maintenance commands, shared services | little or none | pure I/O, generated or one-off | - |

The hard behaviours: a save abandoned at any write and continued by the next update;
organizations snapshotted before nodes are archived; two writes that belong together
(end and replace a snapshot, totals and how far they go, user and subscriber deletion);
thresholds on days and on windows of updates; the timer, the signals and an exception
meeting in one run state; the API and the backend saving the same subscriber; messages
delivered whose answer is lost; TOML files processed in any order on a network that is kept when
its save fails. `PROJECT.json` lists them as hazards at their lines, with the
properties that watch them.

## 2. Modules

| Module | Models | Theorems in |
|---|---|---|
| `SnapShotter` (`MCSnapShotter`) | save: snapshots, measurements, completion, archiver | `SnapShotterProofs`, `SnapShotterUpdateProofs` |
| `NetworkHistory` | what saving promises to readers; abstract, implemented by `SnapShotter` | `SnapShotterRefinement` |
| `Organizations` (`MCOrganizations`) | crawl, home domains and TOML files: which organization a node belongs to | `OrganizationsProofs` |
| `Rollups` | the rollups at the end of save | `RollupsProofs` |
| `UpdateNetwork` | the process: runs, timer, signals, connection | `UpdateNetworkProofs` |
| `Subscriptions` (`MCSubscriptions`) | the API requests and Notify on the subscriber tables | `SubscriptionsProofs` |
| `Events` (`MCEvents`) | the events found for an update | `EventsProofs` |

No definition is recursive. Definitions with a comment beginning with "Mutant:" are not part
of a model: each is a plausible mistake in the definition next to it, and every property of
a passing run is violated when its mutant takes that definition's place.

### SnapShotter

One action is one database write, or the code between two of them. The walk of
`updateOrCreateSnapShots` over the active snapshots is `phase = "update"`: `todo` is what is
left of the loop, `kept` the list `newActiveSnapShots`, `replacing` the snapshot ended by
`createUpdatedSnapShot` whose successor is not written yet. `KeepSnapShot` /
`ArchiveSnapShot` are the branches of the loop (entity not in the network, to be
archived, change ignored, changed); `missing` is the list of the second loop. The first time
this runs for nodes, then (`kind = "org"`) for organizations, with `tracked` the nodes
handed over. Then follow the measurements, `completed = true` and the four steps of the
archiver. The order in which loops take entities is left open.

`FailingWrites` says which of the writes inside the loops' try/catch may throw; the code logs
and goes on. Where an organization gets a new home domain, `createUpdatedSnapShot` writes it after the
new snapshot: when that fails (`StoreHomeDomainFails`, `OrganizationSnapShotter.ts:172`) the
snapshot is active in the database and missing from the list, and `CreateSnapShot` makes a second one.
Each is then continued by snapshots of its own: `since`, the update that created the first of such a course,
tells them apart, which the database does by their serial ids. An exception elsewhere (`AbortSave`) ends
the save with an error, a `Crash` ends the process; both keep what was written. After an abort the next update starts from the
network object that the attempt has changed in memory (`net`), after a crash or a
completed update from the database (`Reread`).

Data: a node's content is its address and one value for everything else a snapshot
compares (quorum set, details, geo data, organization); an organization's content is its set
of validators. The crawl is external: any reachable nodes with any content, except that a node
without quorum set keeps the one it had. An inactive node is saved as it was
last known. `FilterTrustedValidators` keeps nothing, since the callback at
`NodeSnapShotArchiver.ts:153` returns nothing.

### NetworkHistory

The specification a reader of the database could be given: `history` is the network (nodes,
organizations, the nodes that were reached) at the time of each completed update, and
`finishing` says that the latest of them may still lose nodes. `Publish` adds a network at a later
time, in which every node that was reached is shown; `Retire` takes nodes that were not reached out
of the latest; `Finish` ends that. `SnapShotter` instantiates it as `History`, with
`history <- [t \in completed |-> NetworkAt(t)]` (the snapshots active at `t`, which is what
`NetworkReadRepository` assembles) and `finishing <- phase \in Archiving`; `ShowsHistory` is the
property that the one implements the other. All steps of a save are stutters but `CompleteUpdate`
(`Publish`) and those of the archiver (`Retire`, and `Finish` with the last one, an abort or a crash).
It is not a restatement: the snapshots of an update are written, one by one, before it is
completed and outlive it when it fails.

### Organizations

Membership is written down twice, in `organizationId` of a node and in the `validators` of an
organization. An update goes through `Crawl` (known nodes are kept, others discovered),
`UpdateHomeDomains` (a domain that is not answered leaves the old one), `FetchTomlObjects`
(any of the domains may answer), one `ProcessToml` per file in any order, `TomlProcessed`
(organizations no node refers to are cleared), and `Save`, `SaveFails` or `Restart`.
`Matches` is the lookup by id of the domain, by domain, by name, over the organizations of
the start of the step (`start`), as the code's two maps are built before the first file;
`Claimed`, `SwitchedFrom` and `Removed` are the three loops of
`updateOrganizationsAndNodes`. `Save` has the two things `SnapShotter` says of it that matter
here: the change of a node may be ignored (`unsaved` remembers whose change of organization was), the
archiver may end nodes. A node whose version was never learned is saved without details, so without its home
domain (`MayLackVersion`, `NodeSaved`: `NodeDetailsStorage.ts:42`). The home
domain of an organization is stored per id, not per snapshot (`domainOf`), and before the update is completed.
`TopTierNodesToQuorumSet` is the trusted quorum set of the next crawl.

### Rollups

`Aggregated(r)` is the join on `network_update.completed` between `lastAggregatedCrawlId` and
the update being saved. A table of sums, minima and maxima is represented by how often
it took in each update (`counted`), from which each of its totals follows; `crawlCount` is
the one column that is replaced instead of added to. `AggregateMeasurements` is the SQL
statement, `SaveMeasurementRollup` the save of the rollup entity, `FailSave` an exception or a
crash anywhere. `interrupted` is a history variable: in the rollups in it a save
failed between the two writes, after which the code aggregates again, so that the
properties about counting except them. `MeasuredCount` is the sum a reader divides by `crawlCount`.

### UpdateNetwork

`at[r]` is the await run `r` is in. `Tick` is the interval's callback when the run state is
idle (otherwise it only reports), `UpdateFails` a returned error of the read or the crawl,
`ReadLatestNetworkThrows` an exception, which nothing catches in `run()`. The crawl returns what it
catches as an error; what follows it in `updateNetwork` (home domains, TOML files, full
validators, geo data, node indexes: `enrich`) returns none, and may throw (`EnrichThrows`).
`EnrichStalls` is an exception in the worker of the queue of home domains (`HomeDomainUpdater.ts:104`) and
`NotifyThrows` one in that of notifications (`Notifier.ts:31`): the worker's callback is never
called, the queue is never drained, and the run stays `undrainedNodes` or `undrained` (`Stranded`). `CloseConnection` is
`Kernel.shutdown`; a second close throws, and ends the process unless Sentry's handler is
installed. `Run` has more members than runs that can overlap according to `OneRunAtATime`, so
that an overlap would be possible to express.

### Subscriptions

A request is two or three actions: load and change the subscriber (`Subscribe`, `Confirm`,
`Unmute`, `Unsubscribe`), then `SaveSubscriber`, or `DeleteUser` in the user service and
`RemoveSubscriber`. Notify loads and changes all subscribers in one step (nothing is awaited
in between), sends one message after the other (`Send`, `SendFails`), and saves those that
succeeded. All of these interleave. A message may be delivered though it is recorded as
failed, and the save afterwards may fail. `delivered`, `released` and `confirmed` are history
variables, and so are the two that say what a course of events was like: `apart` as long as no
request or notification began while another was in progress (`Starts`), `recorded` as long as every
delivery was recorded. Three properties hold only of such courses and say so. The events of
an update are any set: `Events` says which there are.

### Events

An update is measured, then completed, then looked at by Notify; it may fail at each stage.
`FirstTimeFalse` is the SQL of `TypeOrmEventRepository`: of the last `x + 1` completed
updates (by time, at most that of the update) the only true measurement is the oldest.
The three node queries and the one for organizations are the same query on another column,
a member of `Watched` each. `DetectLivenessEvents` and
`DetectSafetyEvents` are the comparisons of `NetworkEventDetector`, including their early
return. `PreviousUpdate` is the completed update before.

## 3. Runs

`CHECK_DEADLOCK FALSE` is in every configuration: the bounds on updates and time stop
four of the models, and the process of `UpdateNetwork` really ends. Symmetry is used in runs
that check invariants and box properties only, never with liveness.

| Run | Question | Instance, and why it is enough |
|---|---|---|
| `SnapShotterNodes` | Does saving implement the published history, do the snapshots of an update record its network, is history never rewritten, are flapping addresses damped, with the writes that end or replace a snapshot failing and crashes anywhere? | 1 node, 2 addresses, with and without quorum set, 3 updates, a day per update. Nodes are walked independently; three updates are a change, a change back, and one more; with a day of one tick both sides of the one-day limit occur, and the archiver ends the node when it is not reached. |
| `SnapShotterOrganizations` | Is a completed update readable whole, is the latest network never empty, do untracked organizations end, and do snapshots stay apart (of an organization, those that continue one another), when an organization may be left with two active ones? | 2 nodes sharing the only address, 1 organization, 3 updates, days of two ticks, the write of a home domain failing. Two nodes are what the shared-address rule needs; a node goes, and its organization has an update to go after it. With two ticks a day record holds more than one update. |
| `SnapShotterArchiveFails` (violation) | Is there one active snapshot when the write that ends one fails? | 1 node, 2 updates |
| `SnapShotterInactiveNodes` (violation) | Are inactive nodes archived? | 2 nodes, 3 updates of a day, limits of one day |
| `Rollups` | Is each update counted, once, and divided by the right number? | 1 entity, 3 updates over 2 days, the four rollups. Entities do not meet in any formula; three updates are a good one, a failed one and the one that repairs it; two days are a day's end in between. |
| `UpdateNetworkRuns` | Do runs stay apart, are saves left whole, do updates go on and processes end? | 2 runs, with and without loop and Sentry, any number of signals. Unbounded in time: the state space is finite. |
| `UpdateNetworkStuck` (violation) | Does the loop go on after an exception of the read or of a step after the crawl, or with a queue that stalls? | the same |
| `Subscriptions` | Double opt-in, and mutes only after a delivery, in any interleaving; the rules of unmute, confirmation and the cool-off period where nothing interleaved | 1 user, 2 sources, 2 requests in progress and a notification, 2 updates, 2 subscribe requests, a period of one update. Users share nothing; two requests and a notification are all the writers that can meet on a row in a pair and a third. |
| `SubscriptionsConfirmLost` (violation) | Does the latest confirmation count when a notification overlaps? | the same with one request in progress and one update |
| `Organizations` | Do both records of membership agree, does the order of files matter, does an unchanged file change anything, do two trusted quorums meet? | 2 nodes, 2 domains, 1 older name, 3 updates, symmetry of nodes and of domains. Files meet in pairs; two nodes are one that stays and one that moves; three updates are a change, a failed or partial save, and the one that repairs it. |
| `OrganizationsReleased` (violation) | Is a node released by another organization's file? | the same, 2 updates |
| `Events` | Is an outage told once and on time, are dangers and changes of the quorum set told? | 1 node with one watched column, x = 2, 4 updates after the seed, 4 analyses (sound, two kinds of risk, loss). Columns and sources are filtered independently; a window of three and five updates leave room for an outage that lasts past its event, with a failed update in between, so that it could be told again or late; a second event of the same node needs six completed updates and is left to the theorem, which is for any number. |

That `NotAgainDuringCoolOff` assumes every delivery was recorded (`recorded`) follows the comment at
`Notify.ts:92`: a message sent whose answer is lost is sent again during the period.

### Fairness

Only `UpdateNetwork` has liveness properties. Its fairness: every run in progress proceeds (its
awaited calls return or throw: requests and queries have time limits, and a pool that is
closed rejects), the interval's callback is eventually called when it may start a run, and closing
the connection, `main` continuing and the end of a process with nothing left all happen.
Nothing is assumed about signals or about which of the outcomes of a step occurs. `KeepsUpdating`
has the exceptions `threw` and `Stranded` (as has `EndsByItself` the second), which the run
`UpdateNetworkStuck` shows to be needed: `threw` is an exception of the read or of a step after the crawl,
`Stranded` a queue that stalls; `SignalEndsProcess` excepts Sentry, whose handler keeps a process alive after the
second close has thrown.

### What the violations show

| Run | Code | Contradicts |
|---|---|---|
| `SnapShotterArchiveFails` | the try/catch at `SnapShotterTemplate.ts:73` also covers the write that ends a snapshot: it stays active, is dropped from the list, and a second is made | "A node can only have one active snapshot at a time", `src/README.md:49` |
| `SnapShotterInactiveNodes` | the filter callback at `NodeSnapShotArchiver.ts:153` returns nothing, so no validator is archived or demoted | "deactivate snapshots of nodes that are inactive for over 7 days", `src/README.md:60` |
| `UpdateNetworkStuck` | an exception of `getNetwork` (`UpdateNetwork.ts:83`), one of a step after the crawl (`:143`-`179`) or one in the queue of home domains (`HomeDomainUpdater.ts:104`) leaves `runState` at updating, one in the notification queue (`Notifier.ts:31`) leaves it at persisting, and the process alive | "update network every three minutes", `UpdateNetwork.ts:38` |
| `SubscriptionsConfirmLost` | `Notify.ts:76` saves subscribers loaded before the messages were sent | "should create the actual subscriptions when confirmed", `ConfirmSubscription.integration.test.ts:53` |
| `OrganizationsReleased` | `TomlService.ts:171` takes the organization from every node that leaves a list, whichever organization the node refers to by then | "if validators are removed from toml file we need to update the organization reference in the removed nodes", `TomlService.ts:165` |

Met while modelling, without a run of their own: a snapshot made for another change (a new quorum
set, say) forgets that the address has changed, and with it the limit of one change a day that the
comment at `NodeSnapShotter.ts:201` states, which is why `AddressFlapsDamped` speaks of
consecutive snapshots; the inactive-days query looks at day rows that began after the limit only,
so that the days it asks for are up to one short
(`NodeMeasurementDayV2Repository.ts:146`); averages over x days span x + 1 day rows and need x
(`:92`); a mute is lost when an API request that loaded the subscriber before a notification
saves after it; events of an update that was completed and failed afterwards are told by nobody,
though every update is said to be looked at (`UpdateNetwork.ts:193`); the
comment at `Notify.ts:92` names the repeated message itself; `EventSourceIdFactory.ts:34` tests a `Result`
instead of the boolean in it, so that every source counts as known (`IsKnown`); a change of
address that is ignored takes the change of organization of the node with it, while the
organization is saved with the node in its list, so that the two disagree in the database until the
organization of the node is saved (`unsaved`); an organization whose home domain cannot be stored
gets a second active snapshot in the same update, overlapping the first (with `"homeDomain"` in
`FailingWrites` TLC finds `SingleActiveSnapShot` violated); a node without a known version is saved without its
home domain, so that when Horizon does not answer for it in the next update it is no longer claimed by
the file that listed it, and leaves its organization.

## 4. Theorems

Each theorem is for all values of the constants under the module's `ASSUME`, which
TLC evaluates in every run. Bounds such as `MaxTime` are constants too: the proofs hold for
any bound, and so for as many updates as one likes. A property was model-checked before it
was proved.

| Theorem | Property | Strengthening and argument |
|---|---|---|
| `SnapShotterProofs!TypeCorrect` | `TypeOK` | `TypeInv` adds `Loops` (what a loop still visits are active snapshots, or entities of the network) and `LoopsIdle` (nothing is left of a loop outside it), without which `NewRow` may not be typed |
| `SnapShotterProofs!TimeTravel` | `HistoryImmutable` | every step is one of three (`RowsStep`): it ends active snapshots at `clock`, adds one starting at `clock`, or leaves the rows; none changes a view before `clock` (`ViewUnchanged`). Holds with any write failing |
| `SnapShotterProofs!NodesDisjoint`, `OneActive`, `HistoryDisjoint` | `SingleActive` and `Disjoint` for nodes; `SingleActiveSnapShot` (of the violation run), `DisjointHistory` | under `ArchiveSaves`, the write that ends a snapshot does not fail (the violation run shows it is needed), and `OneActive`, which is about organizations too, under `HomeDomainSaves` as well. `IInv` has the property for each kind whose loops lose sight of no active snapshot (`InSight`): nodes have no home domain to store. It adds `RowTimes`, `UpdateLoop` (the active snapshots are exactly those still to visit and those kept, and the one just ended has no successor) and `CreateLoop` (the second loop visits only entities without one). Whichever writes fail, the snapshots of one course stay disjoint (`CoursesDisjoint`): the one just ended was the only active one of its course (`Continued`), and no course begins twice (`Begun`) |
| `SnapShotterRefinement!Refinement` | `ShowsHistory` | whichever writes fail. Where ending a snapshot fails an entity may have two active ones, so the argument cannot go through `IInv`. `VInv` has what it needs instead: rows do not outrun the clock (`RowTimes`), no update is completed in the future (`CompletedTimes`), a node has one measurement in an update (`MeasuredOnce`), the loops visit only older snapshots and return only active ones (`KeptActive`), and what is tracked is active (`TrackedActive`). A completion maps to `Publish`, a step of the archiver to `Retire` or `Finish` (`InactiveNotReached`: it ends only nodes that were not reached), any other to a stutter (`ViewUnchanged`) |
| `SnapShotterRefinement!Settled`, `ReachedShown` | `NetworksSettle`, `ReachedAreShown` (both stated beside the theorems) | whichever writes fail; taken over from the refinement: a step of `NetworkHistory` is read as what it does to one network (`HistoryStep`), so a network that was shown loses only unreached nodes, only while its own archiver runs, and every node an update reached stays shown |
| `SnapShotterUpdateProofs!ReadBack` | `CompletedUpdateMeasured` | under `ArchiveSaves` or `CreateSaves`: where ending the snapshot of a node fails, the second loop makes one more, and only if that fails too is the node shown and not measured. `RInv` = `VInv`, `AllTracked` (no node with a snapshot is lost sight of: it is still to visit, kept, or, where its snapshot was not ended, still to be made anew), `ViewMeasured`, `MeasuredCovered` |
| `SnapShotterUpdateProofs!NeverEmpty` | `LatestNetworkReadable` | under `CreateSaves`. `NInv` = `VInv`, `Reaching` (the network crawled has a reachable node, which the archiver never ends), `NonEmpty`, `HasLast` |
| `SnapShotterUpdateProofs!UntrackedEnds` | `UntrackedOrganizationEnds` | under `ArchiveSaves`, home domains failing or not. `UInv` = `VInv`, `AllKept` (every active snapshot of an earlier update is kept by the time new ones are made), `HasLast`, `OrgsKept` (what the walk over the organizations keeps has a tracked validator) |
| `SnapShotterUpdateProofs!NetworkRecorded` | `SnapShotsRecordNetwork` | under `CreateSaves`. `VInv` and `Recording`: what each entity already visited has to show, while the loops run |
| `SnapShotterUpdateProofs!FlapsDamped` | `AddressFlapsDamped` | whichever writes fail. `FInv` = `VInv`, `FlaggedOnce`, `MadeNow`, `Replacing` (the snapshot just ended is the predecessor of the one about to be written) and `Succession`: whatever records a change of address replaced a snapshot that had lasted long enough, and which never changes again. Where snapshots do not overlap, that is the one ending when the new one starts (`SuccessionDamps`) |
| `OrganizationsProofs!TypeCorrect`, `OwnersListed` | `TypeOK`, `OwnersListTheirNodes` | `IInv` = `TypeOK`, `Current`; one lemma for each of the three functions that change the network (`WithValidatorsLists`, `ClearedFacts`, `RereadFacts`) |
| `OrganizationsProofs!TrustedQuorums` | `TrustedQuorumsIntersect` | for any number of organizations and validators: two majorities of a finite set meet (`MajoritiesMeet`), so two sets that satisfy a quorum set of majorities agree on an inner set and meet within it (`QuorumsMeet`); the rest counts the inner sets made for the top tier |
| `OrganizationsProofs!AnyOrder` | `OrderIrrelevant` | every field of every node and organization after a file is a formula over the network before it (`ProcessedFields`, with `Effect` for the nodes). Applied to the other order, the two results are the same fields (`Both`, `BothSame`): a file changes only the nodes it claims or its organization listed, and two files of different domains claim different nodes (a node has one home domain) |
| `OrganizationsProofs!NothingChanges` | `UnchangedFileChangesNothing` | `NewProcessed` is invariant: an organization that was not there at the start of the step has been made by a file that is no longer pending, so the file finds its own organization again (`MatchesOld`); then `SameFileAgain`, field by field |
| `RollupsProofs!TypeCorrect` | `TypeOK` | inductive as it stands |
| `RollupsProofs!NoUpdateLeftOut` | `NoneLeftOut` | `NoneLeftOutInv` adds `NotYetAggregated` and `SavingCounted`: between its two writes a rollup has taken in every completed update |
| `RollupsProofs!EachCountedOnce` | `CountedOnce` | `CountedOnceInv`: the same, exactly once, for rollups never interrupted |
| `RollupsProofs!NeverAboveAll` | `AtMostAlwaysAvailable` | `AvailableInv` = `CountedOnceInv`, `TakenAtMost` (the property, of the sets of updates instead of the sum). The sum is a fold (`MapThenSumSet`), about which nothing can be proved by induction here; it is shown to be a cardinality (`MeasuredOnes`) through a minimal counterexample: of the sets of updates for which the two differ one has no other inside (`MinimalSubset`), and taking an update out of it gives another |
| `UpdateNetworkProofs!TypeCorrect`, `SingleRun`, `SaveUncut` | `TypeOK`, `OneRunAtATime`, `SaveNotCutShort` | one `IInv`: `RunMarked` (a run keeps the state from being idle), `SettledAtRest` (after `execute` settled no run goes on and no tick starts one, so `main` cannot close under a save), `LoopOrResolve` |
| `SubscriptionsProofs!TypeCorrect` | `TypeOK` | `TypeInv` adds that a notification's subscriber is unique to its user and that ids are not reused |
| `SubscriptionsProofs!OptIn`, `MutedWhenTold` | `DoubleOptIn`, `MutedOnlyIfDelivered` | the property is extended from the tables to every copy of a subscriber in flight (`Opted`, `Heard`): an overwritten row is stale, but never unconfirmed or untold |
| `SubscriptionsProofs!LatestCounts` | `LatestConfirmationCounts` | `LInv` = `TypeInv`, `Opted`, `Heard`, `Alone` (while `apart`, at most one request or one notification is in progress, so no copy is saved over a newer row), `ConfirmedKept` (who has confirmed has a row, unless deleted), `AllUpToDate` (while `apart`, every copy is as the latest confirmation left it, and what is about to be confirmed is newer) |
| `SubscriptionsProofs!UnmutedTillTold` | `UnmutedUntilDelivered` | `UInv` = the same with `AllSingle` (no copy has two states of one event) and `AllUnmuted`, which says of every copy what the property says of the row, but for the events that the message of that copy tells of |
| `SubscriptionsProofs!CoolsOff` | `NotAgainDuringCoolOff` (action property) | `CInv` = the same with `ToldBefore` (nothing is delivered before its time) and `AllHeeded`: while `apart` and `recorded`, each delivery is in the states of its user's row (`RowsHeed`), or in those of the copy about to replace it (`CopiesHeed`), unless released since; so what a notification tells of was not told within the period (`Due`) and is muted by it (`MutesTold`) |
| `EventsProofs!TypeCorrect` | `TypeOK` | `BaseInv`: updates are completed and looked at in order, and there is always a previous one |
| `EventsProofs!OutageToldOnce`, `OutageToldAtAll` | `OncePerOutage`, `OutageTold` | `Told`: the window of a past update never changes (`WindowStays`), so an event is there exactly if the query would find it now; the rest is counting (`RowNumbers`, `TheGoodOne`) |
| `EventsProofs!DangerToldAtAll`, `QuorumSetTold` | `DangerKnown`, `QuorumSetKnown` | inductive with `BaseInv`: a fall happens between an update and the one before, or was told before (`FallIsTold`) |

Assumed of the constants, besides finite sets and bounds in `Nat`: the limits `ValidatorDays` and
`WatcherDays` are at least 1 (7 and 1 in the code), and no content of an entity is `NoEntity`.
`ArchiveSaves`, `CreateSaves` and `HomeDomainSaves` say that the write that ends a snapshot, that makes one
for an entity without, or that stores a home domain is not in `FailingWrites`; every other failure, abort and crash is covered. In particular
the write of the successor of an ended snapshot may fail in every theorem: the entity has no
active snapshot then, and the next update makes one. A theorem has one of them only where TLC finds its
property violated without: `NodesDisjoint`, `OneActive`, `HistoryDisjoint` and `UntrackedEnds` when a snapshot cannot be
ended, `OneActive` when a home domain cannot be stored (`DisjointHistory` makes that exception itself), `NeverEmpty` and `NetworkRecorded` when one cannot be made, `ReadBack` when both happen.

Every safety and action property of the passing runs is proved. Only model-checked: the liveness
properties of `UpdateNetwork` (`KeepsUpdating`, `SignalEndsProcess`, `EndsByItself`), which rest on
fairness and `ENABLED` and are out of the prover's reach. `NetworksSettle` and `ReachedAreShown`
have no run of their own: with the constants of `SnapShotterOrganizations` TLC finds them true, and with those
of `SnapShotterNodes`, where ending a snapshot may fail, as well. `ShowsHistory` is true with two nodes and an
organization too, the constants of `SnapShotterOrganizations`; that takes TLC twice as long as the rest of that run
and is left to the theorem. The three theorems about subscriptions are for
courses of events that are `apart`; what may happen in the others to a confirmation is shown by `SubscriptionsConfirmLost`.

## 5. Not modelled, and abstractions to know of

- The crawl, the analysis of the quorums, the user service, PostgreSQL and the HTTP clients are
  external; the models have what may come back from them.
- `dryRun`, which ends a run before anything is saved (and leaves the run state at updating,
  `UpdateNetwork.ts:89`, so that a dry run that loops never gets to a second run).
- `rollbackNetworkMeasurementRollups` has no caller. The clean-up and import commands run by hand.
- The text of messages, the limit of ten messages at a time, the archive file and the
  heartbeat: awaited steps that may fail. An exception inside the queue is modelled (`NotifyThrows`).
- The cache of `NetworkReadRepository` appears as the changed network after an aborted save
  (`SnapShotter`, `Organizations`); that an entry is evicted, and the cache of the API
  process, do not appear.
- The hour for which home domains are cached: any node may keep its domain in any update, so that
  answers of an earlier time are among the behaviours.
- The names, links, texts and contact data that `updateOrganization` and `updateValidator` copy.
- `Subscriptions` bounds the number of subscribe requests (`MaxPending`) and of updates (`MaxTime`);
  `SnapShotter` and `Rollups` that of updates and days; `Events` and `Organizations` that of updates.
- `Events` takes the nodes of a network as given: a node whose snapshot ended between two
  updates is not distinguished from one without a true measurement.
- Geo data, history, statistics, API routes and their rate limit, configuration, kernel
  wiring, migrations: see the components in `PROJECT.json`, each with its reason.

## 6. Plan

Done, in the order of importance: `SnapShotter`, `Rollups`, `UpdateNetwork`, `Subscriptions`,
`Events`, `NetworkHistory` with the refinement, and `Organizations` (home domains, the matching of
TOML files and the trusted quorum set), each with its runs, then its theorems. Next:

1. `NetworkReads`: the cache of `NetworkReadRepository` and its two readers (the next update, which
   changes the cached object, and the API, which may read between completion and the end
   of the archiver), composed with `NetworkHistory`, which has both ends of that interval.
2. The composition of `Events` with `Subscriptions`: which outage reaches which user; and of
   `UpdateNetwork` with the phases of `save`.
3. `Throttler`, and the limit of the queue of `Notifier`.
4. Theorems: the safety properties of each new module.

New runs take the place of older ones whose question they include.

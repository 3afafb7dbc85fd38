-------------------------------- MODULE Rollups --------------------------------
(***************************************************************************)
(* The measurement rollups: after an update is completed, four tables of   *)
(* day and month totals take in the measurements of every completed update *)
(* since the last one they took in.  Taking them in (one SQL statement     *)
(* that adds to the totals) and writing down up to which update they were  *)
(* taken in are two separate writes.                                       *)
(*                                                                         *)
(* A table of sums, minima and maxima is modelled by how often it has      *)
(* taken in each update: every total it holds is determined by that.       *)
(***************************************************************************)
EXTENDS Integers, FiniteSets, FiniteSetsExt

CONSTANTS
  Entity,      \* the nodes, and the organizations
  MaxUpdate,   \* bound: the number of updates
  MaxDay       \* bound: the number of days they span

ASSUME RollupsAssumption == MaxUpdate \in Nat \ {0} /\ MaxDay \in Nat

Update == 1..MaxUpdate
Day == 0..MaxDay
\* In the order rollupMeasurements performs them.
Rollups == <<"node_measurement_day_v2", "organization_measurement_day",
             "network_measurement_day", "network_measurement_month">>
EntityRollups == {Rollups[1], Rollups[2]}
Rollup == {Rollups[i] : i \in 1..4}

VARIABLES
  last,           \* id of the last network_update row
  day,            \* the day of each update
  completed,      \* the updates with completed = true
  measured,       \* the entities measured in each update, for the entity rollups
  counted,        \* how often each rollup table took in each update
  crawlCount,     \* column crawlCount of the entity rollups, per day and entity
  lastAggregated, \* MeasurementRollup.lastAggregatedCrawlId
  phase,          \* where the save of update last is
  current,        \* which rollup is being performed
  interrupted     \* history: the rollups a save has failed in between their two writes

tables == <<counted, crawlCount>>
vars == <<last, day, completed, measured, tables, lastAggregated, phase, current, interrupted>>

TypeOK ==
  /\ last \in 0..MaxUpdate
  /\ day \in [Update -> Day]
  /\ completed \subseteq 1..last
  /\ measured \in [EntityRollups -> [Update -> SUBSET Entity]]
  /\ counted \in [Rollup -> [Update -> Nat]]
  /\ crawlCount \in [EntityRollups -> [Day -> [Entity -> Nat]]]
  /\ lastAggregated \in [Rollup -> 0..last]
  /\ phase \in {"idle", "measure", "complete", "aggregate", "save"}
  /\ current \in 1..4
  /\ interrupted \subseteq Rollup

Init ==
  /\ last = 0 /\ completed = {}
  /\ day = [u \in Update |-> 0]
  /\ measured = [r \in EntityRollups |-> [u \in Update |-> {}]]
  /\ counted = [r \in Rollup |-> [u \in Update |-> 0]]
  /\ crawlCount = [r \in EntityRollups |-> [d \in Day |-> [e \in Entity |-> 0]]]
  /\ lastAggregated = [r \in Rollup |-> 0]
  /\ phase = "idle" /\ current = 1 /\ interrupted = {}
-----------------------------------------------------------------------------
(* NetworkWriteRepository.save up to the rollups. *)

Today == IF last = 0 THEN 0 ELSE day[last]

SaveNetworkUpdate ==
  /\ phase = "idle" /\ last < MaxUpdate
  /\ last' = last + 1 /\ phase' = "measure"
  /\ \E d \in {x \in Day : x >= Today} : day' = [day EXCEPT ![last + 1] = d]
  /\ UNCHANGED <<completed, measured, tables, lastAggregated, current, interrupted>>

CreateMeasurements ==
  /\ phase = "measure" /\ phase' = "complete"
  /\ \E nodes, organizations \in SUBSET Entity :
       measured' = [r \in EntityRollups |->
         [measured[r] EXCEPT ![last] = IF r = Rollups[1] THEN nodes ELSE organizations]]
  /\ UNCHANGED <<last, day, completed, tables, lastAggregated, current, interrupted>>

CompleteUpdate ==
  /\ phase = "complete" /\ phase' = "aggregate" /\ current' = 1
  /\ completed' = completed \cup {last}
  /\ UNCHANGED <<last, day, measured, tables, lastAggregated, interrupted>>
-----------------------------------------------------------------------------
(* performRollup *)

\* Mutants: from the update last aggregated on; only the update being saved.
AggregateFromLast(r) == {u \in completed : lastAggregated[r] <= u /\ u <= last}
AggregateThis(r) == {last}
Aggregated(r) == {u \in completed : lastAggregated[r] < u /\ u <= last}

\* Mutant: the crawls of the day are counted as the network rollups count them.
CrawlsAggregated(r, d) == Cardinality({u \in Aggregated(r) : day[u] = d})
CrawlsOfDay(r, d) == Cardinality({u \in completed : day[u] = d})

\* What is found since the last time is added to what the totals hold.
Added(r) == [u \in Update |-> counted[r][u] + IF u \in Aggregated(r) THEN 1 ELSE 0]

\* repository.rollup: totals are added to, the crawl count of a day is replaced
\* in the rows of the entities that are measured.
AggregateMeasurements ==
  LET r == Rollups[current] IN
  /\ phase = "aggregate" /\ phase' = "save"
  /\ counted' = [counted EXCEPT ![r] = Added(r)]
  /\ crawlCount' = [q \in EntityRollups |-> [d \in Day |-> [e \in Entity |->
       IF q = r /\ \E u \in Aggregated(r) : day[u] = d /\ e \in measured[r][u]
       THEN CrawlsOfDay(r, d) ELSE crawlCount[q][d][e]]]]
  /\ UNCHANGED <<last, day, completed, measured, lastAggregated, current, interrupted>>

\* Mutant: the update to start from next time.
AggregateNextFrom == last + 1
AggregatedUpTo == last

SaveMeasurementRollup ==
  /\ phase = "save"
  /\ lastAggregated' = [lastAggregated EXCEPT ![Rollups[current]] = AggregatedUpTo]
  /\ IF current < 4 THEN phase' = "aggregate" /\ current' = current + 1
                    ELSE phase' = "idle" /\ current' = 1
  /\ UNCHANGED <<last, day, completed, measured, tables, interrupted>>

\* An exception abandons the save, a crash does the same.
FailSave ==
  /\ phase # "idle" /\ phase' = "idle" /\ current' = 1
  /\ interrupted' = interrupted \cup (IF phase = "save" THEN {Rollups[current]} ELSE {})
  /\ UNCHANGED <<last, day, completed, measured, tables, lastAggregated>>

Next ==
  \/ SaveNetworkUpdate \/ CreateMeasurements \/ CompleteUpdate
  \/ AggregateMeasurements \/ SaveMeasurementRollup \/ FailSave

Spec == Init /\ [][Next]_vars
-----------------------------------------------------------------------------
(* Reading the tables. *)

\* The measurements of an entity that are summed in its row of a day.
MeasuredCount(r, d, e) ==
  MapThenSumSet(LAMBDA u : IF day[u] = d /\ e \in measured[r][u] THEN counted[r][u] ELSE 0,
                Update)
-----------------------------------------------------------------------------
(* Properties. *)

\* No completed update is ever left out: each is taken in by a rollup before the
\* rollup records it as aggregated, also those whose own rollup failed.
NoneLeftOut ==
  \A r \in Rollup : \A u \in completed : u <= lastAggregated[r] => counted[r][u] >= 1

\* Exactly the completed updates up to lastAggregatedCrawlId are in the totals of a
\* rollup, each once, unless a save has failed between its two writes.
CountedOnce ==
  \A r \in Rollup \ interrupted : ~(phase = "save" /\ r = Rollups[current]) =>
    \A u \in Update :
      counted[r][u] = IF u \in completed /\ u <= lastAggregated[r] THEN 1 ELSE 0

\* A total of a day never exceeds the number of crawls it is divided by: no node or
\* organization is available for more than 100% of the time, with the same exception.
AtMostAlwaysAvailable ==
  \A r \in EntityRollups \ interrupted, d \in Day, e \in Entity :
    MeasuredCount(r, d, e) <= crawlCount[r][d][e]
================================================================================

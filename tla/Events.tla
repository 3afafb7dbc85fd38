--------------------------------- MODULE Events ---------------------------------
(***************************************************************************)
(* The events of a network update: what Notify finds after an update is    *)
(* saved.  The events of nodes and organizations come from two queries on  *)
(* the measurements of the last completed updates, those of the network    *)
(* from a comparison with the completed update before.  Nothing is kept of *)
(* the events: an update whose save or whose Notify fails after it was     *)
(* completed is not looked at again.                                       *)
(***************************************************************************)
EXTENDS Integers, FiniteSets

CONSTANTS
  Node, Organization,
  NodeAspect,      \* the columns of node_measurement_v2 that are watched
  NumberOfUpdates, \* x of the queries, 3 in EventDetector
  QuorumSet,       \* transitive quorum sets
  Analysis,        \* what network_measurement may hold for an update
  MaxUpdate        \* bound: the last update

Size == {"blocking", "orgBlocking", "splitting", "orgSplitting"}

ASSUME EventsAssumption ==
  /\ NodeAspect \subseteq {"isActive", "isValidating", "isFullValidator"}
  /\ NumberOfUpdates \in Nat \ {0} /\ MaxUpdate \in Nat
  /\ Analysis \subseteq [blocking : Nat, orgBlocking : Nat, splitting : Nat, orgSplitting : Nat,
                         quorumSet : QuorumSet]

VARIABLES
  update,    \* the update being saved, or the last one
  phase,     \* how far it is
  completed, \* the updates with completed = true
  measured,  \* the measurements that are true
  analyses,  \* network_measurement, and the transitive quorum set of the nodes read
  detected,  \* history: the updates whose events were found
  updatesEvents, networkEvents, quorumSetChanges \* the events found so far

measurementVars == <<completed, measured, analyses>>
eventVars == <<detected, updatesEvents, networkEvents, quorumSetChanges>>
vars == <<update, phase, measurementVars, eventVars>>

Update == 0..MaxUpdate
\* A node is inactive, not validating or without up to date history, an
\* organization is unavailable.
Watched == [source : Node, aspect : NodeAspect]
             \cup [source : Organization, aspect : {"isSubQuorumAvailable"}]
NetworkEvent ==
  {"NetworkLossOfLiveness", "NetworkNodeLivenessRisk", "NetworkOrganizationLivenessRisk",
   "NetworkLossOfSafety", "NetworkNodeSafetyRisk", "NetworkOrganizationSafetyRisk"}

TypeOK ==
  /\ update \in Update /\ phase \in {"idle", "measured", "completed"}
  /\ completed \subseteq Update /\ detected \subseteq completed
  /\ measured \subseteq [watched : Watched, at : Update]
  /\ analyses \in [0..update -> Analysis]
  /\ updatesEvents \subseteq [watched : Watched, at : detected]
  /\ networkEvents \subseteq [type : NetworkEvent, at : detected]
  /\ quorumSetChanges \subseteq [at : detected, from : QuorumSet, to : QuorumSet]

TrueAt(S, u) == {[watched |-> w, at |-> u] : w \in S}

\* The update the database is seeded with.
Init ==
  /\ update = 0 /\ phase = "idle" /\ completed = {0}
  /\ \E S \in SUBSET Watched : measured = TrueAt(S, 0)
  /\ analyses \in [{0} -> Analysis]
  /\ detected = {} /\ updatesEvents = {} /\ networkEvents = {} /\ quorumSetChanges = {}
-----------------------------------------------------------------------------
(* NetworkWriteRepository.save, and how it may end early. *)

CreateMeasurements ==
  /\ phase = "idle" /\ update < MaxUpdate
  /\ update' = update + 1 /\ phase' = "measured"
  /\ \E S \in SUBSET Watched : measured' = measured \cup TrueAt(S, update')
  /\ \E a \in Analysis :
       analyses' = [u \in 0..update' |-> IF u = update' THEN a ELSE analyses[u]]
  /\ UNCHANGED <<completed, eventVars>>

CompleteUpdate ==
  /\ phase = "measured" /\ phase' = "completed"
  /\ completed' = completed \cup {update}
  /\ UNCHANGED <<update, measured, analyses, eventVars>>

\* The save fails, before or after the update was completed, in which case
\* Notify is not called; or Notify returns an error.
UpdateFails ==
  /\ phase # "idle" /\ phase' = "idle"
  /\ UNCHANGED <<update, measurementVars, eventVars>>
-----------------------------------------------------------------------------
(* TypeOrmEventRepository *)

\* Mutant: the window holds updates that were never completed.
UpdatesUpTo(at) == 0..at
CompletedUpTo(at) == {u \in completed : u <= at}
\* row_number() over (order by time desc)
RowNumber(u, at) == Cardinality({v \in CompletedUpTo(at) : u <= v})
\* limit x + 1
Window(at) == {u \in CompletedUpTo(at) : RowNumber(u, at) <= NumberOfUpdates + 1}
TrueRows(w, at) == {u \in Window(at) : [watched |-> w, at |-> u] \in measured}
\* Mutant: the count of true measurements is not looked at.
OldestTrue(w, at) == \E u \in TrueRows(w, at) : RowNumber(u, at) = NumberOfUpdates + 1
\* The only true measurement of the window is its oldest.
FirstTimeFalse(w, at) ==
  \E u \in Update : TrueRows(w, at) = {u} /\ RowNumber(u, at) = NumberOfUpdates + 1
FindEventsForXNetworkUpdates(at) == {w \in Watched : FirstTimeFalse(w, at)}
-----------------------------------------------------------------------------
(* NetworkEventDetector *)

\* Mutant: the update itself is found, not the one before.
LatestUpdate(at) == CHOOSE u \in CompletedUpTo(at) : \A v \in CompletedUpTo(at) : v <= u
\* Mutant: the one before may be an update that was never completed.
UpdateBefore(at) == at - 1
PreviousUpdate(at) == CHOOSE u \in completed : u < at /\ \A v \in completed : v < at => v <= u

FallsTo(threshold, previous, current) == previous > threshold /\ current <= threshold

\* A loss is told alone, without the risks that come with it.
DetectLivenessEvents(p, n) ==
  LET lost == FallsTo(0, p.blocking, n.blocking) IN
  {type \in NetworkEvent :
     \/ type = "NetworkLossOfLiveness" /\ lost
     \/ type = "NetworkNodeLivenessRisk" /\ ~lost /\ FallsTo(3, p.blocking, n.blocking)
     \/ /\ type = "NetworkOrganizationLivenessRisk" /\ ~lost
        /\ FallsTo(1, p.orgBlocking, n.orgBlocking)}
DetectSafetyEvents(p, n) ==
  LET lost == FallsTo(0, p.splitting, n.splitting) IN
  {type \in NetworkEvent :
     \/ type = "NetworkLossOfSafety" /\ lost
     \/ type = "NetworkNodeSafetyRisk" /\ ~lost /\ FallsTo(1, p.splitting, n.splitting)
     \/ /\ type = "NetworkOrganizationSafetyRisk" /\ ~lost
        /\ FallsTo(1, p.orgSplitting, n.orgSplitting)}
DetectNetworkEvents(p, n) == DetectLivenessEvents(p, n) \cup DetectSafetyEvents(p, n)

DetectTransitiveQuorumSetChangedEvents(at, p, n) ==
  IF p.quorumSet = n.quorumSet THEN {}
  ELSE {[at |-> at, from |-> p.quorumSet, to |-> n.quorumSet]}

\* Mutant: an error the save returned is ignored.
SaveEnded == phase # "idle"
SaveSucceeded == phase = "completed"

Detect ==
  /\ SaveSucceeded /\ phase' = "idle"
  /\ detected' = detected \cup {update}
  /\ updatesEvents' = updatesEvents \cup
       {[watched |-> w, at |-> update] : w \in FindEventsForXNetworkUpdates(update)}
  /\ LET previous == analyses[PreviousUpdate(update)]
         current == analyses[update]
     IN /\ networkEvents' = networkEvents \cup
             {[type |-> type, at |-> update] : type \in DetectNetworkEvents(previous, current)}
        /\ quorumSetChanges' = quorumSetChanges \cup
             DetectTransitiveQuorumSetChangedEvents(update, previous, current)
  /\ UNCHANGED <<update, measurementVars>>

Next == CreateMeasurements \/ CompleteUpdate \/ UpdateFails \/ Detect

Spec == Init /\ [][Next]_vars
-----------------------------------------------------------------------------
(* Properties. *)

Completed(low, high) == {u \in completed : low < u /\ u <= high}
IsTrue(w, u) == [watched |-> w, at |-> u] \in measured

\* An outage is told once: between two events about the same thing there was a
\* completed update that measured it as good, however many updates failed.
OncePerOutage ==
  \A e, f \in updatesEvents : e.watched = f.watched /\ e.at < f.at =>
    \E u \in Completed(e.at, f.at) : u < f.at /\ IsTrue(e.watched, u)

\* An outage is told: when x completed updates have passed since the last good
\* measurement, failed updates in between notwithstanding, the event exists if
\* the x-th of them was looked at.
OutageTold ==
  \A w \in Watched, u \in completed, v \in detected :
    /\ IsTrue(w, u) /\ \A t \in Completed(u, v) : ~IsTrue(w, t)
    /\ Cardinality(Completed(u, v)) = NumberOfUpdates
    => [watched |-> w, at |-> v] \in updatesEvents

\* What is told of a size at or below a threshold.
Dangers ==
  {[size |-> "blocking", threshold |-> 0, told |-> {"NetworkLossOfLiveness"}],
   [size |-> "blocking", threshold |-> 3,
    told |-> {"NetworkLossOfLiveness", "NetworkNodeLivenessRisk"}],
   [size |-> "orgBlocking", threshold |-> 1,
    told |-> {"NetworkLossOfLiveness", "NetworkOrganizationLivenessRisk"}],
   [size |-> "splitting", threshold |-> 0, told |-> {"NetworkLossOfSafety"}],
   [size |-> "splitting", threshold |-> 1,
    told |-> {"NetworkLossOfSafety", "NetworkNodeSafetyRisk"}],
   [size |-> "orgSplitting", threshold |-> 1,
    told |-> {"NetworkLossOfSafety", "NetworkOrganizationSafetyRisk"}]}

\* A network in danger is known to be: if it was out of danger at a completed
\* update, and every completed update since then was looked at, then the risk
\* or the loss has been told since.
DangerKnown ==
  \A d \in Dangers, u \in completed, v \in detected :
    /\ u < v /\ Completed(u, v) \subseteq detected
    /\ analyses[u][d.size] > d.threshold /\ analyses[v][d.size] <= d.threshold
    => \E e \in networkEvents : e.type \in d.told /\ u < e.at /\ e.at <= v

\* Whoever applies the changes told knows the transitive quorum set: a change is
\* missing only if a completed update was not looked at.
QuorumSetKnown ==
  \A u \in completed, v \in detected :
    /\ u < v /\ Completed(u, v) \subseteq detected
    /\ analyses[u].quorumSet # analyses[v].quorumSet
    => \E c \in quorumSetChanges : u < c.at /\ c.at <= v /\ c.to = analyses[v].quorumSet
=================================================================================

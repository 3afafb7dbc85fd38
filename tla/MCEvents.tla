-------------------------------- MODULE MCEvents --------------------------------
(* A small instance of Events for TLC. *)
EXTENDS Events

Analyzed(blocking, orgBlocking, splitting, orgSplitting, quorumSet) ==
  [blocking |-> blocking, orgBlocking |-> orgBlocking, splitting |-> splitting,
   orgSplitting |-> orgSplitting, quorumSet |-> quorumSet]

\* A sound network, nodes at risk, organizations at risk, and a network that
\* has lost safety and liveness.
SmallAnalysis ==
  {Analyzed(4, 2, 2, 2, "small"), Analyzed(3, 2, 1, 2, "small"),
   Analyzed(4, 1, 2, 1, "large"), Analyzed(0, 0, 0, 0, "large")}
=================================================================================

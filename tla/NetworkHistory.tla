---------------------------- MODULE NetworkHistory ----------------------------
(***************************************************************************)
(* What the saved updates promise to a reader of the network: for the time *)
(* of every completed update, the network as it was then.  Updates are     *)
(* published in the order of time.  While the latest one is being          *)
(* finished, nodes that were not reached may still be retired from it;     *)
(* nothing else that was published ever changes.                           *)
(***************************************************************************)
EXTENDS Integers

CONSTANTS
  Node,         \* public keys
  Shown,        \* what a reader is shown of a node: a record with its id
  Organization, \* what a reader is shown of an organization
  Time          \* the times of updates

Network == [nodes : SUBSET Shown, organizations : SUBSET Organization, reached : SUBSET Node]

VARIABLES
  history,   \* the network at the time of each completed update
  finishing  \* the latest update may still lose nodes

vars == <<history, finishing>>

Latest == CHOOSE t \in DOMAIN history : \A u \in DOMAIN history : u <= t

\* The nodes that were reached are shown.
Complete(N) == \A n \in N.reached : \E s \in N.nodes : s.id = n

Init ==
  /\ finishing = FALSE
  /\ \E t \in Time, N \in Network : Complete(N) /\ history = [u \in {t} |-> N]

\* An update is completed: measured, marked so, and with it visible to readers.
Publish ==
  /\ ~finishing /\ finishing' = TRUE
  /\ \E t \in DOMAIN history' :
       /\ t \in Time /\ \A u \in DOMAIN history : u < t
       /\ history'[t] \in Network /\ Complete(history'[t])
       /\ history' = [u \in DOMAIN history \cup {t} |->
                        IF u = t THEN history'[t] ELSE history[u]]

\* The archiver takes nodes out that were not reached.
Retire ==
  /\ finishing
  /\ \E S \in SUBSET {s \in history[Latest].nodes : s.id \notin history[Latest].reached} :
       history' = [history EXCEPT ![Latest].nodes = @ \ S]
  /\ UNCHANGED finishing

\* The archiver is done, or was cut short.
Finish == finishing /\ finishing' = FALSE /\ UNCHANGED history

Next == Publish \/ Retire \/ Finish

Spec == Init /\ [][Next]_vars
===============================================================================

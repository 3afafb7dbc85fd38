---------------------------- MODULE MCSnapShotter ----------------------------
(* Small instances of SnapShotter for TLC. *)
EXTENDS SnapShotter, TLC

\* Nodes are, and addresses are, interchangeable.
Symmetry == Permutations(Node) \cup Permutations(Address)
===============================================================================

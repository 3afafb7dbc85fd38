---------------------------- MODULE MCOrganizations ----------------------------
(* A small instance of Organizations for TLC. *)
EXTENDS Organizations, TLC

\* The id of an organization is the domain it is made from, so that domains are interchangeable.
Symmetry == Permutations(Node) \cup Permutations(Domain)
================================================================================

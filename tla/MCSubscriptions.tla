---------------------------- MODULE MCSubscriptions ----------------------------
(* Small instances of Subscriptions for TLC. *)
EXTENDS Subscriptions, TLC

Symmetry == Permutations(User) \cup Permutations(Source) \cup Permutations(Slot)
================================================================================

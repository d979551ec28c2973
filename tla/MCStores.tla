------------------------------ MODULE MCStores ------------------------------
(* Two processes at a time and fewer lines than terms.                      *)
EXTENDS Stores, TLC

Symmetry == Permutations(Pids) \cup Permutations(Terms)
=============================================================================

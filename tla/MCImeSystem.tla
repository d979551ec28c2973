---------------------------- MODULE MCImeSystem ----------------------------
(* Instances of ImeSystem for TLC.                                          *)
EXTENDS ImeSystem

\* Fields are interchangeable, and so are engine objects.
Symmetry == Permutations(Contexts) \cup Permutations(Engines)
=============================================================================

------------------------------- MODULE MCMute -------------------------------
(* Instances of Mute for TLC.                                               *)
EXTENDS Mute, TLC

\* Two sinks are interchangeable.
Symmetry == Permutations(Sinks)
=============================================================================

-------------------------- MODULE MCRealtimeSession --------------------------
(* Instances of RealtimeSession for TLC.                                    *)
EXTENDS RealtimeSession

\* Shorter than, equal to and longer than a segment of two bytes.
Sizes == {1, 2, 3}
=============================================================================

--------------------------- MODULE MCTranscription ---------------------------
(* Samples of four bits: the smallest, a loud negative one, a quiet one, a   *)
(* loud one.                                                                *)
EXTENDS Transcription

MCSmallest == -8
MCLevels == {-8, -3, 1, 3}
=============================================================================

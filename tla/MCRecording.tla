---------------------------- MODULE MCRecording ----------------------------
(* Instances of Recording for TLC.                                          *)
EXTENDS Recording

BatchMode == {"Batch"}
RealtimeMode == {"Realtime"}
AllModes == {"Batch", "Realtime"}
AllDeliveries == {"Live", "Ime", "Deferred"}
LiveOnly == {"Live"}
=============================================================================

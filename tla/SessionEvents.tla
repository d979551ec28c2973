---------------------------- MODULE SessionEvents ----------------------------
(***************************************************************************)
(* What a realtime session (src/src/realtime.rs) promises its reader: a     *)
(* stream of transcript events, an Error at most once and then nothing but  *)
(* Completed, which ends every stream.  Recording reads such a stream.      *)
(***************************************************************************)
EXTENDS Sequences

VARIABLE events

TextEvents == {"partial", "committed"}
Ended == events # << >> /\ events[Len(events)] = "Completed"

Init == events = << >>

Text ==
    /\ ~Ended
    /\ \E e \in TextEvents : events' = Append(events, e)

Complete ==
    /\ ~Ended
    /\ events' = Append(events, "Completed")

Fail ==
    /\ ~Ended
    /\ events' = events \o <<"Error", "Completed">>

Next == Text \/ Complete \/ Fail

Spec == Init /\ [][Next]_events
=============================================================================

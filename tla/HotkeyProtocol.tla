--------------------------- MODULE HotkeyProtocol ---------------------------
(***************************************************************************)
(* What src/src/hotkey.rs promises its consumer: the stream of HotkeyEvents *)
(* is a strict cycle Press, ReleaseStarted, ReleaseCompleted, and a         *)
(* recording belongs to a later chord of the user than the one before it.   *)
(* Abstract specification; Hotkey.tla implements it for one keyboard.       *)
(***************************************************************************)
EXTENDS Naturals, Sequences

CONSTANT Chords   \* numbers of the user's chords

VARIABLE log      \* the events sent so far: records [event, chord]

Init == log = << >>

LastEvent == IF log = << >> THEN "ReleaseCompleted" ELSE log[Len(log)].event
LastChord == IF log = << >> THEN 0 ELSE log[Len(log)].chord

Emit(event, chord) == log' = Append(log, [event |-> event, chord |-> chord])

\* A press starts a cycle, for a chord no earlier event belonged to.
Press ==
    /\ LastEvent = "ReleaseCompleted"
    /\ \E chord \in Chords : chord > LastChord /\ Emit("Press", chord)

\* The release of the chord that started the cycle.
ReleaseStarted ==
    /\ LastEvent = "Press"
    /\ Emit("ReleaseStarted", LastChord)

\* Nothing of that release is left on the keyboard.
ReleaseCompleted ==
    /\ LastEvent = "ReleaseStarted"
    /\ Emit("ReleaseCompleted", LastChord)

Next == Press \/ ReleaseStarted \/ ReleaseCompleted

Spec == Init /\ [][Next]_log
=============================================================================

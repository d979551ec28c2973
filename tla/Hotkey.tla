------------------------------- MODULE Hotkey -------------------------------
(***************************************************************************)
(* src/src/hotkey.rs: the path of a key from the user's hand to the         *)
(* HotkeyEvent channel.                                                     *)
(*                                                                          *)
(*   user / keyd --> kernel buffer of each device --> reader thread         *)
(*        --> raw channel --> HotkeyState --> HotkeyEvent channel --> main  *)
(*                                                                          *)
(* keyd maps Alt+Space to F24 and takes Alt away while F24 is down; if      *)
(* Space is released first it gives Alt back right after F24-up.  Other     *)
(* devices may mirror the F24 transitions, later than keyd's own device.    *)
(* Time is discrete: the two durations are counted down by Tick.  Each      *)
(* chord of the user has a number, carried along as a history value.        *)
(*                                                                          *)
(* A definition marked faulty stands beside the one it is a variant of; it   *)
(* is used by no specification, only to see a property fail.                *)
(***************************************************************************)
EXTENDS Naturals, Sequences

CONSTANTS
    Devices,     \* devices with KEY_F24
    Keyd,        \* the one named "keyd virtual keyboard"
    Lag,         \* ticks an event may wait in a device's buffer for its reader
    Cooldown,    \* COOLDOWN_DURATION in ticks
    Settle,      \* ALT_RESTORE_SETTLE_DURATION in ticks
    RawCap,      \* capacity of the raw channel (128)
    ChanCap,     \* capacity of the HotkeyEvent channel (32)
    MaxChords,   \* bound: chords the user plays
    MaxPending,  \* bound: transitions a device's buffer may hold when the user acts
    MaxUnplugs   \* bound: devices that disappear

ASSUME HotkeyAssumption ==
    /\ Keyd \in Devices
    /\ Lag \in [Devices -> Nat]
    /\ Cooldown \in Nat
    /\ Settle \in Nat
    /\ RawCap \in Nat \ {0}
    /\ ChanCap \in Nat \ {0}
    /\ MaxChords \in Nat
    /\ MaxPending \in Nat
    /\ MaxUnplugs \in Nat

VARIABLES
    physAlt,         \* the user's finger is on Alt
    f24,             \* keyd holds F24 down (Space is held with Alt)
    keydAlt,         \* keyd's output holds LeftAlt
    restoredBy,      \* chord whose release gave keydAlt back, 0 if none did
    chords,          \* chords played so far
    monitored,       \* devices that have a reader thread
    unplugs,
    pending,         \* per device: transitions its reader has not read yet
    raw,             \* raw channel
    f24_pressed, recording, cooldown, release_phase, deadline,  \* HotkeyState
    sending,         \* event the state machine is in tx.send(..).await with
    chan,            \* HotkeyEvent channel
    log              \* history: every HotkeyEvent produced, with its chord

userVars == <<physAlt, f24, keydAlt, restoredBy, chords>>
deviceVars == <<monitored, unplugs, pending>>
stateVars == <<f24_pressed, recording, cooldown, release_phase, deadline>>
outVars == <<sending, chan, log>>
vars == <<userVars, deviceVars, raw, stateVars, outVars>>

Keys == {"F24Down", "F24Up", "KeydLeftAltDown", "KeydLeftAltUp"}
HotkeyEvents == {"Press", "ReleaseStarted", "ReleaseCompleted"}
NoEvent == "none"
NoKey == "none"

Init ==
    /\ physAlt = FALSE /\ f24 = FALSE /\ keydAlt = FALSE
    /\ restoredBy = 0 /\ chords = 0
    /\ monitored = [d \in Devices |-> TRUE]
    /\ unplugs = 0
    /\ pending = [d \in Devices |-> << >>]
    /\ raw = << >>
    /\ f24_pressed = FALSE /\ recording = FALSE
    /\ cooldown = 0
    /\ release_phase = "Idle" /\ deadline = 0
    /\ sending = NoEvent
    /\ chan = << >>
    /\ log = << >>

-----------------------------------------------------------------------------
(* The user's hand, as keyd turns it into output transitions.               *)

\* Only keyd's own device may report Alt; every device reports F24.
raw_event(d, key) == key \in {"F24Down", "F24Up"} \/ d = Keyd

\* The buffer of d with what its reader will care about of a transition of `key`.
Buffered(buffer, d, key, chord) ==
    IF key # NoKey /\ raw_event(d, key)
    THEN Append(buffer, [key |-> key, chord |-> chord, age |-> 0])
    ELSE buffer

\* keyd outputs `first` and then `second`.
Output(first, second, chord) ==
    /\ \A d \in Devices : Len(pending[d]) <= MaxPending
    /\ pending' = [d \in Devices |->
        IF monitored[d]
        THEN Buffered(Buffered(pending[d], d, first, chord), d, second, chord)
        ELSE << >>]

PressAlt ==
    /\ ~physAlt
    /\ physAlt' = TRUE
    /\ keydAlt' = TRUE
    /\ Output("KeydLeftAltDown", NoKey, chords)
    /\ UNCHANGED <<f24, restoredBy, chords, monitored, unplugs, raw, stateVars, outVars>>

\* Space with Alt held: keyd takes Alt away and holds F24.
PressSpace ==
    /\ physAlt /\ ~f24 /\ chords < MaxChords
    /\ f24' = TRUE
    /\ chords' = chords + 1
    /\ keydAlt' = FALSE
    /\ restoredBy' = 0
    /\ Output(IF keydAlt THEN "KeydLeftAltUp" ELSE NoKey, "F24Down", chords + 1)
    /\ UNCHANGED <<physAlt, monitored, unplugs, raw, stateVars, outVars>>

\* F24-up, and LeftAlt given back at once if Alt is still held.
ReleaseSpace ==
    /\ f24
    /\ f24' = FALSE
    /\ keydAlt' = physAlt
    /\ restoredBy' = IF physAlt THEN chords ELSE 0
    /\ Output("F24Up", IF physAlt THEN "KeydLeftAltDown" ELSE NoKey, chords)
    /\ UNCHANGED <<physAlt, chords, monitored, unplugs, raw, stateVars, outVars>>

ReleaseAlt ==
    /\ physAlt
    /\ physAlt' = FALSE
    /\ keydAlt' = FALSE
    /\ restoredBy' = 0
    /\ Output(IF keydAlt THEN "KeydLeftAltUp" ELSE NoKey, NoKey, chords)
    /\ UNCHANGED <<f24, chords, monitored, unplugs, raw, stateVars, outVars>>

User == PressAlt \/ PressSpace \/ ReleaseSpace \/ ReleaseAlt

-----------------------------------------------------------------------------
(* Device readers and the device manager.                                   *)

\* One transition from the kernel buffer into the raw channel; a full channel
\* blocks the reader (blocking_send).
read_keyboard_events(d) ==
    /\ monitored[d] /\ pending[d] # << >>
    /\ Len(raw) < RawCap
    /\ raw' = Append(raw, [key |-> Head(pending[d]).key, chord |-> Head(pending[d]).chord])
    /\ pending' = [pending EXCEPT ![d] = Tail(@)]
    /\ UNCHANGED <<userVars, monitored, unplugs, stateVars, outVars>>

\* The device disappears: its reader returns and what it had not read is lost.
\* With keyd's own device the keys keyd held are released too.
Unplug(d) ==
    /\ monitored[d] /\ unplugs < MaxUnplugs
    /\ unplugs' = unplugs + 1
    /\ monitored' = [monitored EXCEPT ![d] = FALSE]
    /\ pending' = [pending EXCEPT ![d] = << >>]
    /\ IF d = Keyd
       THEN f24' = FALSE /\ keydAlt' = FALSE /\ restoredBy' = 0
       ELSE UNCHANGED <<f24, keydAlt, restoredBy>>
    /\ UNCHANGED <<physAlt, chords, raw, stateVars, outVars>>

\* The manager finds the device again and starts a reader for it.
Rescan(d) ==
    /\ ~monitored[d]
    /\ monitored' = [monitored EXCEPT ![d] = TRUE]
    /\ UNCHANGED <<userVars, unplugs, pending, raw, stateVars, outVars>>

-----------------------------------------------------------------------------
(* HotkeyState and the loop around it.                                      *)

\* The loop body produced `event`: it is sent before the next iteration.
Produce(event, chord) ==
    /\ sending' = event
    /\ log' = Append(log, [event |-> event, chord |-> chord])
    /\ UNCHANGED chan

\* A repeated, mirrored or too early F24-down starts nothing.
IgnoresF24Down_NoCooldown == f24_pressed \/ recording       \* faulty
IgnoresF24Down == f24_pressed \/ recording \/ cooldown > 0

ProcessF24Down(chord) ==
    /\ f24_pressed' = TRUE
    /\ IF IgnoresF24Down
       THEN UNCHANGED <<recording, cooldown, outVars>>
       ELSE /\ recording' = TRUE
            /\ cooldown' = 0
            /\ Produce("Press", chord)
    /\ UNCHANGED <<release_phase, deadline>>

ForgetKey_WhenRecording == f24_pressed' = (f24_pressed /\ ~recording)   \* faulty
ForgetKey == f24_pressed' = FALSE

ProcessF24Up(chord) ==
    /\ ForgetKey
    /\ IF f24_pressed /\ recording
       THEN /\ recording' = FALSE
            /\ cooldown' = Cooldown
            /\ release_phase' = "Settling"
            /\ deadline' = Settle
            /\ Produce("ReleaseStarted", chord)
       ELSE UNCHANGED <<recording, cooldown, release_phase, deadline, outVars>>

ProcessAltDown_Ignored == UNCHANGED <<stateVars, outVars>>     \* faulty

ProcessAltDown ==
    /\ release_phase' = IF release_phase = "Settling" THEN "WaitingForAltUp" ELSE release_phase
    /\ deadline' = IF release_phase = "Settling" THEN 0 ELSE deadline
    /\ UNCHANGED <<f24_pressed, recording, cooldown, outVars>>

EndRelease_Kept == UNCHANGED release_phase                  \* faulty
EndRelease == release_phase' = "Idle"

ProcessAltUp(chord) ==
    /\ IF release_phase = "WaitingForAltUp"
       THEN EndRelease /\ Produce("ReleaseCompleted", chord)
       ELSE UNCHANGED <<release_phase, outVars>>
    /\ UNCHANGED <<f24_pressed, recording, cooldown, deadline>>

\* The recording the release phase belongs to.
ReleasedChord == log[Len(log)].chord

process(event) ==
    CASE event.key = "F24Down"         -> ProcessF24Down(event.chord)
      [] event.key = "F24Up"           -> ProcessF24Up(event.chord)
      [] event.key = "KeydLeftAltDown" -> ProcessAltDown
      [] event.key = "KeydLeftAltUp"   -> ProcessAltUp(ReleasedChord)

\* raw_rx.recv() has an event; it wins over an expired settle timer (biased).
Receive ==
    /\ sending = NoEvent /\ raw # << >>
    /\ raw' = Tail(raw)
    /\ process(Head(raw))
    /\ UNCHANGED <<userVars, deviceVars>>

SettleDue_Never == FALSE                                    \* faulty
SettleDue == release_phase = "Settling" /\ deadline = 0

\* The settle timer fires: no restored Alt was seen.
settle ==
    /\ sending = NoEvent /\ raw = << >> /\ SettleDue
    /\ EndRelease
    /\ Produce("ReleaseCompleted", ReleasedChord)
    /\ UNCHANGED <<userVars, deviceVars, raw, f24_pressed, recording, cooldown, deadline>>

\* tx.send(event).await finds room in the channel.
Send ==
    /\ sending # NoEvent /\ Len(chan) < ChanCap
    /\ chan' = Append(chan, sending)
    /\ sending' = NoEvent
    /\ UNCHANGED <<userVars, deviceVars, raw, stateVars, log>>

\* main.rs takes the next event.
Recv ==
    /\ chan # << >>
    /\ chan' = Tail(chan)
    /\ UNCHANGED <<userVars, deviceVars, raw, stateVars, sending, log>>

-----------------------------------------------------------------------------
Down(n) == IF n = 0 THEN 0 ELSE n - 1

\* The state machine is between two polls, with nothing it could do now.
Parked ==
    \/ sending = NoEvent /\ raw = << >> /\ ~SettleDue
    \/ sending # NoEvent /\ Len(chan) = ChanCap

TimersRunning == cooldown > 0 \/ deadline > 0 \/ \E d \in Devices : pending[d] # << >>

\* Time passes only while the state machine waits, and never leaves a
\* transition unread for more than the lag of its device.
Tick ==
    /\ Parked /\ TimersRunning
    /\ \A d \in Devices : \A i \in DOMAIN pending[d] : pending[d][i].age < Lag[d]
    /\ cooldown' = Down(cooldown)
    /\ deadline' = Down(deadline)
    /\ pending' = [d \in Devices |->
                     [i \in DOMAIN pending[d] |-> [pending[d][i] EXCEPT !.age = @ + 1]]]
    /\ UNCHANGED <<userVars, monitored, unplugs, raw, f24_pressed, recording, release_phase, outVars>>

Machine == Receive \/ settle \/ Send \/ Recv

Next ==
    \/ User
    \/ \E d \in Devices : read_keyboard_events(d) \/ Unplug(d) \/ Rescan(d)
    \/ Machine
    \/ Tick

Spec == Init /\ [][Next]_vars

(* Threads run: the readers poll, the state machine and the main loop are   *)
(* scheduled, time passes.  The user owes nothing, and devices may stay away. *)
Fairness ==
    /\ \A d \in Devices : SF_vars(read_keyboard_events(d))
    /\ WF_vars(Receive) /\ WF_vars(settle) /\ WF_vars(Send) /\ WF_vars(Recv)
    /\ WF_vars(Tick)

FairSpec == Spec /\ Fairness

-----------------------------------------------------------------------------
(* Properties.                                                              *)

Key == [key : Keys, chord : Nat]
TimedKey == [key : Keys, chord : Nat, age : Nat]

\* Every variable keeps the values the code's types give it.
TypeOK ==
    /\ physAlt \in BOOLEAN /\ f24 \in BOOLEAN /\ keydAlt \in BOOLEAN
    /\ restoredBy \in Nat /\ chords \in Nat
    /\ monitored \in [Devices -> BOOLEAN] /\ unplugs \in Nat
    /\ pending \in [Devices -> Seq(TimedKey)]
    /\ raw \in Seq(Key)
    /\ f24_pressed \in BOOLEAN /\ recording \in BOOLEAN
    /\ cooldown \in 0 .. Cooldown /\ deadline \in 0 .. Settle
    /\ release_phase \in {"Idle", "Settling", "WaitingForAltUp"}
    /\ sending \in HotkeyEvents \cup {NoEvent}
    /\ chan \in Seq(HotkeyEvents) /\ Len(chan) <= ChanCap
    /\ log \in Seq([event : HotkeyEvents, chord : Nat])

\* With one keyboard, the events main.rs sees are the strict cycle its
\* handlers count on (Press, ReleaseStarted, ReleaseCompleted of one chord):
\* no press during a release, no release reported twice.
Protocol == INSTANCE HotkeyProtocol WITH Chords <- 1 .. MaxChords
ImplementsProtocol == Protocol!Spec

Produced(event) == log' # log /\ log'[Len(log')].event = event

\* "ReleaseCompleted means keyd is no longer holding a restored LeftAlt":
\* when it is produced, the Alt given back at the end of that very recording
\* is up again, however late the loop runs, if keyd's reader is faster than the
\* settle interval.
RestoredAltCleared ==
    [][Produced("ReleaseCompleted") => restoredBy # log'[Len(log')].chord]_vars

\* A mirrored F24 sequence never starts a recording of its own: every Press
\* is for a chord that had none before.
NoPhantomPress ==
    [][Produced("Press") =>
        \A i \in DOMAIN log : log[i].event = "Press" => log[i].chord < log'[Len(log')].chord]_vars

InFlight == raw # << >> \/ sending # NoEvent \/ \E d \in Devices : pending[d] # << >>

\* Once nothing is in flight, and unless a device went away with transitions
\* unread, the state machine's view is the keyboard's: the key is down for it
\* iff keyd holds F24, it records only then, and it waits for Alt only while
\* keyd holds Alt.
ViewCatchesUp ==
    ~InFlight /\ unplugs = 0 =>
        /\ f24_pressed = f24
        /\ recording => f24
        /\ release_phase = "WaitingForAltUp" => keydAlt

\* A release that started completes, provided the user does not hold Alt for
\* ever: no order of timer, restored Alt and keys of mirrors, which may go and
\* come back, loses it.  When keyd's own device goes, the end of the restored Alt
\* may go with it, and WaitingForAltUp lasts until the next chord.
ReleaseCompletes ==
    []monitored[Keyd] /\ []<>~keydAlt =>
        (release_phase # "Idle" ~> release_phase = "Idle")
=============================================================================

----------------------------- MODULE HotkeyProofs -----------------------------
(***************************************************************************)
(* Proofs about Hotkey, for any devices, delays, channel sizes and any      *)
(* number of chords: the state machine's view catches up with the keyboard, *)
(* a mirrored sequence starts no recording, the stream of events is the     *)
(* cycle of HotkeyProtocol, and a release is reported only when the Alt it  *)
(* gave back is up again.                                                   *)
(***************************************************************************)
EXTENDS Hotkey, SequenceTheorems, WellFoundedInduction, TLAPS

F24Keys == {"F24Down", "F24Up"}
AltKeys == {"KeydLeftAltDown", "KeydLeftAltUp"}

\* No transition of `keys` is in s; i is the place of the first, of the last one
\* in s; i and j are places of two of them without another in between.
Without(s, keys) == \A i \in DOMAIN s : s[i].key \notin keys
First(s, keys, i) == s[i].key \in keys /\ \A k \in 1 .. i - 1 : s[k].key \notin keys
Last(s, keys, i) == s[i].key \in keys /\ \A k \in i + 1 .. Len(s) : s[k].key \notin keys
Adjacent(s, keys, i, j) ==
    /\ i < j /\ s[i].key \in keys /\ s[j].key \in keys
    /\ \A k \in i + 1 .. j - 1 : s[k].key \notin keys

\* The last transition of `keys` in s, if there is one, is `last`.
Leaves(s, keys, last) == \A i \in DOMAIN s : Last(s, keys, i) => s[i].key = last

-----------------------------------------------------------------------------
(* The view.                                                                *)

\* What is on its way from a keyboard that never disappeared ends in the state
\* the keyboard is in; the same for F24 on all devices and Alt on keyd's.
F24Key == IF f24 THEN "F24Down" ELSE "F24Up"
AltKey == IF keydAlt THEN "KeydLeftAltDown" ELSE "KeydLeftAltUp"

F24View ==
    /\ \A d \in Devices : Leaves(pending[d], F24Keys, F24Key)
    /\ (\A d \in Devices : Without(pending[d], F24Keys)) =>
        /\ Leaves(raw, F24Keys, F24Key)
        /\ Without(raw, F24Keys) => (f24_pressed <=> f24)

AltView ==
    /\ Leaves(pending[Keyd], AltKeys, AltKey)
    /\ Without(pending[Keyd], AltKeys) =>
        /\ Leaves(raw, AltKeys, AltKey)
        /\ Without(raw, AltKeys) /\ release_phase = "WaitingForAltUp" => keydAlt

OnlyKeydAlt == \A d \in Devices \ {Keyd} : Without(pending[d], AltKeys)

ViewInv ==
    /\ recording => f24_pressed
    /\ keydAlt => physAlt
    /\ OnlyKeydAlt
    /\ unplugs = 0 => (\A d \in Devices : monitored[d]) /\ F24View /\ AltView

-----------------------------------------------------------------------------
(* Mirrored sequences.                                                      *)

\* A recording of this chord has been started, or of a later one.
Stale(s, chord) == \E i \in DOMAIN s : s[i].event = "Press" /\ chord <= s[i].chord

\* A stale F24-down finds the state machine recording or cooling down: the
\* longer it waits at its device, the less of the cooldown has to be left.
StaleInv ==
    /\ \A d \in Devices : \A i \in DOMAIN pending[d] :
        /\ pending[d][i].age <= Lag[d] /\ pending[d][i].chord <= chords
        /\ pending[d][i].key = "F24Down" /\ Stale(log, pending[d][i].chord) =>
            recording \/ cooldown + pending[d][i].age >= Cooldown
    /\ \A i \in DOMAIN raw :
        /\ raw[i].chord <= chords
        /\ raw[i].key = "F24Down" /\ Stale(log, raw[i].chord) => recording \/ cooldown > 0
    /\ \A i \in DOMAIN log : log[i].chord <= chords
    /\ release_phase # "Idle" => log # << >>

\* Every reader is faster than the cooldown.
QuickMirrors == \A d \in Devices : Lag[d] < Cooldown

\* The main task keeps up with the events.
Roomy == Len(chan) < ChanCap

-----------------------------------------------------------------------------
(* One keyboard.                                                            *)

OneDevice == Devices = {Keyd} /\ MaxUnplugs = 0

\* Everything between the keyboard and the state machine.
Flow(r, p) == [i \in 1 .. Len(r) + Len(p) |->
                 IF i <= Len(r) THEN r[i]
                 ELSE [key |-> p[i - Len(r)].key, chord |-> p[i - Len(r)].chord]]
Stream == Flow(raw, pending[Keyd])

LastEvent == IF log = << >> THEN "ReleaseCompleted" ELSE log[Len(log)].event
LastChord == IF log = << >> THEN 0 ELSE log[Len(log)].chord

\* What the state machine is at shows in the last event.
PhaseInv ==
    /\ release_phase # "Idle" => LastEvent = "ReleaseStarted"
    /\ recording => LastEvent = "Press"
    /\ release_phase = "Idle" /\ ~recording => LastEvent = "ReleaseCompleted"
    /\ recording => f24_pressed

\* keyd takes Alt away before F24-down, so that every F24-down comes right after
\* AltDown, AltUp, and a release is over when it is processed.
AltFirst(s) ==
    \A i \in DOMAIN s : s[i].key = "F24Down" =>
        /\ i >= 2 => s[i - 1].key = "KeydLeftAltUp"
        /\ i >= 3 => s[i - 2].key = "KeydLeftAltDown"

ReleaseOver(s) ==
    /\ Len(s) >= 1 /\ s[1].key = "F24Down" => release_phase = "Idle"
    /\ Len(s) >= 2 /\ s[2].key = "F24Down" => release_phase # "Settling"

AltInv(s) ==
    /\ AltFirst(s) /\ ReleaseOver(s)
    /\ ~f24 => keydAlt = physAlt
    /\ keydAlt /\ ~f24 =>
        IF s = << >> THEN release_phase # "Settling" ELSE s[Len(s)].key = "KeydLeftAltDown"

\* The F24 transitions of a keyboard: down and up of one chord, then of the next.
Follows(a, b) ==
    \/ a.key = "F24Down" /\ b.key = "F24Up" /\ b.chord = a.chord
    \/ a.key = "F24Up" /\ b.key = "F24Down" /\ b.chord = a.chord + 1

Alternate(s) == \A i, j \in DOMAIN s : Adjacent(s, F24Keys, i, j) => Follows(s[i], s[j])

\* The next one fits the state machine, whose last recording was of this chord
\* if it records or of an earlier one ...
Fits(key, chord) ==
    /\ key = "F24Up" <=> f24_pressed
    /\ IF recording THEN LastChord = chord ELSE LastChord < chord

\* ... and the one the keyboard has next fits the last one.
NextF24 == [key |-> IF f24 THEN "F24Up" ELSE "F24Down", chord |-> IF f24 THEN chords ELSE chords + 1]

ChordInv(s) ==
    /\ Alternate(s)
    /\ \A i \in DOMAIN s : First(s, F24Keys, i) => Fits(s[i].key, s[i].chord)
    /\ \A i \in DOMAIN s : Last(s, F24Keys, i) => Follows(s[i], NextF24)
    /\ Without(s, F24Keys) => Fits(NextF24.key, NextF24.chord)
    /\ \A i \in DOMAIN s : s[i].key \in F24Keys => s[i].chord \in 1 .. chords
    /\ chords <= MaxChords /\ (f24 => chords # 0)

CycleInv == monitored[Keyd] /\ PhaseInv /\ AltInv(Stream) /\ ChordInv(Stream)

-----------------------------------------------------------------------------
(* The restored Alt.                                                        *)

\* The reader is faster than the settle interval.
QuickReader == Lag[Keyd] < Settle

\* Where the Alt that was given back with the last F24-up is: behind it, or at
\* the reader with the settle timer running, in the channel, or processed.
RestoredInv(s) ==
    restoredBy # 0 =>
        /\ restoredBy = chords /\ ~f24 /\ keydAlt /\ physAlt
        /\ Len(s) >= 1 => s[Len(s)].key = "KeydLeftAltDown"
        /\ Len(s) >= 2 => s[Len(s) - 1].key = "F24Up"
        /\ LastChord = chords =>
            /\ Len(s) = 1 => /\ release_phase = "Settling"
                             /\ raw = << >> => deadline + pending[Keyd][1].age >= Settle
            /\ Len(s) = 0 => release_phase = "WaitingForAltUp"

\* A recording is of a chord that was played.
Played == log # << >> => LastChord # 0

AgeInv == \A i \in DOMAIN pending[Keyd] : pending[Keyd][i].age <= Lag[Keyd]

-----------------------------------------------------------------------------
(* Types.                                                                   *)

\* What a device buffers of a transition is that transition, or nothing.
LEMMA BufferedType ==
  ASSUME NEW buffer \in Seq(TimedKey), NEW d, NEW key \in Keys \cup {NoKey}, NEW chord \in Nat
  PROVE  Buffered(buffer, d, key, chord) \in Seq(TimedKey)
  <1>1. key # NoKey => [key |-> key, chord |-> chord, age |-> 0] \in TimedKey
    BY DEF TimedKey
  <1> QED
    BY <1>1 DEF Buffered

LEMMA OutputType ==
  ASSUME TypeOK, NEW first \in Keys \cup {NoKey}, NEW second \in Keys \cup {NoKey},
         NEW chord \in Nat, Output(first, second, chord)
  PROVE  pending' \in [Devices -> Seq(TimedKey)]
  <1>1. ASSUME NEW d \in Devices
        PROVE  Buffered(Buffered(pending[d], d, first, chord), d, second, chord) \in Seq(TimedKey)
    BY BufferedType DEF TypeOK
  <1>2. << >> \in Seq(TimedKey)
    OBVIOUS
  <1> QED
    BY <1>1, <1>2 DEF Output

LEMMA UserType == TypeOK /\ User => TypeOK'
  <1> SUFFICES ASSUME TypeOK, User
               PROVE  TypeOK'
    OBVIOUS
  <1>1. pending' \in [Devices -> Seq(TimedKey)] /\ chords' \in Nat /\ restoredBy' \in Nat
    <2>1. CASE PressAlt
      BY <2>1, OutputType DEF PressAlt, Keys, TypeOK
    <2>2. CASE PressSpace
      <3>1. chords + 1 \in Nat
        BY DEF TypeOK
      <3> QED
        BY <2>2, <3>1, OutputType DEF PressSpace, Keys, TypeOK
    <2>3. CASE ReleaseSpace
      BY <2>3, OutputType DEF ReleaseSpace, Keys, TypeOK
    <2>4. CASE ReleaseAlt
      BY <2>4, OutputType DEF ReleaseAlt, Keys, TypeOK
    <2> QED
      BY <2>1, <2>2, <2>3, <2>4 DEF User
  <1>2. /\ physAlt' \in BOOLEAN /\ f24' \in BOOLEAN /\ keydAlt' \in BOOLEAN
        /\ UNCHANGED <<monitored, unplugs, raw, stateVars, outVars>>
    BY DEF User, PressAlt, PressSpace, ReleaseSpace, ReleaseAlt, TypeOK
  <1> QED
    BY <1>1, <1>2 DEF TypeOK, stateVars, outVars

LEMMA DevicesType ==
  ASSUME TypeOK, NEW d \in Devices, read_keyboard_events(d) \/ Unplug(d) \/ Rescan(d)
  PROVE  TypeOK'
  <1>1. CASE read_keyboard_events(d)
    <2>1. pending[d] \in Seq(TimedKey) /\ pending[d] # << >>
      BY <1>1 DEF read_keyboard_events, TypeOK
    <2>2. Head(pending[d]) \in TimedKey /\ Tail(pending[d]) \in Seq(TimedKey)
      BY <2>1
    <2>3. [key |-> Head(pending[d]).key, chord |-> Head(pending[d]).chord] \in Key
      BY <2>2 DEF TimedKey, Key
    <2>4. raw' \in Seq(Key) /\ pending' \in [Devices -> Seq(TimedKey)]
      BY <1>1, <2>2, <2>3 DEF read_keyboard_events, TypeOK
    <2> QED
      BY <1>1, <2>4 DEF read_keyboard_events, TypeOK, userVars, stateVars, outVars
  <1>2. CASE Unplug(d)
    <2>1. << >> \in Seq(TimedKey)
      OBVIOUS
    <2>2. pending' \in [Devices -> Seq(TimedKey)] /\ monitored' \in [Devices -> BOOLEAN]
      BY <1>2, <2>1 DEF Unplug, TypeOK
    <2>3. f24' \in BOOLEAN /\ keydAlt' \in BOOLEAN /\ restoredBy' \in Nat /\ unplugs' \in Nat
      <3>1. CASE d = Keyd
        <4>1. f24' = FALSE /\ keydAlt' = FALSE /\ restoredBy' = 0 /\ unplugs' = unplugs + 1
          BY <1>2, <3>1, Zenon DEF Unplug
        <4>2. unplugs' \in Nat /\ restoredBy' \in Nat
          BY <4>1 DEF TypeOK
        <4>3. f24' \in BOOLEAN /\ keydAlt' \in BOOLEAN
          BY <4>1, Zenon
        <4> QED
          BY <4>2, <4>3
      <3>2. CASE d # Keyd
        BY <1>2, <3>2 DEF Unplug, TypeOK
      <3> QED
        BY <3>1, <3>2
    <2> QED
      BY <1>2, <2>2, <2>3 DEF Unplug, TypeOK, stateVars, outVars
  <1>3. CASE Rescan(d)
    BY <1>3 DEF Rescan, TypeOK, userVars, stateVars, outVars
  <1> QED
    BY <1>1, <1>2, <1>3

LEMMA ProduceType ==
  ASSUME TypeOK, NEW event \in HotkeyEvents, NEW chord \in Nat, Produce(event, chord)
  PROVE  /\ sending' \in HotkeyEvents /\ log' = Append(log, [event |-> event, chord |-> chord])
         /\ log' \in Seq([event : HotkeyEvents, chord : Nat]) /\ chan' = chan
         /\ log' # << >>
  <1>1. log \in Seq([event : HotkeyEvents, chord : Nat])
    BY DEF TypeOK
  <1>2. [event |-> event, chord |-> chord] \in [event : HotkeyEvents, chord : Nat]
    OBVIOUS
  <1> QED
    BY <1>1, <1>2 DEF Produce

\* What Receive does is what HotkeyState::process does with the head of the channel.
LEMMA ReceiveCases ==
  ASSUME TypeOK, Receive
  PROVE  /\ raw # << >> /\ raw' = Tail(raw) /\ raw' \in Seq(Key) /\ Head(raw) \in Key
         /\ Head(raw) = raw[1] /\ sending = NoEvent /\ UNCHANGED <<userVars, deviceVars>>
         /\ \/ raw[1].key = "F24Down" /\ ProcessF24Down(raw[1].chord)
            \/ raw[1].key = "F24Up" /\ ProcessF24Up(raw[1].chord)
            \/ raw[1].key = "KeydLeftAltDown" /\ ProcessAltDown
            \/ raw[1].key = "KeydLeftAltUp" /\ ProcessAltUp(ReleasedChord)
  <1>1. raw \in Seq(Key) /\ raw # << >> /\ raw' = Tail(raw) /\ process(Head(raw))
    BY DEF Receive, TypeOK
  <1>2. Head(raw) \in Key /\ Head(raw) = raw[1] /\ Tail(raw) \in Seq(Key)
    BY <1>1
  <1>3. raw[1].key \in Keys
    BY <1>2 DEF Key
  <1> QED
    BY <1>1, <1>2, <1>3 DEF Receive, process, Keys

LEMMA ReleasedType == TypeOK /\ log # << >> => ReleasedChord \in Nat
  <1> SUFFICES ASSUME log \in Seq([event : HotkeyEvents, chord : Nat]), log # << >>
               PROVE  ReleasedChord \in Nat
    BY DEF TypeOK
  <1>1. log[Len(log)] \in [event : HotkeyEvents, chord : Nat]
    <2>1. Len(log) \in Nat \ {0} /\ log \in [1 .. Len(log) -> [event : HotkeyEvents, chord : Nat]]
      BY LenProperties, EmptySeq
    <2> QED
      BY <2>1
  <1> QED
    BY <1>1 DEF ReleasedChord

\* A release belongs to a recording.
LogInv == release_phase # "Idle" => log # << >>

LEMMA Bounds ==
  /\ 0 \in 0 .. Cooldown /\ Cooldown \in 0 .. Cooldown /\ Settle \in 0 .. Settle
  /\ TypeOK => cooldown \in 0 .. Cooldown /\ deadline \in 0 .. Settle
                /\ release_phase \in {"Idle", "Settling", "WaitingForAltUp"}
  BY HotkeyAssumption DEF TypeOK

LEMMA ReceiveType == TypeOK /\ LogInv /\ Receive => TypeOK' /\ LogInv'
  <1> SUFFICES ASSUME TypeOK, LogInv, Receive
               PROVE  TypeOK' /\ LogInv'
    OBVIOUS
  <1>1. /\ raw' \in Seq(Key) /\ raw[1].chord \in Nat /\ UNCHANGED <<userVars, deviceVars>>
    BY ReceiveCases DEF Key
  <1>2. /\ f24_pressed' \in BOOLEAN /\ recording' \in BOOLEAN
        /\ cooldown' \in 0 .. Cooldown /\ deadline' \in 0 .. Settle
        /\ release_phase' \in {"Idle", "Settling", "WaitingForAltUp"}
        /\ sending' \in HotkeyEvents \cup {NoEvent}
        /\ chan' = chan
        /\ log' \in Seq([event : HotkeyEvents, chord : Nat])
        /\ release_phase' # "Idle" => log' # << >>
    <2>1. CASE ProcessF24Down(raw[1].chord)
      <3>1. CASE IgnoresF24Down
        BY <2>1, <3>1 DEF ProcessF24Down, outVars, TypeOK, LogInv
      <3>2. CASE ~IgnoresF24Down
        <4>1. Produce("Press", raw[1].chord)
          BY <2>1, <3>2 DEF ProcessF24Down
        <4>2. /\ f24_pressed' = TRUE /\ recording' = TRUE /\ cooldown' = 0
              /\ UNCHANGED <<release_phase, deadline>>
          BY <2>1, <3>2 DEF ProcessF24Down
        <4>3. /\ sending' \in HotkeyEvents /\ chan' = chan /\ log' # << >>
              /\ log' \in Seq([event : HotkeyEvents, chord : Nat])
          BY <1>1, <4>1, ProduceType DEF HotkeyEvents
        <4> QED
          BY <4>2, <4>3, Bounds
      <3> QED
        BY <3>1, <3>2
    <2>2. CASE ProcessF24Up(raw[1].chord)
      <3>1. CASE f24_pressed /\ recording
        <4>1. Produce("ReleaseStarted", raw[1].chord)
          BY <2>2, <3>1 DEF ProcessF24Up
        <4>2. /\ f24_pressed' = FALSE /\ recording' = FALSE /\ cooldown' = Cooldown
              /\ release_phase' = "Settling" /\ deadline' = Settle
          BY <2>2, <3>1 DEF ProcessF24Up, ForgetKey
        <4>3. /\ sending' \in HotkeyEvents /\ chan' = chan /\ log' # << >>
              /\ log' \in Seq([event : HotkeyEvents, chord : Nat])
          BY <1>1, <4>1, ProduceType DEF HotkeyEvents
        <4> QED
          BY <4>2, <4>3, Bounds
      <3>2. CASE ~(f24_pressed /\ recording)
        BY <2>2, <3>2 DEF ProcessF24Up, ForgetKey, outVars, TypeOK, LogInv
      <3> QED
        BY <3>1, <3>2
    <2>3. CASE ProcessAltDown
      BY <2>3, HotkeyAssumption DEF ProcessAltDown, outVars, TypeOK, LogInv
    <2>4. CASE ProcessAltUp(ReleasedChord)
      <3>1. CASE release_phase = "WaitingForAltUp"
        <4>1. Produce("ReleaseCompleted", ReleasedChord)
          BY <2>4, <3>1 DEF ProcessAltUp
        <4> QED
          BY <2>4, <3>1, <4>1, ProduceType, ReleasedType
          DEF ProcessAltUp, EndRelease, HotkeyEvents, TypeOK, LogInv
      <3>2. CASE release_phase # "WaitingForAltUp"
        BY <2>4, <3>2 DEF ProcessAltUp, outVars, TypeOK, LogInv
      <3> QED
        BY <3>1, <3>2
    <2> QED
      BY <2>1, <2>2, <2>3, <2>4, ReceiveCases
  <1> QED
    BY <1>1, <1>2 DEF TypeOK, LogInv, userVars, deviceVars

LEMMA SettleType == TypeOK /\ LogInv /\ settle => TypeOK' /\ LogInv'
  <1> SUFFICES ASSUME TypeOK, LogInv, settle
               PROVE  TypeOK' /\ LogInv'
    OBVIOUS
  <1>1. /\ Produce("ReleaseCompleted", ReleasedChord) /\ release_phase' = "Idle"
        /\ UNCHANGED <<userVars, deviceVars, raw, f24_pressed, recording, cooldown, deadline>>
    BY DEF settle, EndRelease
  <1>2. ReleasedChord \in Nat
    BY ReleasedType DEF settle, SettleDue, LogInv
  <1> QED
    BY <1>1, <1>2, ProduceType DEF TypeOK, LogInv, HotkeyEvents, userVars, deviceVars

LEMMA ChannelType == TypeOK /\ LogInv /\ (Send \/ Recv) => TypeOK' /\ LogInv'
  <1>1. TypeOK /\ LogInv /\ Send => TypeOK' /\ LogInv'
    BY HotkeyAssumption DEF Send, TypeOK, LogInv, userVars, deviceVars, stateVars
  <1>2. TypeOK /\ LogInv /\ Recv => TypeOK' /\ LogInv'
    <2> SUFFICES ASSUME TypeOK, LogInv, Recv
                 PROVE  TypeOK' /\ LogInv'
      OBVIOUS
    <2>1. chan \in Seq(HotkeyEvents) /\ chan # << >> /\ chan' = Tail(chan) /\ Len(chan) <= ChanCap
      BY DEF Recv, TypeOK
    <2>2. chan' \in Seq(HotkeyEvents) /\ Len(chan') <= ChanCap
      BY <2>1, HotkeyAssumption
    <2> QED
      BY <2>2 DEF Recv, TypeOK, LogInv, userVars, deviceVars, stateVars
  <1> QED
    BY <1>1, <1>2

\* Time changes nothing but the two timers and the ages.
LEMMA TickCases ==
  ASSUME TypeOK, Tick
  PROVE  /\ UNCHANGED <<userVars, monitored, unplugs, raw, f24_pressed, recording,
                        release_phase, outVars>>
         /\ cooldown' = Down(cooldown) /\ deadline' = Down(deadline)
         /\ cooldown' \in 0 .. Cooldown /\ deadline' \in 0 .. Settle
         /\ pending' \in [Devices -> Seq(TimedKey)]
         /\ \A d \in Devices :
              /\ Len(pending'[d]) = Len(pending[d]) /\ DOMAIN pending'[d] = DOMAIN pending[d]
              /\ \A i \in DOMAIN pending[d] :
                   /\ pending'[d][i].key = pending[d][i].key
                   /\ pending'[d][i].chord = pending[d][i].chord
                   /\ pending'[d][i].age = pending[d][i].age + 1
                   /\ pending[d][i].age < Lag[d]
  <1>1. /\ UNCHANGED <<userVars, monitored, unplugs, raw, f24_pressed, recording,
                       release_phase, outVars>>
        /\ cooldown' = Down(cooldown) /\ deadline' = Down(deadline)
        /\ pending' = [d \in Devices |->
                     [i \in DOMAIN pending[d] |-> [pending[d][i] EXCEPT !.age = @ + 1]]]
        /\ \A d \in Devices : \A i \in DOMAIN pending[d] : pending[d][i].age < Lag[d]
    BY DEF Tick
  <1>2. cooldown' \in 0 .. Cooldown /\ deadline' \in 0 .. Settle
    <2>1. cooldown \in 0 .. Cooldown /\ deadline \in 0 .. Settle
      BY DEF TypeOK
    <2> QED
      BY <1>1, <2>1, HotkeyAssumption DEF Down
  <1>3. ASSUME NEW d \in Devices
        PROVE  /\ pending'[d] \in Seq(TimedKey)
               /\ Len(pending'[d]) = Len(pending[d]) /\ DOMAIN pending'[d] = DOMAIN pending[d]
               /\ \A i \in DOMAIN pending[d] :
                    /\ pending'[d][i].key = pending[d][i].key
                    /\ pending'[d][i].chord = pending[d][i].chord
                    /\ pending'[d][i].age = pending[d][i].age + 1
                    /\ pending[d][i].age < Lag[d]
    <2>1. pending[d] \in Seq(TimedKey)
      BY DEF TypeOK
    <2>2. ASSUME NEW i \in DOMAIN pending[d]
          PROVE  pending[d][i] \in TimedKey
      BY <2>1, <2>2
    <2>3. ASSUME NEW i \in DOMAIN pending[d]
          PROVE  [pending[d][i] EXCEPT !.age = @ + 1] \in TimedKey
      BY <2>2 DEF TimedKey
    <2>4. pending'[d] = [i \in DOMAIN pending[d] |-> [pending[d][i] EXCEPT !.age = @ + 1]]
      BY <1>1
    <2>5. DOMAIN pending[d] = 1 .. Len(pending[d]) /\ Len(pending[d]) \in Nat
      BY <2>1
    <2>6. pending'[d] \in [1 .. Len(pending[d]) -> TimedKey]
      BY <2>3, <2>4, <2>5
    <2>7. pending'[d] \in Seq(TimedKey) /\ Len(pending'[d]) = Len(pending[d])
      BY <2>5, <2>6, IsASeq, LenProperties
    <2>8. \A i \in DOMAIN pending[d] :
             /\ pending'[d][i].key = pending[d][i].key
             /\ pending'[d][i].chord = pending[d][i].chord
             /\ pending'[d][i].age = pending[d][i].age + 1
      BY <2>2, <2>4 DEF TimedKey
    <2> QED
      BY <1>1, <2>4, <2>7, <2>8
  <1>4. pending' \in [Devices -> Seq(TimedKey)]
    BY <1>1, <1>3
  <1> QED
    BY <1>1, <1>2, <1>3, <1>4

\* A full Next step by step: types, and a release has a recording behind it.
LEMMA NextType == TypeOK /\ LogInv /\ [Next]_vars => TypeOK' /\ LogInv'
  <1> SUFFICES ASSUME TypeOK, LogInv, [Next]_vars
               PROVE  TypeOK' /\ LogInv'
    OBVIOUS
  <1>1. CASE User
    BY <1>1, UserType DEF User, PressAlt, PressSpace, ReleaseSpace, ReleaseAlt, LogInv, stateVars, outVars
  <1>2. ASSUME NEW d \in Devices, read_keyboard_events(d) \/ Unplug(d) \/ Rescan(d)
        PROVE  TypeOK' /\ LogInv'
    BY <1>2, DevicesType DEF read_keyboard_events, Unplug, Rescan, LogInv, stateVars, outVars
  <1>3. CASE Machine
    BY <1>3, ReceiveType, SettleType, ChannelType DEF Machine
  <1>4. CASE Tick
    BY <1>4, TickCases DEF TypeOK, LogInv, userVars, outVars
  <1>5. CASE UNCHANGED vars
    BY <1>5 DEF TypeOK, LogInv, vars, userVars, deviceVars, stateVars, outVars
  <1> QED
    BY <1>1, <1>2, <1>3, <1>4, <1>5 DEF Next

LEMMA InitType == Init => TypeOK /\ LogInv
  <1> SUFFICES ASSUME Init
               PROVE  TypeOK /\ LogInv
    OBVIOUS
  <1>1. /\ pending \in [Devices -> Seq(TimedKey)] /\ monitored \in [Devices -> BOOLEAN]
        /\ chan \in Seq(HotkeyEvents) /\ Len(chan) <= ChanCap
        /\ raw \in Seq(Key) /\ log \in Seq([event : HotkeyEvents, chord : Nat])
    BY HotkeyAssumption DEF Init
  <1>2. cooldown \in 0 .. Cooldown /\ deadline \in 0 .. Settle
    BY HotkeyAssumption DEF Init
  <1> QED
    BY <1>1, <1>2 DEF Init, TypeOK, LogInv

\* Every variable keeps the values the code's types give it (hotkey.rs:29-74).
THEOREM TypesKept == Spec => [](TypeOK /\ LogInv)
  BY InitType, NextType, PTL DEF Spec

-----------------------------------------------------------------------------
(* Sequences of transitions.                                                *)

\* One more transition at the end.
LEMMA AppendKeys ==
  ASSUME NEW R, NEW s \in Seq(R), NEW e \in R, NEW keys, NEW last
  PROVE  /\ e.key \notin keys =>
              /\ Without(Append(s, e), keys) <=> Without(s, keys)
              /\ Leaves(s, keys, last) => Leaves(Append(s, e), keys, last)
         /\ e.key \in keys =>
              /\ ~Without(Append(s, e), keys)
              /\ e.key = last => Leaves(Append(s, e), keys, last)
  <1> DEFINE t == Append(s, e)
  <1>1. /\ t \in Seq(R) /\ Len(t) = Len(s) + 1 /\ Len(s) \in Nat
        /\ DOMAIN t = 1 .. Len(s) + 1 /\ DOMAIN s = 1 .. Len(s)
        /\ \A i \in 1 .. Len(s) : t[i] = s[i]
        /\ t[Len(s) + 1] = e
    BY AppendProperties, LenProperties
  <1> HIDE DEF t
  <1>2. e.key \notin keys => (Without(t, keys) <=> Without(s, keys))
    BY <1>1 DEF Without
  <1>3. e.key \notin keys /\ Leaves(s, keys, last) => Leaves(t, keys, last)
    <2> SUFFICES ASSUME e.key \notin keys, Leaves(s, keys, last),
                        NEW i \in DOMAIN t, Last(t, keys, i)
                 PROVE  t[i].key = last
      BY DEF Leaves
    <2>1. i \in 1 .. Len(s)
      BY <1>1 DEF Last
    <2>2. Last(s, keys, i)
      BY <1>1, <2>1 DEF Last
    <2> QED
      BY <1>1, <2>1, <2>2 DEF Leaves
  <1>4. e.key \in keys => ~Without(t, keys)
    BY <1>1 DEF Without
  <1>5. e.key \in keys /\ e.key = last => Leaves(t, keys, last)
    <2> SUFFICES ASSUME e.key \in keys, e.key = last,
                        NEW i \in DOMAIN t, Last(t, keys, i)
                 PROVE  t[i].key = last
      BY DEF Leaves
    <2>1. i = Len(s) + 1
      BY <1>1 DEF Last
    <2> QED
      BY <1>1, <2>1
  <1> QED
    BY <1>2, <1>3, <1>4, <1>5 DEF t

\* The first transition is taken.
LEMMA TailKeys ==
  ASSUME NEW R, NEW s \in Seq(R), s # << >>, NEW keys, NEW last
  PROVE  /\ Leaves(s, keys, last) => Leaves(Tail(s), keys, last)
         /\ s[1].key \notin keys => (Without(Tail(s), keys) <=> Without(s, keys))
         /\ s[1].key \in keys => ~Without(s, keys)
         /\ s[1].key \in keys /\ Without(Tail(s), keys) /\ Leaves(s, keys, last) =>
              s[1].key = last
  <1> DEFINE t == Tail(s)
  <1>1. /\ t \in Seq(R) /\ Len(t) = Len(s) - 1 /\ Len(s) \in Nat \ {0}
        /\ DOMAIN t = 1 .. Len(s) - 1 /\ DOMAIN s = 1 .. Len(s)
        /\ \A i \in 1 .. Len(s) - 1 : t[i] = s[i + 1]
    BY HeadTailProperties, LenProperties, EmptySeq
  <1> HIDE DEF t
  <1>2. ASSUME Leaves(s, keys, last), NEW i \in DOMAIN t, Last(t, keys, i)
        PROVE  t[i].key = last
    <2>1. i + 1 \in DOMAIN s /\ t[i] = s[i + 1]
      BY <1>1
    <2>2. \A k \in i + 2 .. Len(s) : s[k].key \notin keys
      <3> SUFFICES ASSUME NEW k \in i + 2 .. Len(s)
                   PROVE  s[k].key \notin keys
        OBVIOUS
      <3>1. k - 1 \in i + 1 .. Len(t) /\ t[k - 1] = s[k]
        BY <1>1
      <3> QED
        BY <3>1, <1>2 DEF Last
    <2>3. Last(s, keys, i + 1)
      BY <1>1, <1>2, <2>1, <2>2 DEF Last
    <2> QED
      BY <1>2, <2>1, <2>3 DEF Leaves
  <1>3. ASSUME s[1].key \notin keys, Without(t, keys), NEW i \in DOMAIN s
        PROVE  s[i].key \notin keys
    <2>1. CASE i = 1
      BY <1>3, <2>1
    <2>2. CASE i # 1
      <3>1. i - 1 \in DOMAIN t /\ t[i - 1] = s[i]
        BY <1>1, <2>2
      <3> QED
        BY <1>3, <3>1 DEF Without
    <2> QED
      BY <2>1, <2>2
  <1>4. ASSUME Without(s, keys), NEW i \in DOMAIN t
        PROVE  t[i].key \notin keys
    <2>1. i + 1 \in DOMAIN s /\ t[i] = s[i + 1]
      BY <1>1
    <2> QED
      BY <1>4, <2>1 DEF Without
  <1>5. s[1].key \in keys => ~Without(s, keys)
    BY <1>1 DEF Without
  <1>6. ASSUME s[1].key \in keys, Without(t, keys), Leaves(s, keys, last)
        PROVE  s[1].key = last
    <2>1. \A k \in 2 .. Len(s) : s[k].key \notin keys
      <3> SUFFICES ASSUME NEW k \in 2 .. Len(s)
                   PROVE  s[k].key \notin keys
        OBVIOUS
      <3>1. k - 1 \in DOMAIN t /\ t[k - 1] = s[k]
        BY <1>1
      <3> QED
        BY <3>1, <1>6 DEF Without
    <2>2. Last(s, keys, 1)
      BY <1>1, <1>6, <2>1 DEF Last
    <2> QED
      BY <1>1, <1>6, <2>2 DEF Leaves
  <1>7. /\ Leaves(s, keys, last) => Leaves(t, keys, last)
        /\ s[1].key \notin keys => (Without(t, keys) <=> Without(s, keys))
    BY <1>2, <1>3, <1>4 DEF Leaves, Without
  <1> QED
    BY <1>5, <1>6, <1>7 DEF t

\* What keyd outputs, at a device that is read.
LEMMA OutputKeys ==
  ASSUME TypeOK, NEW first \in Keys \cup {NoKey}, NEW second \in Keys \cup {NoKey},
         NEW chord \in Nat, Output(first, second, chord),
         NEW d \in Devices, monitored[d], NEW keys \in SUBSET Keys, NEW last
  PROVE  /\ first \notin keys /\ second \notin keys =>
              /\ Without(pending'[d], keys) <=> Without(pending[d], keys)
              /\ Leaves(pending[d], keys, last) => Leaves(pending'[d], keys, last)
         /\ first \in keys /\ raw_event(d, first) /\ second \notin keys =>
              /\ ~Without(pending'[d], keys)
              /\ first = last => Leaves(pending'[d], keys, last)
         /\ second \in keys /\ raw_event(d, second) =>
              /\ ~Without(pending'[d], keys)
              /\ second = last => Leaves(pending'[d], keys, last)
  <1> DEFINE mid == Buffered(pending[d], d, first, chord)
             end == Buffered(mid, d, second, chord)
  <1>1. ASSUME NEW s \in Seq(TimedKey), NEW key \in Keys \cup {NoKey}
        PROVE  /\ key \notin keys =>
                    /\ Without(Buffered(s, d, key, chord), keys) <=> Without(s, keys)
                    /\ Leaves(s, keys, last) => Leaves(Buffered(s, d, key, chord), keys, last)
               /\ key \in keys /\ raw_event(d, key) =>
                    /\ ~Without(Buffered(s, d, key, chord), keys)
                    /\ key = last => Leaves(Buffered(s, d, key, chord), keys, last)
    <2> DEFINE e == [key |-> key, chord |-> chord, age |-> 0]
    <2>1. e.key = key
      OBVIOUS
    <2>2. CASE key # NoKey /\ raw_event(d, key)
      <3>1. e \in TimedKey
        BY <2>2 DEF TimedKey
      <3>2. Buffered(s, d, key, chord) = Append(s, e)
        BY <2>2 DEF Buffered
      <3> HIDE DEF e
      <3> QED
        BY <2>1, <3>1, <3>2, AppendKeys
    <2>3. CASE ~(key # NoKey /\ raw_event(d, key))
      <3>1. Buffered(s, d, key, chord) = s
        BY <2>3 DEF Buffered
      <3>2. key \in keys => key # NoKey
        BY DEF Keys, NoKey
      <3> QED
        BY <2>3, <3>1, <3>2
    <2> QED
      BY <2>2, <2>3
  <1>2. pending[d] \in Seq(TimedKey) /\ mid \in Seq(TimedKey)
    BY BufferedType DEF TypeOK
  <1>3. pending'[d] = end
    BY DEF Output
  <1>4. /\ first \notin keys =>
             /\ Without(mid, keys) <=> Without(pending[d], keys)
             /\ Leaves(pending[d], keys, last) => Leaves(mid, keys, last)
        /\ first \in keys /\ raw_event(d, first) =>
             /\ ~Without(mid, keys)
             /\ first = last => Leaves(mid, keys, last)
    BY <1>1, <1>2
  <1>5. /\ second \notin keys =>
             /\ Without(end, keys) <=> Without(mid, keys)
             /\ Leaves(mid, keys, last) => Leaves(end, keys, last)
        /\ second \in keys /\ raw_event(d, second) =>
             /\ ~Without(end, keys)
             /\ second = last => Leaves(end, keys, last)
    <2> HIDE DEF mid
    <2> QED
      BY <1>1, <1>2
  <1> HIDE DEF mid, end
  <1> QED
    BY <1>3, <1>4, <1>5

\* A mirror has no Alt transition to report.
LEMMA MirrorOutput ==
  ASSUME TypeOK, NEW first \in Keys \cup {NoKey}, NEW second \in Keys \cup {NoKey},
         NEW chord \in Nat, Output(first, second, chord), OnlyKeydAlt
  PROVE  OnlyKeydAlt'
  <1>1. ASSUME NEW d \in Devices \ {Keyd}, NEW s \in Seq(TimedKey), Without(s, AltKeys),
               NEW key \in Keys \cup {NoKey}
        PROVE  Without(Buffered(s, d, key, chord), AltKeys)
    <2> DEFINE e == [key |-> key, chord |-> chord, age |-> 0]
    <2>1. CASE key # NoKey /\ raw_event(d, key)
      <3>1. e \in TimedKey /\ e.key \notin AltKeys
        BY <2>1 DEF TimedKey, AltKeys, raw_event
      <3>2. Buffered(s, d, key, chord) = Append(s, e)
        BY <2>1 DEF Buffered
      <3> HIDE DEF e
      <3> QED
        BY <1>1, <3>1, <3>2, AppendKeys
    <2>2. CASE ~(key # NoKey /\ raw_event(d, key))
      BY <1>1, <2>2 DEF Buffered
    <2> QED
      BY <2>1, <2>2
  <1> SUFFICES ASSUME NEW d \in Devices \ {Keyd}
               PROVE  Without(pending'[d], AltKeys)
    BY DEF OnlyKeydAlt
  <1>2. CASE ~monitored[d]
    <2>1. pending'[d] = << >>
      BY <1>2 DEF Output
    <2> QED
      BY <2>1 DEF Without
  <1>3. pending[d] \in Seq(TimedKey) /\ Without(pending[d], AltKeys)
    BY DEF OnlyKeydAlt, TypeOK
  <1>4. Buffered(pending[d], d, first, chord) \in Seq(TimedKey)
    BY <1>3, BufferedType
  <1>5. Without(Buffered(pending[d], d, first, chord), AltKeys)
    BY <1>1, <1>3
  <1>6. Without(Buffered(Buffered(pending[d], d, first, chord), d, second, chord), AltKeys)
    BY <1>1, <1>4, <1>5
  <1>7. CASE monitored[d]
    BY <1>6, <1>7 DEF Output
  <1> QED
    BY <1>2, <1>7

-----------------------------------------------------------------------------
(* The view catches up.                                                     *)

LEMMA UserView ==
  ASSUME TypeOK, ViewInv, User
  PROVE  ViewInv'
  <1>1. /\ UNCHANGED <<monitored, unplugs, raw, stateVars, outVars>>
        /\ keydAlt' => physAlt'
    BY DEF User, PressAlt, PressSpace, ReleaseSpace, ReleaseAlt, ViewInv
  <1>17. OnlyKeydAlt'
    <2>1. chords + 1 \in Nat /\ chords \in Nat /\ OnlyKeydAlt
      BY DEF TypeOK, ViewInv
    <2>2. \E first, second \in Keys \cup {NoKey} : \E chord \in Nat : Output(first, second, chord)
      BY <2>1 DEF User, PressAlt, PressSpace, ReleaseSpace, ReleaseAlt, Keys
    <2> QED
      BY <2>1, <2>2, MirrorOutput
  <1> SUFFICES ASSUME unplugs = 0
               PROVE  F24View' /\ AltView'
    BY <1>1, <1>17 DEF ViewInv, stateVars
  <1>2. F24View /\ AltView /\ (\A d \in Devices : monitored[d]) /\ Keyd \in Devices
    BY HotkeyAssumption DEF ViewInv
  <1>3. /\ F24Keys \in SUBSET Keys /\ AltKeys \in SUBSET Keys /\ NoKey \notin F24Keys \cup AltKeys
        /\ F24Keys = {"F24Down", "F24Up"} /\ AltKeys = {"KeydLeftAltDown", "KeydLeftAltUp"}
    BY DEF F24Keys, AltKeys, Keys, NoKey
  <1>4. \A d \in Devices : \A key \in F24Keys : raw_event(d, key)
    BY DEF raw_event, F24Keys
  <1>5. \A key \in Keys : raw_event(Keyd, key)
    BY DEF raw_event
  <1>6. ASSUME NEW first \in Keys \cup {NoKey}, NEW second \in Keys \cup {NoKey},
               NEW chord \in Nat, Output(first, second, chord),
               first \notin F24Keys, second \notin F24Keys, f24' = f24, F24Key' = F24Key
        PROVE  F24View'
    <2>1. \A d \in Devices :
            /\ Without(pending'[d], F24Keys) <=> Without(pending[d], F24Keys)
            /\ Leaves(pending[d], F24Keys, F24Key) =>
                 Leaves(pending'[d], F24Keys, F24Key)
      BY SMTT(40), <1>2, <1>3, <1>6, OutputKeys
    <2> QED
      BY <1>1, <1>2, <1>6, <2>1 DEF F24View, stateVars
  <1>7. ASSUME NEW first \in Keys \cup {NoKey}, NEW second \in Keys \cup {NoKey},
               NEW chord \in Nat, Output(first, second, chord), NEW v, F24Key' = v,
               \/ first \in F24Keys /\ second \notin F24Keys /\ first = v
               \/ second \in F24Keys /\ second = v
        PROVE  F24View'
    <2>1. \A d \in Devices :
            ~Without(pending'[d], F24Keys) /\ Leaves(pending'[d], F24Keys, v)
      BY SMTT(40), <1>2, <1>3, <1>4, <1>7, OutputKeys
    <2> QED
      BY <1>2, <1>7, <2>1 DEF F24View
  <1>8. ASSUME NEW first \in Keys \cup {NoKey}, NEW second \in Keys \cup {NoKey},
               NEW chord \in Nat, Output(first, second, chord),
               first \notin AltKeys, second \notin AltKeys, keydAlt' = keydAlt, AltKey' = AltKey
        PROVE  AltView'
    <2>1. /\ Without(pending'[Keyd], AltKeys) <=> Without(pending[Keyd], AltKeys)
          /\ Leaves(pending[Keyd], AltKeys, AltKey) =>
                 Leaves(pending'[Keyd], AltKeys, AltKey)
      BY <1>2, <1>3, <1>8, OutputKeys
    <2> QED
      BY <1>1, <1>2, <1>8, <2>1 DEF AltView, stateVars
  <1>9. ASSUME NEW first \in Keys \cup {NoKey}, NEW second \in Keys \cup {NoKey},
               NEW chord \in Nat, Output(first, second, chord), NEW v, AltKey' = v,
               \/ first \in AltKeys /\ second \notin AltKeys /\ first = v
               \/ second \in AltKeys /\ second = v
        PROVE  AltView'
    <2>1. ~Without(pending'[Keyd], AltKeys)
          /\ Leaves(pending'[Keyd], AltKeys, v)
      BY SMTT(40), <1>2, <1>3, <1>5, <1>9, OutputKeys
    <2> QED
      BY <1>9, <2>1 DEF AltView
  <1>10. chords \in Nat /\ chords + 1 \in Nat /\ Keys = F24Keys \cup AltKeys
    BY DEF TypeOK, Keys, F24Keys, AltKeys
  <1>11. f24 \in BOOLEAN /\ keydAlt \in BOOLEAN /\ physAlt \in BOOLEAN /\ (keydAlt => physAlt)
    BY DEF TypeOK, ViewInv
  <1>16. /\ f24' = f24 => F24Key' = F24Key
         /\ f24' = TRUE => F24Key' = "F24Down"
         /\ f24' = FALSE => F24Key' = "F24Up"
         /\ keydAlt' = keydAlt => AltKey' = AltKey
         /\ keydAlt' = TRUE => AltKey' = "KeydLeftAltDown"
         /\ keydAlt' = FALSE => AltKey' = "KeydLeftAltUp"
    BY DEF F24Key, AltKey
  <1>12. CASE PressAlt
    <2>1. Output("KeydLeftAltDown", NoKey, chords) /\ keydAlt' = TRUE /\ f24' = f24
      BY <1>12 DEF PressAlt
    <2> QED
      BY <1>3, <1>6, <1>9, <1>10, <1>16, <2>1
  <1>13. CASE PressSpace
    <2>1. /\ Output(IF keydAlt THEN "KeydLeftAltUp" ELSE NoKey, "F24Down", chords + 1)
          /\ keydAlt' = FALSE /\ f24' = TRUE
      BY <1>13 DEF PressSpace
    <2>2. CASE keydAlt
      <3>1. Output("KeydLeftAltUp", "F24Down", chords + 1)
        BY <2>1, <2>2
      <3> QED
        BY <1>3, <1>7, <1>9, <1>10, <1>16, <2>1, <3>1
    <2>3. CASE ~keydAlt
      <3>1. Output(NoKey, "F24Down", chords + 1) /\ UNCHANGED keydAlt
        BY <1>11, <2>1, <2>3
      <3> QED
        BY <1>3, <1>7, <1>8, <1>10, <1>16, <2>1, <3>1
    <2> QED
      BY <2>2, <2>3
  <1>14. CASE ReleaseSpace
    <2>1. /\ Output("F24Up", IF physAlt THEN "KeydLeftAltDown" ELSE NoKey, chords)
          /\ keydAlt' = physAlt /\ f24' = FALSE
      BY <1>14 DEF ReleaseSpace
    <2>2. CASE physAlt
      <3>1. Output("F24Up", "KeydLeftAltDown", chords) /\ keydAlt' = TRUE
        BY <1>11, <2>1, <2>2
      <3> QED
        BY <1>3, <1>7, <1>9, <1>10, <1>16, <2>1, <3>1
    <2>3. CASE ~physAlt
      <3>1. Output("F24Up", NoKey, chords) /\ UNCHANGED keydAlt
        BY <1>11, <2>1, <2>3
      <3> QED
        BY <1>3, <1>7, <1>8, <1>10, <1>16, <2>1, <3>1
    <2> QED
      BY <2>2, <2>3
  <1>15. CASE ReleaseAlt
    <2>1. /\ Output(IF keydAlt THEN "KeydLeftAltUp" ELSE NoKey, NoKey, chords)
          /\ keydAlt' = FALSE /\ f24' = f24
      BY <1>15 DEF ReleaseAlt
    <2>2. CASE keydAlt
      <3>1. Output("KeydLeftAltUp", NoKey, chords)
        BY <2>1, <2>2
      <3> QED
        BY <1>3, <1>6, <1>9, <1>10, <1>16, <2>1, <3>1
    <2>3. CASE ~keydAlt
      <3>1. Output(NoKey, NoKey, chords) /\ UNCHANGED keydAlt
        BY <1>11, <2>1, <2>3
      <3> QED
        BY <1>3, <1>6, <1>8, <1>10, <1>16, <2>1, <3>1
    <2> QED
      BY <2>2, <2>3
  <1> QED
    BY <1>12, <1>13, <1>14, <1>15 DEF User

\* A reader moves the head of its device to the end of the channel.
LEMMA ReadCases ==
  ASSUME TypeOK, NEW d \in Devices, read_keyboard_events(d)
  PROVE  /\ pending[d] \in Seq(TimedKey) /\ pending[d] # << >> /\ raw \in Seq(Key)
         /\ pending[d][1] \in TimedKey
         /\ [key |-> pending[d][1].key, chord |-> pending[d][1].chord] \in Key
         /\ raw' = Append(raw, [key |-> pending[d][1].key, chord |-> pending[d][1].chord])
         /\ pending'[d] = Tail(pending[d])
         /\ \A e \in Devices \ {d} : pending'[e] = pending[e]
         /\ UNCHANGED <<userVars, monitored, unplugs, stateVars, outVars>>
  <1>1. pending[d] \in Seq(TimedKey) /\ pending[d] # << >> /\ raw \in Seq(Key)
    BY DEF read_keyboard_events, TypeOK
  <1>2. pending[d][1] \in TimedKey /\ Head(pending[d]) = pending[d][1]
    BY <1>1
  <1>3. [key |-> pending[d][1].key, chord |-> pending[d][1].chord] \in Key
    BY <1>2 DEF TimedKey, Key
  <1> QED
    BY <1>1, <1>2, <1>3 DEF read_keyboard_events, TypeOK

\* Seen from behind, moving a transition from a device to the channel leaves the
\* last of `keys` where it was, or makes it the last one in the channel.
LEMMA ReadKeys ==
  ASSUME TypeOK, NEW d \in Devices, read_keyboard_events(d), NEW keys, NEW last
  PROVE  /\ Leaves(pending[d], keys, last) => Leaves(pending'[d], keys, last)
         /\ Without(pending[d], keys) =>
              /\ Without(pending'[d], keys)
              /\ Without(raw', keys) <=> Without(raw, keys)
              /\ Leaves(raw, keys, last) => Leaves(raw', keys, last)
         /\ ~Without(pending[d], keys) /\ Without(pending'[d], keys) /\ Leaves(pending[d], keys, last) =>
              ~Without(raw', keys) /\ Leaves(raw', keys, last)
  <1> DEFINE e == [key |-> pending[d][1].key, chord |-> pending[d][1].chord]
  <1>1. /\ pending[d] \in Seq(TimedKey) /\ pending[d] # << >> /\ raw \in Seq(Key) /\ e \in Key
        /\ raw' = Append(raw, e) /\ pending'[d] = Tail(pending[d]) /\ e.key = pending[d][1].key
    BY ReadCases
  <1> HIDE DEF e
  <1>2. /\ Leaves(pending[d], keys, last) => Leaves(pending'[d], keys, last)
        /\ e.key \notin keys => (Without(pending'[d], keys) <=> Without(pending[d], keys))
        /\ e.key \in keys => ~Without(pending[d], keys)
        /\ e.key \in keys /\ Without(pending'[d], keys) /\ Leaves(pending[d], keys, last) =>
             e.key = last
    BY <1>1, TailKeys
  <1>3. /\ e.key \notin keys =>
             /\ Without(raw', keys) <=> Without(raw, keys)
             /\ Leaves(raw, keys, last) => Leaves(raw', keys, last)
        /\ e.key \in keys =>
             /\ ~Without(raw', keys)
             /\ e.key = last => Leaves(raw', keys, last)
    BY <1>1, AppendKeys
  <1> QED
    BY <1>2, <1>3

LEMMA ReadView ==
  ASSUME TypeOK, ViewInv, NEW d \in Devices, read_keyboard_events(d)
  PROVE  ViewInv'
  <1>1. UNCHANGED <<userVars, monitored, unplugs, stateVars, outVars>>
    BY ReadCases
  <1>7. OnlyKeydAlt'
    <2> SUFFICES ASSUME NEW e \in Devices \ {Keyd}
                 PROVE  Without(pending'[e], AltKeys)
      BY DEF OnlyKeydAlt
    <2>1. Without(pending[e], AltKeys)
      BY DEF ViewInv, OnlyKeydAlt
    <2> QED
      BY <2>1, ReadCases, ReadKeys
  <1> SUFFICES ASSUME unplugs = 0
               PROVE  F24View' /\ AltView'
    BY <1>1, <1>7 DEF ViewInv, userVars, stateVars
  <1>2. F24View /\ AltView /\ Keyd \in Devices
    BY HotkeyAssumption DEF ViewInv
  <1>3. F24Key' = F24Key /\ AltKey' = AltKey
    BY <1>1 DEF F24Key, AltKey, userVars
  <1>4. \A e \in Devices \ {d} : pending'[e] = pending[e]
    BY ReadCases
  <1>5. F24View'
    <2>1. \A e \in Devices : Leaves(pending'[e], F24Keys, F24Key)
      BY <1>2, <1>4, ReadKeys DEF F24View
    <2>2. ASSUME \A e \in Devices : Without(pending'[e], F24Keys)
          PROVE  Leaves(raw', F24Keys, F24Key) /\ (Without(raw', F24Keys) => (f24_pressed <=> f24))
      <3>1. CASE Without(pending[d], F24Keys)
        <4>1. \A e \in Devices : Without(pending[e], F24Keys)
          BY <1>4, <2>2, <3>1
        <4> QED
          BY <1>2, <3>1, <4>1, ReadKeys DEF F24View
      <3>2. CASE ~Without(pending[d], F24Keys)
        BY <1>2, <2>2, <3>2, ReadKeys DEF F24View
      <3> QED
        BY <3>1, <3>2
    <2> QED
      BY <1>1, <1>3, <2>1, <2>2 DEF F24View, userVars, stateVars
  <1>6. AltView'
    <2>1. Leaves(pending'[Keyd], AltKeys, AltKey)
      BY <1>2, <1>4, ReadKeys DEF AltView
    <2>2. ASSUME Without(pending'[Keyd], AltKeys)
          PROVE  /\ Leaves(raw', AltKeys, AltKey)
                 /\ Without(raw', AltKeys) /\ release_phase = "WaitingForAltUp" => keydAlt
      <3>1. CASE d = Keyd
        BY <1>2, <2>2, <3>1, ReadKeys DEF AltView
      <3>2. CASE d # Keyd
        <4>1. Without(pending[d], AltKeys)
          BY <3>2 DEF ViewInv, OnlyKeydAlt
        <4> QED
          BY <1>2, <1>4, <2>2, <3>2, <4>1, ReadKeys DEF AltView
      <3> QED
        BY <3>1, <3>2
    <2> QED
      BY <1>1, <1>3, <2>1, <2>2 DEF AltView, userVars, stateVars
  <1> QED
    BY <1>5, <1>6

LEMMA ReceiveView ==
  ASSUME TypeOK, ViewInv, Receive
  PROVE  ViewInv'
  <1>1. /\ raw \in Seq(Key) /\ raw # << >> /\ raw' = Tail(raw) /\ raw[1].key \in Keys
        /\ UNCHANGED <<userVars, deviceVars>>
    BY ReceiveCases DEF TypeOK, Key
  <1>2. /\ raw[1].key \in F24Keys =>
             (f24_pressed' <=> raw[1].key = "F24Down") /\ (recording' => f24_pressed')
        /\ raw[1].key \notin F24Keys => UNCHANGED <<f24_pressed, recording>>
    <2>1. recording => f24_pressed
      BY DEF ViewInv
    <2>2. CASE raw[1].key = "F24Down" /\ ProcessF24Down(raw[1].chord)
      BY <2>2 DEF ProcessF24Down, F24Keys
    <2>3. CASE raw[1].key = "F24Up" /\ ProcessF24Up(raw[1].chord)
      BY <2>1, <2>3 DEF ProcessF24Up, ForgetKey, F24Keys
    <2>4. CASE raw[1].key = "KeydLeftAltDown" /\ ProcessAltDown
      BY <2>4 DEF ProcessAltDown, F24Keys
    <2>5. CASE raw[1].key = "KeydLeftAltUp" /\ ProcessAltUp(ReleasedChord)
      BY <2>5 DEF ProcessAltUp, F24Keys
    <2> QED
      BY <2>2, <2>3, <2>4, <2>5, ReceiveCases
  <1>3. /\ raw[1].key \notin AltKeys /\ release_phase' = "WaitingForAltUp" =>
             release_phase = "WaitingForAltUp"
        /\ raw[1].key = "KeydLeftAltUp" => release_phase' # "WaitingForAltUp"
    <2>2. CASE raw[1].key = "F24Down" /\ ProcessF24Down(raw[1].chord)
      BY <2>2 DEF ProcessF24Down
    <2>3. CASE raw[1].key = "F24Up" /\ ProcessF24Up(raw[1].chord)
      BY <2>3 DEF ProcessF24Up
    <2>4. CASE raw[1].key = "KeydLeftAltDown" /\ ProcessAltDown
      BY <2>4 DEF AltKeys
    <2>5. CASE raw[1].key = "KeydLeftAltUp" /\ ProcessAltUp(ReleasedChord)
      BY <2>5 DEF ProcessAltUp, EndRelease, AltKeys
    <2> QED
      BY <2>2, <2>3, <2>4, <2>5, ReceiveCases
  <1>4. recording' => f24_pressed'
    <2>1. CASE raw[1].key \in F24Keys
      BY <1>2, <2>1
    <2>2. CASE raw[1].key \notin F24Keys
      <3>1. f24_pressed' = f24_pressed /\ recording' = recording
        BY <1>2, <2>2
      <3> QED
        BY <3>1 DEF ViewInv
    <2> QED
      BY <2>1, <2>2
  <1>5. F24Key' = F24Key /\ AltKey' = AltKey
    BY <1>1 DEF F24Key, AltKey, userVars
  <1>6. ASSUME unplugs = 0
        PROVE  F24View' /\ AltView'
    <2>1. F24View /\ AltView
      BY <1>6 DEF ViewInv
    <2>2. F24View'
      <3>1. ASSUME \A d \in Devices : Without(pending[d], F24Keys)
            PROVE  Leaves(raw', F24Keys, F24Key)
                   /\ (Without(raw', F24Keys) => (f24_pressed' <=> f24))
        <4>1. /\ Leaves(raw, F24Keys, F24Key)
              /\ Without(raw, F24Keys) => (f24_pressed <=> f24)
          BY <2>1, <3>1 DEF F24View
        <4>2. Leaves(raw', F24Keys, F24Key)
          BY <1>1, <4>1, TailKeys
        <4>3. ASSUME Without(raw', F24Keys), raw[1].key \in F24Keys
              PROVE  f24_pressed' <=> f24
          <5>1. raw[1].key = F24Key
            BY <1>1, <4>1, <4>3, TailKeys
          <5> QED
            BY <1>2, <4>3, <5>1 DEF F24Key
        <4>4. ASSUME Without(raw', F24Keys), raw[1].key \notin F24Keys
              PROVE  f24_pressed' <=> f24
          <5>1. Without(raw, F24Keys)
            BY <1>1, <4>4, TailKeys
          <5> QED
            BY <1>2, <4>1, <4>4, <5>1
        <4> QED
          BY <4>2, <4>3, <4>4
      <3>2. pending' = pending /\ f24' = f24
        BY <1>1 DEF userVars, deviceVars
      <3> QED
        BY <1>5, <2>1, <3>1, <3>2 DEF F24View
    <2>3. AltView'
      <3>1. ASSUME Without(pending[Keyd], AltKeys)
            PROVE  /\ Leaves(raw', AltKeys, AltKey)
                   /\ Without(raw', AltKeys) /\ release_phase' = "WaitingForAltUp" => keydAlt
        <4>1. /\ Leaves(raw, AltKeys, AltKey)
              /\ Without(raw, AltKeys) /\ release_phase = "WaitingForAltUp" => keydAlt
          BY <2>1, <3>1 DEF AltView
        <4>2. Leaves(raw', AltKeys, AltKey)
          BY <1>1, <4>1, TailKeys
        <4>3. ASSUME Without(raw', AltKeys), raw[1].key \in AltKeys,
                     release_phase' = "WaitingForAltUp"
              PROVE  keydAlt
          <5>1. raw[1].key = AltKey
            BY <1>1, <4>1, <4>3, TailKeys
          <5> QED
            BY <1>3, <4>3, <5>1 DEF AltKey
        <4>4. ASSUME Without(raw', AltKeys), raw[1].key \notin AltKeys,
                     release_phase' = "WaitingForAltUp"
              PROVE  keydAlt
          <5>1. Without(raw, AltKeys)
            BY <1>1, <4>4, TailKeys
          <5> QED
            BY <1>3, <4>1, <4>4, <5>1
        <4> QED
          BY <4>2, <4>3, <4>4
      <3>2. pending' = pending /\ keydAlt' = keydAlt
        BY <1>1 DEF userVars, deviceVars
      <3> QED
        BY <1>5, <2>1, <3>1, <3>2 DEF AltView
    <2> QED
      BY <2>2, <2>3
  <1> QED
    BY <1>1, <1>4, <1>6 DEF ViewInv, OnlyKeydAlt, userVars, deviceVars

\* Time changes no key.
LEMMA TickView ==
  ASSUME TypeOK, ViewInv, Tick
  PROVE  ViewInv'
  <1>1. /\ UNCHANGED <<userVars, monitored, unplugs, raw, f24_pressed, recording, release_phase>>
        /\ \A d \in Devices :
             /\ DOMAIN pending'[d] = DOMAIN pending[d] /\ Len(pending'[d]) = Len(pending[d])
             /\ \A i \in DOMAIN pending[d] : pending'[d][i].key = pending[d][i].key
    BY TickCases
  <1>2. ASSUME NEW d \in Devices, NEW keys, NEW last
        PROVE  /\ Without(pending'[d], keys) <=> Without(pending[d], keys)
               /\ Leaves(pending[d], keys, last) => Leaves(pending'[d], keys, last)
    <2>1. pending[d] \in Seq(TimedKey)
      BY DEF TypeOK
    <2>2. DOMAIN pending[d] = 1 .. Len(pending[d]) /\ Len(pending[d]) \in Nat
      BY <2>1
    <2>3. \A i \in DOMAIN pending[d] : \A k \in i + 1 .. Len(pending[d]) : k \in DOMAIN pending[d]
      BY <2>2
    <2>4. \A i \in DOMAIN pending[d] : Last(pending'[d], keys, i) <=> Last(pending[d], keys, i)
      BY <1>1, <2>3 DEF Last
    <2> QED
      BY <1>1, <2>4 DEF Without, Leaves
  <1>3. F24Key' = F24Key /\ AltKey' = AltKey
    BY <1>1 DEF F24Key, AltKey, userVars
  <1>4. F24View => F24View'
    BY <1>1, <1>2, <1>3 DEF F24View, userVars
  <1>5. AltView => AltView'
    BY <1>1, <1>2, <1>3, HotkeyAssumption DEF AltView, userVars
  <1>6. OnlyKeydAlt => OnlyKeydAlt'
    BY <1>2 DEF OnlyKeydAlt
  <1> QED
    BY <1>1, <1>4, <1>5, <1>6 DEF ViewInv, userVars

LEMMA ViewNext == TypeOK /\ ViewInv /\ [Next]_vars => ViewInv'
  <1> SUFFICES ASSUME TypeOK, ViewInv, [Next]_vars
               PROVE  ViewInv'
    OBVIOUS
  <1>1. ASSUME NEW d \in Devices, Unplug(d)
        PROVE  ViewInv'
    <2>1. unplugs' # 0
      BY <1>1 DEF Unplug, TypeOK
    <2>2. Without(<< >>, AltKeys)
      BY DEF Without
    <2>3. OnlyKeydAlt'
      BY <1>1, <2>2 DEF Unplug, TypeOK, ViewInv, OnlyKeydAlt
    <2>4. keydAlt' => physAlt'
      BY <1>1 DEF Unplug, ViewInv
    <2> QED
      BY <1>1, <2>1, <2>3, <2>4 DEF Unplug, ViewInv, stateVars
  <1>2. ASSUME NEW d \in Devices, Rescan(d)
        PROVE  ViewInv'
    BY <1>2 DEF Rescan, TypeOK, ViewInv, OnlyKeydAlt, F24View, AltView, F24Key, AltKey, userVars, stateVars
  <1>3. CASE settle
    BY <1>3 DEF settle, EndRelease, SettleDue, ViewInv, OnlyKeydAlt, F24View, AltView, F24Key, AltKey,
       userVars, deviceVars
  <1>4. CASE Send \/ Recv
    BY <1>4 DEF Send, Recv, ViewInv, OnlyKeydAlt, F24View, AltView, F24Key, AltKey, userVars,
       deviceVars, stateVars
  <1>5. CASE UNCHANGED vars
    BY <1>5 DEF vars, ViewInv, OnlyKeydAlt, F24View, AltView, F24Key, AltKey, userVars, deviceVars,
       stateVars
  <1> QED
    BY <1>1, <1>2, <1>3, <1>4, <1>5, UserView, ReadView, ReceiveView, TickView DEF Next, Machine

\* Once nothing is in flight the state machine's view is the keyboard's, for any
\* number of mirrors, any delay and any size of the channels (hotkey.rs:78-124).
THEOREM ViewTrue == Spec => []ViewCatchesUp
  <1>1. Init => ViewInv
    BY HotkeyAssumption DEF Init, ViewInv, OnlyKeydAlt, F24View, AltView, Leaves, Without
  <1>2. TypeOK /\ ViewInv => ViewCatchesUp
    <2> SUFFICES ASSUME TypeOK, ViewInv, ~InFlight, unplugs = 0
                 PROVE  /\ f24_pressed = f24
                        /\ recording => f24
                        /\ release_phase = "WaitingForAltUp" => keydAlt
      BY DEF ViewCatchesUp
    <2>1. raw = << >> /\ \A d \in Devices : pending[d] = << >>
      BY DEF InFlight
    <2>2. Without(<< >>, F24Keys) /\ Without(<< >>, AltKeys)
      BY DEF Without
    <2>3. f24_pressed <=> f24
      BY <2>1, <2>2 DEF ViewInv, F24View
    <2>4. release_phase = "WaitingForAltUp" => keydAlt
      BY <2>1, <2>2, HotkeyAssumption DEF ViewInv, AltView
    <2>5. f24_pressed = f24
      BY <2>3 DEF TypeOK
    <2> QED
      BY <2>3, <2>4, <2>5 DEF ViewInv
  <1> QED
    BY <1>1, <1>2, ViewNext, TypesKept, PTL DEF Spec

-----------------------------------------------------------------------------
(* Mirrored sequences.                                                      *)

\* What a device has after keyd's output is what it had and the output.
LEMMA OutputEntries ==
  ASSUME TypeOK, NEW first \in Keys \cup {NoKey}, NEW second \in Keys \cup {NoKey},
         NEW chord \in Nat, Output(first, second, chord), NEW d \in Devices,
         NEW i \in DOMAIN pending'[d]
  PROVE  \/ i \in DOMAIN pending[d] /\ pending'[d][i] = pending[d][i]
         \/ /\ pending'[d][i].key \in {first, second}
            /\ pending'[d][i].chord = chord /\ pending'[d][i].age = 0
  <1>1. ASSUME NEW s \in Seq(TimedKey), NEW key \in Keys \cup {NoKey},
               NEW k \in DOMAIN Buffered(s, d, key, chord)
        PROVE  \/ k \in DOMAIN s /\ Buffered(s, d, key, chord)[k] = s[k]
               \/ Buffered(s, d, key, chord)[k] = [key |-> key, chord |-> chord, age |-> 0]
    <2> DEFINE e == [key |-> key, chord |-> chord, age |-> 0]
    <2>1. CASE key # NoKey /\ raw_event(d, key)
      <3>1. e \in TimedKey
        BY <2>1 DEF TimedKey
      <3>2. Buffered(s, d, key, chord) = Append(s, e)
        BY <2>1 DEF Buffered
      <3> HIDE DEF e
      <3>3. k \in 1 .. Len(s) + 1 /\ Len(s) \in Nat
        BY <1>1, <3>1, <3>2, AppendProperties, LenProperties
      <3>4. IF k \in 1 .. Len(s) THEN k \in DOMAIN s /\ Append(s, e)[k] = s[k] ELSE Append(s, e)[k] = e
        BY <3>1, <3>3, AppendProperties, LenProperties
      <3> QED
        BY <3>2, <3>4 DEF e
    <2>2. CASE ~(key # NoKey /\ raw_event(d, key))
      BY <1>1, <2>2 DEF Buffered
    <2> QED
      BY <2>1, <2>2
  <1> DEFINE mid == Buffered(pending[d], d, first, chord)
  <1>2. CASE ~monitored[d]
    BY <1>2 DEF Output
  <1>3. CASE monitored[d]
    <2>1. pending'[d] = Buffered(mid, d, second, chord)
      BY <1>3 DEF Output
    <2>2. pending[d] \in Seq(TimedKey) /\ mid \in Seq(TimedKey)
      BY BufferedType DEF TypeOK
    <2>3. \A k \in DOMAIN mid : \/ k \in DOMAIN pending[d] /\ mid[k] = pending[d][k]
                                \/ mid[k] = [key |-> first, chord |-> chord, age |-> 0]
      BY <1>1, <2>2
    <2> HIDE DEF mid
    <2>4. \/ i \in DOMAIN mid /\ pending'[d][i] = mid[i]
          \/ pending'[d][i] = [key |-> second, chord |-> chord, age |-> 0]
      BY <1>1, <2>1, <2>2
    <2> QED
      BY <2>3, <2>4
  <1> QED
    BY <1>2, <1>3

LEMMA LogTypes == TypeOK => \A i \in DOMAIN log : log[i].event \in HotkeyEvents /\ log[i].chord \in Nat
  <1> SUFFICES ASSUME log \in Seq([event : HotkeyEvents, chord : Nat]), NEW i \in DOMAIN log
               PROVE  log[i].event \in HotkeyEvents /\ log[i].chord \in Nat
    BY DEF TypeOK
  <1>1. log[i] \in [event : HotkeyEvents, chord : Nat]
    BY ElementOfSeq, LenProperties
  <1> QED
    BY <1>1

LEMMA UserStale ==
  ASSUME TypeOK, StaleInv, User
  PROVE  StaleInv'
  <1>1. /\ chords \in Nat /\ chords' \in Nat /\ chords <= chords'
        /\ UNCHANGED <<raw, stateVars, outVars>>
    BY DEF TypeOK, User, PressAlt, PressSpace, ReleaseSpace, ReleaseAlt
  <1>2. \E first, second \in Keys \cup {NoKey} : \E chord \in {chords, chords + 1} :
          /\ Output(first, second, chord) /\ chord = chords'
          /\ "F24Down" \in {first, second} => chord = chords + 1
    BY <1>1 DEF User, PressAlt, PressSpace, ReleaseSpace, ReleaseAlt, Keys, NoKey
  <1>3. \A c \in Nat : Stale(log', c) <=> Stale(log, c)
    BY <1>1 DEF Stale, outVars
  <1>4. ASSUME NEW d \in Devices, NEW i \in DOMAIN pending'[d]
        PROVE  /\ pending'[d][i].age <= Lag[d] /\ pending'[d][i].chord <= chords'
               /\ pending'[d][i].key = "F24Down" /\ Stale(log, pending'[d][i].chord) =>
                    recording \/ cooldown + pending'[d][i].age >= Cooldown
    <2>1. PICK first, second \in Keys \cup {NoKey}, chord \in {chords, chords + 1} :
            /\ Output(first, second, chord) /\ chord = chords'
            /\ "F24Down" \in {first, second} => chord = chords + 1
      BY <1>2
    <2>2. CASE i \in DOMAIN pending[d] /\ pending'[d][i] = pending[d][i]
      <3>1. pending[d][i] \in TimedKey
        BY <2>2 DEF TypeOK
      <3> QED
        BY <1>1, <2>2, <3>1 DEF StaleInv, TimedKey
    <2>3. CASE /\ pending'[d][i].key \in {first, second}
               /\ pending'[d][i].chord = chords' /\ pending'[d][i].age = 0
      <3>1. ~Stale(log, chords + 1)
        BY <1>1, LogTypes DEF Stale, StaleInv
      <3> QED
        BY <1>1, <2>1, <2>3, <3>1, HotkeyAssumption
    <2>4. \/ i \in DOMAIN pending[d] /\ pending'[d][i] = pending[d][i]
          \/ /\ pending'[d][i].key \in {first, second}
             /\ pending'[d][i].chord = chords' /\ pending'[d][i].age = 0
      <3>1. chord \in Nat
        BY <1>1
      <3> QED
        BY SMTT(40), <2>1, <3>1, OutputEntries
    <2> QED
      BY <2>2, <2>3, <2>4
  <1>5. ASSUME NEW i \in DOMAIN raw
        PROVE  /\ raw[i].chord <= chords'
               /\ raw[i].key = "F24Down" /\ Stale(log, raw[i].chord) => recording \/ cooldown > 0
    <2>1. raw[i] \in Key
      BY DEF TypeOK
    <2> QED
      BY <1>1, <2>1 DEF StaleInv, Key
  <1>6. ASSUME NEW i \in DOMAIN log
        PROVE  log[i].chord <= chords'
    <2>1. log[i].chord \in Nat
      BY LogTypes
    <2> QED
      BY <1>1, <2>1 DEF StaleInv
  <1>7. release_phase # "Idle" => log # << >>
    BY DEF StaleInv
  <1> QED
    BY <1>1, <1>4, <1>5, <1>6, <1>7 DEF StaleInv, Stale, stateVars, outVars

LEMMA ReadStale ==
  ASSUME TypeOK, StaleInv, QuickMirrors, NEW d \in Devices, read_keyboard_events(d)
  PROVE  StaleInv'
  <1> DEFINE e == [key |-> pending[d][1].key, chord |-> pending[d][1].chord]
  <1>1. /\ UNCHANGED <<userVars, monitored, unplugs, stateVars, outVars>>
        /\ pending[d] \in Seq(TimedKey) /\ pending[d] # << >> /\ raw \in Seq(Key) /\ e \in Key
        /\ raw' = Append(raw, e) /\ pending'[d] = Tail(pending[d]) /\ pending[d][1] \in TimedKey
        /\ \A c \in Devices \ {d} : pending'[c] = pending[c]
    BY ReadCases
  <1>2. e.key = pending[d][1].key /\ e.chord = pending[d][1].chord
    OBVIOUS
  <1> HIDE DEF e
  <1>3. cooldown \in Nat /\ Cooldown \in Nat /\ Lag[d] \in Nat /\ Lag[d] < Cooldown
    BY HotkeyAssumption DEF TypeOK, QuickMirrors
  <1>4. /\ e.chord <= chords
        /\ e.key = "F24Down" /\ Stale(log, e.chord) => recording \/ cooldown > 0
    <2>1. 1 \in DOMAIN pending[d] /\ pending[d][1].age \in Nat
      BY <1>1, LenProperties, EmptySeq DEF TimedKey
    <2> QED
      BY <1>2, <1>3, <2>1 DEF StaleInv
  <1>5. ASSUME NEW i \in DOMAIN raw'
        PROVE  /\ raw'[i].chord <= chords
               /\ raw'[i].key = "F24Down" /\ Stale(log, raw'[i].chord) => recording \/ cooldown > 0
    <2>1. IF i \in DOMAIN raw THEN raw'[i] = raw[i] ELSE raw'[i] = e
      BY <1>1, AppendProperties, LenProperties
    <2> QED
      BY <1>4, <2>1 DEF StaleInv
  <1>6. ASSUME NEW c \in Devices, NEW i \in DOMAIN pending'[c]
        PROVE  /\ pending'[c][i].age <= Lag[c] /\ pending'[c][i].chord <= chords
               /\ pending'[c][i].key = "F24Down" /\ Stale(log, pending'[c][i].chord) =>
                    recording \/ cooldown + pending'[c][i].age >= Cooldown
    <2>1. \E k \in DOMAIN pending[c] : pending'[c][i] = pending[c][k]
      <3>1. CASE c = d
        <4>2. /\ Tail(pending[d]) \in Seq(TimedKey) /\ Len(Tail(pending[d])) = Len(pending[d]) - 1
              /\ Len(pending[d]) \in Nat /\ DOMAIN pending[d] = 1 .. Len(pending[d])
              /\ \A k \in 1 .. Len(Tail(pending[d])) : Tail(pending[d])[k] = pending[d][k + 1]
          BY <1>1, HeadTailProperties, LenProperties
        <4>3. i \in 1 .. Len(Tail(pending[d]))
          BY <1>1, <1>6, <3>1, <4>2, LenProperties
        <4>1. i + 1 \in DOMAIN pending[d] /\ Tail(pending[d])[i] = pending[d][i + 1]
          BY <4>2, <4>3
        <4> QED
          BY <1>1, <3>1, <4>1
      <3>2. CASE c # d
        BY <1>1, <1>6, <3>2
      <3> QED
        BY <3>1, <3>2
    <2> QED
      BY <2>1 DEF StaleInv
  <1>7. /\ \A i \in DOMAIN log : log[i].chord <= chords
        /\ release_phase # "Idle" => log # << >>
    BY DEF StaleInv
  <1> QED
    BY <1>1, <1>5, <1>6, <1>7 DEF StaleInv, Stale, userVars, stateVars, outVars

LEMMA AppendLog ==
  ASSUME TypeOK, NEW event \in HotkeyEvents, NEW chord \in Nat,
         log' = Append(log, [event |-> event, chord |-> chord])
  PROVE  /\ log \in Seq([event : HotkeyEvents, chord : Nat])
         /\ Len(log') = Len(log) + 1 /\ Len(log) \in Nat
         /\ DOMAIN log' = 1 .. Len(log) + 1 /\ DOMAIN log = 1 .. Len(log)
         /\ \A i \in 1 .. Len(log) : log'[i] = log[i]
         /\ log'[Len(log')].event = event /\ log'[Len(log')].chord = chord
         /\ log'[Len(log) + 1].event = event /\ log'[Len(log) + 1].chord = chord
         /\ log' # log
  <1> DEFINE e == [event |-> event, chord |-> chord]
  <1>1. /\ log \in Seq([event : HotkeyEvents, chord : Nat])
        /\ e \in [event : HotkeyEvents, chord : Nat] /\ e.event = event /\ e.chord = chord
    BY DEF TypeOK
  <1> HIDE DEF e
  <1>2. log' = Append(log, e)
    BY DEF e
  <1>3. /\ Len(log') = Len(log) + 1 /\ Len(log) \in Nat
        /\ DOMAIN log' = 1 .. Len(log) + 1 /\ DOMAIN log = 1 .. Len(log)
        /\ \A i \in 1 .. Len(log) : log'[i] = log[i]
        /\ log'[Len(log) + 1] = e
    BY <1>1, <1>2, AppendProperties, LenProperties
  <1>4. log' # log
    <2> SUFFICES ASSUME log' = log
                 PROVE  FALSE
      OBVIOUS
    <2>1. Len(log') = Len(log)
      OBVIOUS
    <2> QED
      BY <1>3, <2>1
  <1>5. log'[Len(log')] = e
    BY <1>3
  <1> QED
    BY <1>1, <1>3, <1>4, <1>5

\* What Receive may do, as far as recordings and the cooldown are concerned.
LEMMA ReceiveEffects ==
  ASSUME TypeOK, LogInv, Receive
  PROVE  /\ raw[1].chord \in Nat
         /\ \/ /\ raw[1].key = "F24Down" /\ ~recording /\ cooldown = 0 /\ recording'
               /\ log' = Append(log, [event |-> "Press", chord |-> raw[1].chord])
               /\ release_phase' = release_phase
            \/ /\ f24_pressed /\ recording /\ recording' = FALSE /\ cooldown' = Cooldown
               /\ log' = Append(log, [event |-> "ReleaseStarted", chord |-> raw[1].chord])
            \/ /\ recording' = recording /\ cooldown' = cooldown
               /\ log # << >> /\ ReleasedChord \in Nat
               /\ log' = Append(log, [event |-> "ReleaseCompleted", chord |-> ReleasedChord])
            \/ /\ recording' = recording /\ cooldown' = cooldown /\ log' = log
               /\ release_phase' # "Idle" => release_phase # "Idle"
  <1>1. raw[1].chord \in Nat
    BY ReceiveCases DEF Key
  <1>2. CASE raw[1].key = "F24Down" /\ ProcessF24Down(raw[1].chord)
    BY <1>1, <1>2 DEF ProcessF24Down, IgnoresF24Down, Produce, outVars, TypeOK
  <1>3. CASE raw[1].key = "F24Up" /\ ProcessF24Up(raw[1].chord)
    BY <1>1, <1>3 DEF ProcessF24Up, Produce, outVars
  <1>4. CASE raw[1].key = "KeydLeftAltDown" /\ ProcessAltDown
    BY <1>1, <1>4 DEF ProcessAltDown, outVars
  <1>5. CASE raw[1].key = "KeydLeftAltUp" /\ ProcessAltUp(ReleasedChord)
    BY <1>1, <1>5, ReleasedType DEF ProcessAltUp, EndRelease, Produce, outVars, LogInv
  <1> QED
    BY <1>2, <1>3, <1>4, <1>5, ReceiveCases

\* What is left of the channel.
LEMMA TailRaw ==
  ASSUME TypeOK, Receive
  PROVE  /\ raw \in Seq(Key) /\ raw # << >> /\ raw' = Tail(raw) /\ raw[1].chord \in Nat
         /\ Len(raw) \in Nat \ {0} /\ Len(raw') = Len(raw) - 1
         /\ DOMAIN raw = 1 .. Len(raw) /\ DOMAIN raw' = 1 .. Len(raw) - 1
         /\ \A k \in DOMAIN raw' : k + 1 \in DOMAIN raw /\ raw'[k] = raw[k + 1]
         /\ UNCHANGED <<userVars, deviceVars>>
  <1>1. raw \in Seq(Key) /\ raw # << >> /\ raw' = Tail(raw) /\ raw[1].chord \in Nat
        /\ UNCHANGED <<userVars, deviceVars>>
    BY ReceiveCases DEF TypeOK, Key
  <1>2. /\ Tail(raw) \in Seq(Key) /\ Len(Tail(raw)) = Len(raw) - 1 /\ Len(raw) \in Nat \ {0}
        /\ DOMAIN raw = 1 .. Len(raw)
        /\ \A k \in 1 .. Len(Tail(raw)) : Tail(raw)[k] = raw[k + 1]
    BY <1>1, HeadTailProperties, LenProperties, EmptySeq
  <1> QED
    BY <1>1, <1>2, LenProperties

\* A mirrored F24-down starts no recording.
LEMMA ReceiveStale ==
  ASSUME TypeOK, StaleInv, QuickMirrors, Receive
  PROVE  /\ StaleInv'
         /\ Produced("Press") => log' # << >> /\ ~Stale(log, log'[Len(log')].chord)
  <1>1. chords' = chords /\ pending' = pending /\ chords \in Nat
    BY TailRaw DEF userVars, deviceVars, TypeOK
  <1>2. \A i \in DOMAIN raw' : i + 1 \in DOMAIN raw /\ raw'[i] = raw[i + 1]
    BY TailRaw
  <1>3. 1 \in DOMAIN raw /\ raw[1].chord <= chords /\ raw[1].chord \in Nat
    BY TailRaw DEF StaleInv
  <1>4. LogInv
    BY DEF StaleInv, LogInv
  <1>5. release_phase' # "Idle" => log' # << >>
    BY <1>4, ReceiveType DEF LogInv
  <1>6. cooldown \in Nat /\ Cooldown \in Nat \ {0} /\ recording \in BOOLEAN /\ recording' \in BOOLEAN
    BY <1>4, ReceiveType, HotkeyAssumption DEF TypeOK, QuickMirrors
  <1>7. \A d \in Devices : \A i \in DOMAIN pending[d] :
           pending[d][i].age \in Nat /\ pending[d][i].chord \in Nat
    <2> SUFFICES ASSUME NEW d \in Devices, NEW i \in DOMAIN pending[d]
                 PROVE  pending[d][i] \in TimedKey
      BY DEF TimedKey
    <2> QED
      BY DEF TypeOK
  <1>8. \A i \in DOMAIN raw : raw[i].chord \in Nat
    <2>1. \A i \in DOMAIN raw : raw[i] \in Key
      BY TailRaw
    <2> QED
      BY <2>1 DEF Key
  <1>9. ASSUME raw[1].key = "F24Down", ~recording, cooldown = 0, recording',
               log' = Append(log, [event |-> "Press", chord |-> raw[1].chord])
        PROVE  /\ StaleInv'
               /\ Produced("Press") => log' # << >> /\ ~Stale(log, log'[Len(log')].chord)
    <2>1. ~Stale(log, raw[1].chord)
      BY <1>3, <1>6, <1>9 DEF StaleInv
    <2>2. \A i \in DOMAIN log' : log'[i].chord <= chords
      BY <1>3, <1>9, AppendLog DEF StaleInv, HotkeyEvents
    <2>3. log'[Len(log')].chord = raw[1].chord /\ log' # << >>
      BY SMTT(40), <1>3, <1>9, AppendLog DEF HotkeyEvents
    <2>4. StaleInv'
      BY <1>1, <1>2, <1>5, <1>9, <2>2 DEF StaleInv
    <2> QED
      BY <2>1, <2>3, <2>4
  <1>10. ASSUME NEW event \in HotkeyEvents \ {"Press"}, NEW chord \in Nat, chord <= chords,
                log' = Append(log, [event |-> event, chord |-> chord]),
                \/ recording' = recording /\ cooldown' = cooldown
                \/ cooldown' = Cooldown
         PROVE  StaleInv' /\ ~Produced("Press")
    <2>1. ASSUME NEW c \in Nat
          PROVE  Stale(log', c) <=> Stale(log, c)
      <3>1. /\ DOMAIN log' = 1 .. Len(log) + 1 /\ DOMAIN log = 1 .. Len(log) /\ Len(log) \in Nat
            /\ \A i \in 1 .. Len(log) : log'[i] = log[i]
            /\ log'[Len(log) + 1].event # "Press"
        BY <1>10, AppendLog
      <3> QED
        BY <3>1 DEF Stale
    <2>2. ~Produced("Press")
      BY <1>10, AppendLog DEF Produced
    <2>3. \A i \in DOMAIN log' : log'[i].chord <= chords
      BY <1>10, AppendLog DEF StaleInv
    <2>4. \A i \in DOMAIN raw' :
            /\ raw'[i].chord <= chords
            /\ raw'[i].key = "F24Down" /\ Stale(log', raw'[i].chord) => recording' \/ cooldown' > 0
      BY <1>2, <1>6, <1>8, <1>10, <2>1 DEF StaleInv
    <2>5. \A d \in Devices : \A i \in DOMAIN pending[d] :
            /\ pending[d][i].age <= Lag[d] /\ pending[d][i].chord <= chords
            /\ pending[d][i].key = "F24Down" /\ Stale(log', pending[d][i].chord) =>
                recording' \/ cooldown' + pending[d][i].age >= Cooldown
      BY <1>6, <1>7, <1>10, <2>1 DEF StaleInv
    <2> QED
      BY <1>1, <1>5, <2>2, <2>3, <2>4, <2>5 DEF StaleInv, Stale
  <1>11. ASSUME recording' = recording, cooldown' = cooldown, log' = log
         PROVE  StaleInv' /\ ~Produced("Press")
    BY <1>1, <1>2, <1>5, <1>11 DEF StaleInv, Stale, Produced
  <1>12. log # << >> => ReleasedChord <= chords
    <2> SUFFICES ASSUME log # << >>
                 PROVE  ReleasedChord <= chords
      OBVIOUS
    <2>1. Len(log) \in DOMAIN log
      BY LenProperties, EmptySeq DEF TypeOK
    <2> QED
      BY <2>1 DEF StaleInv, ReleasedChord
  <1> QED
    BY <1>3, <1>4, <1>9, <1>10, <1>11, <1>12, ReceiveEffects DEF HotkeyEvents

LEMMA TickStale ==
  ASSUME TypeOK, StaleInv, Roomy, Tick
  PROVE  StaleInv'
  <1>1. /\ UNCHANGED <<userVars, raw, recording, release_phase, outVars>>
        /\ cooldown' = Down(cooldown)
        /\ \A d \in Devices :
              /\ DOMAIN pending'[d] = DOMAIN pending[d]
              /\ \A i \in DOMAIN pending[d] :
                   /\ pending'[d][i].key = pending[d][i].key
                   /\ pending'[d][i].chord = pending[d][i].chord
                   /\ pending'[d][i].age = pending[d][i].age + 1
                   /\ pending[d][i].age < Lag[d]
    BY TickCases
  <1>2. chords' = chords /\ log' = log
    BY <1>1 DEF userVars, outVars
  <1>3. raw = << >>
    BY DEF Tick, Parked, Roomy
  <1>4. ASSUME NEW d \in Devices, NEW i \in DOMAIN pending[d]
        PROVE  /\ pending'[d][i].age <= Lag[d] /\ pending'[d][i].chord <= chords
               /\ pending'[d][i].key = "F24Down" /\ Stale(log, pending'[d][i].chord) =>
                    recording \/ cooldown' + pending'[d][i].age >= Cooldown
    <2>1. pending[d][i].age \in Nat
      <3>1. pending[d][i] \in TimedKey
        BY DEF TypeOK
      <3> QED
        BY <3>1 DEF TimedKey
    <2>2. Lag[d] \in Nat /\ Cooldown \in Nat /\ cooldown \in Nat
      BY HotkeyAssumption DEF TypeOK
    <2>3. /\ pending[d][i].chord <= chords
          /\ pending[d][i].key = "F24Down" /\ Stale(log, pending[d][i].chord) =>
               recording \/ cooldown + pending[d][i].age >= Cooldown
          /\ pending[d][i].age <= Lag[d]
      BY DEF StaleInv
    <2>4. cooldown' + (pending[d][i].age + 1) >= cooldown + pending[d][i].age
      BY <1>1, <2>1, <2>2 DEF Down
    <2>5. cooldown' \in Nat
      BY <1>1, <2>2 DEF Down
    <2> QED
      BY <1>1, <2>1, <2>2, <2>3, <2>4, <2>5
  <1>5. /\ release_phase' # "Idle" => log # << >>
        /\ \A i \in DOMAIN log : log[i].chord <= chords
    BY <1>1 DEF StaleInv
  <1> QED
    BY <1>1, <1>2, <1>3, <1>4, <1>5 DEF StaleInv

\* A step keeps the invariant, and a recording it starts is a new chord's.
LEMMA StaleNext ==
  ASSUME TypeOK, StaleInv, QuickMirrors, Roomy, [Next]_vars
  PROVE  /\ StaleInv'
         /\ Produced("Press") => log' # << >> /\ ~Stale(log, log'[Len(log')].chord)
  <1>1. CASE User
    BY <1>1, UserStale DEF User, PressAlt, PressSpace, ReleaseSpace, ReleaseAlt, Produced, outVars
  <1>2. ASSUME NEW d \in Devices, read_keyboard_events(d)
        PROVE  StaleInv' /\ ~Produced("Press")
    BY <1>2, ReadStale DEF read_keyboard_events, Produced, outVars
  <1>3. ASSUME NEW d \in Devices, Unplug(d) \/ Rescan(d)
        PROVE  StaleInv' /\ ~Produced("Press")
    <2>1. /\ UNCHANGED <<chords, raw, stateVars, outVars>>
          /\ \A e \in Devices : pending'[e] \in {pending[e], << >>}
      BY <1>3 DEF Unplug, Rescan, TypeOK, userVars
    <2> QED
      BY <2>1 DEF StaleInv, Produced, stateVars, outVars
  <1>4. CASE settle
    <2>1. /\ log # << >> /\ ReleasedChord \in Nat
          /\ log' = Append(log, [event |-> "ReleaseCompleted", chord |-> ReleasedChord])
          /\ UNCHANGED <<chords, pending, raw, recording, cooldown>> /\ release_phase' = "Idle"
      BY <1>4, ReleasedType DEF settle, SettleDue, EndRelease, Produce, StaleInv, userVars, deviceVars
    <2>2. ReleasedChord <= chords
      <3>1. Len(log) \in DOMAIN log
        BY <2>1, LenProperties, EmptySeq DEF TypeOK
      <3> QED
        BY <3>1 DEF StaleInv, ReleasedChord
    <2>3. \A c \in Nat : Stale(log', c) <=> Stale(log, c)
      <3>1. /\ DOMAIN log' = 1 .. Len(log) + 1 /\ DOMAIN log = 1 .. Len(log) /\ Len(log) \in Nat
            /\ \A i \in 1 .. Len(log) : log'[i] = log[i]
            /\ log'[Len(log) + 1].event = "ReleaseCompleted"
        BY <2>1, AppendLog DEF HotkeyEvents
      <3> QED
        BY <3>1 DEF Stale
    <2>4. ~Produced("Press")
      BY <2>1, AppendLog DEF Produced, HotkeyEvents
    <2>5. \A i \in DOMAIN log' : log'[i].chord <= chords
      BY <2>1, <2>2, AppendLog DEF StaleInv, HotkeyEvents
    <2>6. /\ \A d \in Devices : \A i \in DOMAIN pending[d] : pending[d][i].chord \in Nat
          /\ \A i \in DOMAIN raw : raw[i].chord \in Nat
      <3>1. ASSUME NEW d \in Devices, NEW i \in DOMAIN pending[d]
            PROVE  pending[d][i] \in TimedKey
        BY DEF TypeOK
      <3>2. ASSUME NEW i \in DOMAIN raw
            PROVE  raw[i] \in Key
        BY DEF TypeOK
      <3> QED
        BY <3>1, <3>2 DEF TimedKey, Key
    <2> QED
      BY <2>1, <2>3, <2>4, <2>5, <2>6 DEF StaleInv
  <1>5. CASE Send \/ Recv
    BY <1>5 DEF Send, Recv, StaleInv, Stale, Produced, userVars, deviceVars, stateVars
  <1>6. CASE UNCHANGED vars
    BY <1>6 DEF vars, StaleInv, Stale, Produced, userVars, deviceVars, stateVars, outVars
  <1>7. CASE Tick
    BY <1>7, TickStale, TickCases DEF Produced, outVars
  <1> QED
    BY <1>1, <1>2, <1>3, <1>4, <1>5, <1>6, <1>7, ReceiveStale DEF Next, Machine

\* A mirrored F24 sequence starts no recording of its own, however many mirrors
\* there are and whichever device disappears, if their readers are faster than
\* the cooldown and the event channel is never full (hotkey.rs:46, 78-108).
THEOREM MirrorsIgnored ==
  ASSUME QuickMirrors
  PROVE  Spec /\ []Roomy => NoPhantomPress
  <1>1. Init => StaleInv
    BY HotkeyAssumption DEF Init, StaleInv
  <1>2. TypeOK /\ StaleInv /\ Roomy /\ [Next]_vars => StaleInv'
    BY StaleNext
  <1>3. TypeOK /\ LogInv /\ StaleInv /\ Roomy /\ [Next]_vars =>
          [Produced("Press") =>
                \A i \in DOMAIN log : log[i].event = "Press" =>
                   log[i].chord < log'[Len(log')].chord]_vars
    <2> SUFFICES ASSUME TypeOK, LogInv, StaleInv, Roomy, [Next]_vars
                 PROVE  Produced("Press") =>
                          \A i \in DOMAIN log : log[i].event = "Press" =>
                             log[i].chord < log'[Len(log')].chord
      OBVIOUS
    <2>1. /\ StaleInv'
          /\ Produced("Press") => log' # << >> /\ ~Stale(log, log'[Len(log')].chord)
      BY StaleNext
    <2>2. ASSUME Produced("Press"), NEW i \in DOMAIN log, log[i].event = "Press"
          PROVE  log[i].chord < log'[Len(log')].chord
      <3>1. TypeOK' /\ LogInv'
        BY NextType
      <3>2. log' \in Seq([event : HotkeyEvents, chord : Nat])
        BY <3>1 DEF TypeOK
      <3>3. Len(log') \in 1 .. Len(log')
        BY <2>1, <2>2, <3>2, LenProperties, EmptySeq
      <3>4. log'[Len(log')] \in [event : HotkeyEvents, chord : Nat]
        BY <3>2, <3>3, ElementOfSeq
      <3>5. log[i].chord \in Nat
        BY LogTypes
      <3> QED
        BY <2>1, <2>2, <3>4, <3>5 DEF Stale
    <2> QED
      BY <2>2
  <1> QED
    BY <1>1, <1>2, <1>3, TypesKept, PTL DEF Spec, NoPhantomPress

-----------------------------------------------------------------------------
(* One keyboard: what lies between it and the state machine.                *)

LEMMA FlowType ==
  ASSUME NEW r \in Seq(Key), NEW p \in Seq(TimedKey)
  PROVE  /\ Flow(r, p) \in Seq(Key) /\ Len(Flow(r, p)) = Len(r) + Len(p)
         /\ Flow(r, p) \in [1 .. Len(r) + Len(p) -> Key]
         /\ Len(r) \in Nat /\ Len(p) \in Nat
  <1> DEFINE n == Len(r) + Len(p)
  <1>1. /\ Len(r) \in Nat /\ Len(p) \in Nat /\ n \in Nat
        /\ \A i \in 1 .. Len(r) : r[i] \in Key
        /\ \A i \in 1 .. Len(p) : p[i] \in TimedKey
    BY LenProperties
  <1>2. ASSUME NEW i \in 1 .. n
        PROVE  (IF i <= Len(r) THEN r[i]
                ELSE [key |-> p[i - Len(r)].key, chord |-> p[i - Len(r)].chord]) \in Key
    <2>1. CASE i <= Len(r)
      BY <1>1, <2>1
    <2>2. CASE ~(i <= Len(r))
      <3>1. p[i - Len(r)] \in TimedKey
        BY <1>1, <2>2
      <3> QED
        BY <2>2, <3>1 DEF TimedKey, Key
    <2> QED
      BY <2>1, <2>2
  <1>3. Flow(r, p) \in [1 .. n -> Key]
    BY <1>2 DEF Flow
  <1> HIDE DEF n
  <1>4. Flow(r, p) \in Seq(Key) /\ Len(Flow(r, p)) = n
    BY <1>1, <1>3, IsASeq, LenProperties
  <1> QED
    BY <1>1, <1>3, <1>4 DEF n

\* A transition at the device is a transition at the end.
LEMMA FlowAppend ==
  ASSUME NEW r \in Seq(Key), NEW p \in Seq(TimedKey), NEW key \in Keys, NEW chord \in Nat, NEW age \in Nat
  PROVE  Flow(r, Append(p, [key |-> key, chord |-> chord, age |-> age])) =
           Append(Flow(r, p), [key |-> key, chord |-> chord])
  <1> DEFINE e == [key |-> key, chord |-> chord, age |-> age]
             f == [key |-> key, chord |-> chord]
             q == Append(p, e)
             n == Len(r) + Len(p)
  <1>1. e \in TimedKey /\ f \in Key /\ e.key = key /\ e.chord = chord
    BY DEF TimedKey, Key
  <1>2. f = [key |-> e.key, chord |-> e.chord]
    BY <1>1
  <1> HIDE DEF e, f
  <1>3. /\ q \in Seq(TimedKey) /\ Len(q) = Len(p) + 1 /\ Len(p) \in Nat /\ Len(r) \in Nat /\ n \in Nat
        /\ \A i \in 1 .. Len(p) : q[i] = p[i]
        /\ q[Len(p) + 1] = e
    BY <1>1, AppendProperties, LenProperties
  <1>4. /\ Flow(r, p) \in Seq(Key) /\ Len(Flow(r, p)) = n
        /\ Flow(r, q) \in [1 .. n + 1 -> Key]
    <2>1. Len(r) + Len(q) = n + 1
      BY <1>3
    <2>2. Flow(r, q) \in [1 .. Len(r) + Len(q) -> Key]
      BY <1>3, FlowType
    <2> QED
      BY <2>1, <2>2, FlowType
  <1>5. /\ Append(Flow(r, p), f) \in [1 .. n + 1 -> Key]
        /\ \A i \in 1 .. n : Append(Flow(r, p), f)[i] = Flow(r, p)[i]
        /\ Append(Flow(r, p), f)[n + 1] = f
    <2>1. /\ Append(Flow(r, p), f) \in Seq(Key) /\ Len(Append(Flow(r, p), f)) = n + 1
          /\ \A i \in 1 .. n : Append(Flow(r, p), f)[i] = Flow(r, p)[i]
          /\ Append(Flow(r, p), f)[n + 1] = f
      BY <1>1, <1>3, <1>4, AppendProperties
    <2> QED
      BY <2>1, LenProperties
  <1>6. ASSUME NEW i \in 1 .. n + 1
        PROVE  Flow(r, q)[i] = Append(Flow(r, p), f)[i]
    <2>1. Flow(r, q)[i] = IF i <= Len(r) THEN r[i]
                          ELSE [key |-> q[i - Len(r)].key, chord |-> q[i - Len(r)].chord]
      BY <1>3 DEF Flow
    <2>2. CASE i = n + 1
      <3>1. i - Len(r) = Len(p) + 1 /\ ~(i <= Len(r))
        BY <1>3, <2>2
      <3>2. q[i - Len(r)] = e
        BY <1>3, <3>1
      <3> QED
        BY <1>2, <1>5, <2>1, <2>2, <3>1, <3>2
    <2>3. CASE i # n + 1
      <3>1. i \in 1 .. n
        BY <1>3, <2>3
      <3>2. Flow(r, p)[i] = IF i <= Len(r) THEN r[i]
                            ELSE [key |-> p[i - Len(r)].key, chord |-> p[i - Len(r)].chord]
        BY <3>1 DEF Flow
      <3>3. ~(i <= Len(r)) => q[i - Len(r)] = p[i - Len(r)]
        BY <1>3, <3>1
      <3> QED
        BY <1>5, <2>1, <3>1, <3>2, <3>3
    <2> QED
      BY <2>2, <2>3
  <1> HIDE DEF n, q
  <1>7. Flow(r, q) = Append(Flow(r, p), f)
    BY <1>4, <1>5, <1>6
  <1> QED
    BY <1>7 DEF q, e, f

\* Read from the device into the channel it lies where it was.
LEMMA FlowMove ==
  ASSUME NEW r \in Seq(Key), NEW p \in Seq(TimedKey), p # << >>
  PROVE  Flow(Append(r, [key |-> p[1].key, chord |-> p[1].chord]), Tail(p)) = Flow(r, p)
  <1> DEFINE f == [key |-> p[1].key, chord |-> p[1].chord]
             s == Append(r, f)
             q == Tail(p)
             n == Len(r) + Len(p)
  <1>1. /\ q \in Seq(TimedKey) /\ Len(q) = Len(p) - 1 /\ Len(p) \in Nat \ {0} /\ Len(r) \in Nat
        /\ \A i \in 1 .. Len(q) : q[i] = p[i + 1]
    BY HeadTailProperties, LenProperties, EmptySeq
  <1>2. p[1] \in TimedKey
    BY <1>1, LenProperties
  <1>3. f \in Key
    BY <1>2 DEF TimedKey, Key
  <1> HIDE DEF q
  <1>4. f = [key |-> p[1].key, chord |-> p[1].chord]
    OBVIOUS
  <1> HIDE DEF f
  <1>5. /\ s \in Seq(Key) /\ Len(s) = Len(r) + 1
        /\ \A i \in 1 .. Len(r) : s[i] = r[i]
        /\ s[Len(r) + 1] = f
    BY <1>3, AppendProperties, LenProperties
  <1> HIDE DEF s
  <1>6. n \in Nat /\ Len(s) + Len(q) = n
    BY <1>1, <1>5
  <1>7. Flow(s, q) \in [1 .. n -> Key] /\ Flow(r, p) \in [1 .. n -> Key]
    <2>1. Flow(s, q) \in [1 .. Len(s) + Len(q) -> Key]
      BY <1>1, <1>5, FlowType
    <2> QED
      BY <1>6, <2>1, FlowType
  <1>8. ASSUME NEW i \in 1 .. n
        PROVE  Flow(s, q)[i] = Flow(r, p)[i]
    <2>1. Flow(s, q)[i] = IF i <= Len(s) THEN s[i]
                          ELSE [key |-> q[i - Len(s)].key, chord |-> q[i - Len(s)].chord]
      BY <1>6 DEF Flow
    <2>2. Flow(r, p)[i] = IF i <= Len(r) THEN r[i]
                          ELSE [key |-> p[i - Len(r)].key, chord |-> p[i - Len(r)].chord]
      BY DEF Flow
    <2>3. CASE i <= Len(r)
      BY <1>1, <1>5, <2>1, <2>2, <2>3
    <2>4. CASE i = Len(r) + 1
      <3>1. ~(i <= Len(r)) /\ i - Len(r) = 1 /\ i <= Len(s)
        BY <1>1, <1>5, <2>4
      <3> QED
        BY <1>4, <1>5, <2>1, <2>2, <2>4, <3>1
    <2>5. CASE i > Len(r) + 1
      <3>1. ~(i <= Len(r)) /\ ~(i <= Len(s)) /\ i - Len(s) \in 1 .. Len(q) /\ (i - Len(s)) + 1 = i - Len(r)
        BY <1>1, <1>5, <1>6, <2>5
      <3>2. q[i - Len(s)] = p[i - Len(r)]
        BY <1>1, <3>1
      <3> QED
        BY <2>1, <2>2, <3>1, <3>2
    <2> QED
      BY <1>1, <2>3, <2>4, <2>5
  <1> HIDE DEF n
  <1>9. Flow(s, q) = Flow(r, p)
    <2> DEFINE a == Flow(s, q)
               b == Flow(r, p)
               D == 1 .. n
    <2>1. a \in [D -> Key] /\ b \in [D -> Key] /\ \A i \in D : a[i] = b[i]
      BY <1>7, <1>8
    <2> HIDE DEF a, b, D
    <2>2. a = b
      BY <2>1
    <2> QED
      BY <2>2 DEF a, b
  <1> QED
    BY <1>9 DEF s, q, f

\* The state machine takes the first of all.
LEMMA FlowTail ==
  ASSUME NEW r \in Seq(Key), NEW p \in Seq(TimedKey), r # << >>
  PROVE  /\ Flow(r, p) # << >> /\ Flow(r, p)[1] = r[1]
         /\ Flow(Tail(r), p) = Tail(Flow(r, p))
  <1> DEFINE q == Tail(r)
             n == Len(r) + Len(p)
             s == Flow(r, p)
  <1>1. /\ q \in Seq(Key) /\ Len(q) = Len(r) - 1 /\ Len(r) \in Nat \ {0} /\ Len(p) \in Nat
        /\ \A i \in 1 .. Len(q) : q[i] = r[i + 1]
    BY HeadTailProperties, LenProperties, EmptySeq
  <1> HIDE DEF q
  <1>2. n \in Nat \ {0} /\ Len(q) + Len(p) = n - 1
    BY <1>1
  <1>3. s \in Seq(Key) /\ Len(s) = n
    BY FlowType
  <1>4. s # << >> /\ s[1] = r[1]
    <2>1. s[1] = r[1]
      BY <1>1, <1>2 DEF Flow
    <2> HIDE DEF s
    <2> QED
      BY <1>2, <1>3, <2>1
  <1>5. Tail(s) \in [1 .. n - 1 -> Key] /\ \A i \in 1 .. n - 1 : Tail(s)[i] = s[i + 1]
    <2> HIDE DEF s, n
    <2>1. Tail(s) \in Seq(Key) /\ Len(Tail(s)) = n - 1 /\ \A i \in 1 .. n - 1 : Tail(s)[i] = s[i + 1]
      BY <1>3, <1>4, HeadTailProperties
    <2> QED
      BY <2>1, LenProperties
  <1>6. Flow(q, p) \in [1 .. n - 1 -> Key]
    <2>1. Flow(q, p) \in [1 .. Len(q) + Len(p) -> Key]
      BY <1>1, FlowType
    <2> QED
      BY <1>2, <2>1
  <1>7. ASSUME NEW i \in 1 .. n - 1
        PROVE  Flow(q, p)[i] = s[i + 1]
    <2>1. Flow(q, p)[i] = IF i <= Len(q) THEN q[i]
                          ELSE [key |-> p[i - Len(q)].key, chord |-> p[i - Len(q)].chord]
      BY <1>2 DEF Flow
    <2>2. i + 1 \in 1 .. n
      BY <1>2
    <2>3. s[i + 1] = IF i + 1 <= Len(r) THEN r[i + 1]
                     ELSE [key |-> p[(i + 1) - Len(r)].key, chord |-> p[(i + 1) - Len(r)].chord]
      BY <2>2 DEF Flow
    <2>4. (i <= Len(q) <=> i + 1 <= Len(r)) /\ i - Len(q) = (i + 1) - Len(r)
      BY <1>1
    <2>5. i <= Len(q) => q[i] = r[i + 1]
      BY <1>1, <1>2
    <2> QED
      BY <2>1, <2>3, <2>4, <2>5
  <1>8. Flow(q, p) = Tail(s)
    <2> HIDE DEF n, s
    <2> DEFINE a == Flow(q, p)
               b == Tail(s)
               D == 1 .. n - 1
    <2>1. a \in [D -> Key] /\ b \in [D -> Key] /\ \A i \in D : a[i] = b[i]
      BY <1>5, <1>6, <1>7
    <2> HIDE DEF a, b, D
    <2>2. a = b
      BY <2>1
    <2> QED
      BY <2>2 DEF a, b
  <1> QED
    BY <1>4, <1>8 DEF q

-----------------------------------------------------------------------------
(* What the actions do to the stream.                                       *)

After(s, key, chord) == IF key = NoKey THEN s ELSE Append(s, [key |-> key, chord |-> chord])

LEMMA StreamType == TypeOK => Stream \in Seq(Key) /\ raw \in Seq(Key) /\ pending[Keyd] \in Seq(TimedKey)
                              /\ Len(Stream) = Len(raw) + Len(pending[Keyd])
                              /\ Len(raw) \in Nat /\ Len(pending[Keyd]) \in Nat
  BY FlowType, HotkeyAssumption DEF Stream, TypeOK

LEMMA OutputStream ==
  ASSUME TypeOK, NEW first \in Keys \cup {NoKey}, NEW second \in Keys \cup {NoKey},
         NEW chord \in Nat, Output(first, second, chord), monitored[Keyd], UNCHANGED raw
  PROVE  Stream' = After(After(Stream, first, chord), second, chord)
  <1>1. ASSUME NEW p \in Seq(TimedKey), NEW key \in Keys \cup {NoKey}
        PROVE  Flow(raw, Buffered(p, Keyd, key, chord)) = After(Flow(raw, p), key, chord)
    <2>1. CASE key = NoKey
      BY <2>1 DEF Buffered, After
    <2>2. CASE key # NoKey
      BY <2>2, StreamType, FlowAppend DEF Buffered, After, raw_event
    <2> QED
      BY <2>1, <2>2
  <1> DEFINE mid == Buffered(pending[Keyd], Keyd, first, chord)
  <1>2. mid \in Seq(TimedKey) /\ Flow(raw, mid) = After(Stream, first, chord)
    BY <1>1, StreamType, BufferedType DEF Stream
  <1>3. pending'[Keyd] = Buffered(mid, Keyd, second, chord)
    BY HotkeyAssumption DEF Output
  <1> HIDE DEF mid
  <1>4. Flow(raw, pending'[Keyd]) = After(After(Stream, first, chord), second, chord)
    BY <1>1, <1>2, <1>3
  <1> QED
    BY <1>4 DEF Stream

LEMMA ReadStream == TypeOK /\ read_keyboard_events(Keyd) => Stream' = Stream
  BY ReadCases, FlowMove, HotkeyAssumption DEF Stream

LEMMA ReceiveStream ==
  ASSUME TypeOK, Receive
  PROVE  Stream # << >> /\ Stream[1] = raw[1] /\ Stream' = Tail(Stream)
  <1>1. raw # << >> /\ raw' = Tail(raw) /\ pending' = pending
    BY TailRaw DEF deviceVars
  <1>2. Flow(Tail(raw), pending[Keyd]) = Tail(Stream)
    BY <1>1, FlowTail, StreamType DEF Stream
  <1>3. Stream' = Flow(Tail(raw), pending[Keyd])
    BY <1>1 DEF Stream
  <1> QED
    BY <1>1, <1>2, <1>3, FlowTail, StreamType DEF Stream

LEMMA TickStream == TypeOK /\ Tick => Stream' = Stream
  <1> SUFFICES ASSUME TypeOK, Tick
               PROVE  Stream' = Stream
    OBVIOUS
  <1>1. /\ raw' = raw /\ Len(pending'[Keyd]) = Len(pending[Keyd])
        /\ \A i \in DOMAIN pending[Keyd] : /\ pending'[Keyd][i].key = pending[Keyd][i].key
                                           /\ pending'[Keyd][i].chord = pending[Keyd][i].chord
    BY TickCases, HotkeyAssumption
  <1>2. \A i \in 1 .. Len(raw) + Len(pending[Keyd]) : ~(i <= Len(raw)) => i - Len(raw) \in DOMAIN pending[Keyd]
    BY StreamType
  <1> QED
    BY <1>1, <1>2 DEF Stream, Flow

-----------------------------------------------------------------------------
(* The cycle: the F24 transitions in a sequence, one appended, one taken.    *)

LEMMA AppendOther ==
  ASSUME NEW s \in Seq(Key), NEW e \in Key, e.key \notin F24Keys, NEW i \in DOMAIN Append(s, e)
  PROVE  /\ First(Append(s, e), F24Keys, i) => i \in DOMAIN s /\ First(s, F24Keys, i)
         /\ Last(Append(s, e), F24Keys, i) => i \in DOMAIN s /\ Last(s, F24Keys, i)
         /\ Append(s, e)[i].key \in F24Keys => i \in DOMAIN s
         /\ i \in DOMAIN s => Append(s, e)[i] = s[i]
         /\ Alternate(s) => Alternate(Append(s, e))
         /\ Without(Append(s, e), F24Keys) => Without(s, F24Keys)
  <1> DEFINE t == Append(s, e)
  <1>1. /\ Len(s) \in Nat /\ DOMAIN t = 1 .. Len(s) + 1 /\ DOMAIN s = 1 .. Len(s) /\ Len(t) = Len(s) + 1
        /\ \A k \in 1 .. Len(s) : t[k] = s[k]
        /\ t[Len(s) + 1] = e
    BY AppendProperties, LenProperties
  <1> HIDE DEF t
  <1>2. i \in DOMAIN t
    BY DEF t
  <1>3. t[i].key \in F24Keys => i \in 1 .. Len(s)
    BY <1>1, <1>2
  <1>4. First(t, F24Keys, i) => i \in DOMAIN s /\ First(s, F24Keys, i)
    BY <1>1, <1>2, <1>3 DEF First
  <1>5. Last(t, F24Keys, i) => i \in DOMAIN s /\ Last(s, F24Keys, i)
    BY <1>1, <1>2, <1>3 DEF Last
  <1>6. ASSUME Alternate(s), NEW j \in DOMAIN t, NEW k \in DOMAIN t, Adjacent(t, F24Keys, j, k)
        PROVE  Follows(t[j], t[k])
    <2>1. j \in 1 .. Len(s) /\ k \in 1 .. Len(s)
      BY <1>1, <1>6 DEF Adjacent
    <2>2. Adjacent(s, F24Keys, j, k)
      BY <1>1, <1>6, <2>1 DEF Adjacent
    <2>3. Follows(s[j], s[k])
      BY <1>1, <1>6, <2>1, <2>2 DEF Alternate
    <2> QED
      BY <1>1, <2>1, <2>3
  <1>7. Without(t, F24Keys) => Without(s, F24Keys)
    BY <1>1 DEF Without
  <1> QED
    BY <1>1, <1>3, <1>4, <1>5, <1>6, <1>7 DEF t, Alternate

LEMMA AppendF24 ==
  ASSUME NEW s \in Seq(Key), NEW e \in Key, e.key \in F24Keys, NEW i \in DOMAIN Append(s, e),
         \A k \in DOMAIN s : Last(s, F24Keys, k) => Follows(s[k], e)
  PROVE  /\ First(Append(s, e), F24Keys, i) =>
              \/ i \in DOMAIN s /\ First(s, F24Keys, i)
              \/ Without(s, F24Keys) /\ Append(s, e)[i] = e
         /\ Last(Append(s, e), F24Keys, i) => Append(s, e)[i] = e
         /\ i \in DOMAIN s => Append(s, e)[i] = s[i]
         /\ i \notin DOMAIN s => Append(s, e)[i] = e
         /\ Alternate(s) => Alternate(Append(s, e))
         /\ ~Without(Append(s, e), F24Keys)
  <1> DEFINE t == Append(s, e)
  <1>1. /\ Len(s) \in Nat /\ DOMAIN t = 1 .. Len(s) + 1 /\ DOMAIN s = 1 .. Len(s) /\ Len(t) = Len(s) + 1
        /\ \A k \in 1 .. Len(s) : t[k] = s[k]
        /\ t[Len(s) + 1] = e
    BY AppendProperties, LenProperties
  <1> HIDE DEF t
  <1>2. i \in DOMAIN t
    BY DEF t
  <1>3. ASSUME First(t, F24Keys, i)
        PROVE  \/ i \in DOMAIN s /\ First(s, F24Keys, i)
               \/ Without(s, F24Keys) /\ t[i] = e
    <2>1. CASE i = Len(s) + 1
      BY <1>1, <1>3, <2>1 DEF First, Without
    <2>2. CASE i \in 1 .. Len(s)
      BY <1>1, <1>3, <2>2 DEF First
    <2> QED
      BY <1>1, <1>2, <2>1, <2>2
  <1>4. Last(t, F24Keys, i) => t[i] = e
    BY <1>1, <1>2 DEF Last
  <1>5. ASSUME Alternate(s), NEW j \in DOMAIN t, NEW k \in DOMAIN t, Adjacent(t, F24Keys, j, k)
        PROVE  Follows(t[j], t[k])
    <2>1. j \in 1 .. Len(s)
      BY <1>1, <1>5 DEF Adjacent
    <2>2. CASE k = Len(s) + 1
      <3>1. Last(s, F24Keys, j)
        BY <1>1, <1>5, <2>1, <2>2 DEF Adjacent, Last
      <3>2. Follows(s[j], e)
        BY <1>1, <2>1, <3>1
      <3> QED
        BY <1>1, <2>1, <2>2, <3>2
    <2>3. CASE k \in 1 .. Len(s)
      <3>1. Adjacent(s, F24Keys, j, k)
        BY <1>1, <1>5, <2>1, <2>3 DEF Adjacent
      <3>2. Follows(s[j], s[k])
        BY <1>1, <1>5, <2>1, <2>3, <3>1 DEF Alternate
      <3> QED
        BY <1>1, <2>1, <2>3, <3>2
    <2> QED
      BY <1>1, <1>5, <2>2, <2>3
  <1>6. ~Without(t, F24Keys)
    BY <1>1 DEF Without
  <1> QED
    BY <1>1, <1>2, <1>3, <1>4, <1>5, <1>6 DEF t, Alternate

LEMMA TailF24 ==
  ASSUME NEW s \in Seq(Key), s # << >>
  PROVE  /\ Alternate(s) => Alternate(Tail(s))
         /\ \A i \in DOMAIN Tail(s) :
              /\ i + 1 \in DOMAIN s /\ Tail(s)[i] = s[i + 1]
              /\ Last(Tail(s), F24Keys, i) => Last(s, F24Keys, i + 1)
              /\ First(Tail(s), F24Keys, i) =>
                   IF s[1].key \in F24Keys THEN Adjacent(s, F24Keys, 1, i + 1) ELSE First(s, F24Keys, i + 1)
         /\ 1 \in DOMAIN s
         /\ s[1].key \in F24Keys => First(s, F24Keys, 1)
         /\ Without(Tail(s), F24Keys) =>
              IF s[1].key \in F24Keys THEN Last(s, F24Keys, 1) ELSE Without(s, F24Keys)
  <1> DEFINE t == Tail(s)
  <1>1. /\ Len(t) = Len(s) - 1 /\ Len(s) \in Nat \ {0}
        /\ DOMAIN t = 1 .. Len(s) - 1 /\ DOMAIN s = 1 .. Len(s)
        /\ \A i \in 1 .. Len(s) - 1 : t[i] = s[i + 1]
    BY HeadTailProperties, LenProperties, EmptySeq
  <1> HIDE DEF t
  <1>2. \A k \in 2 .. Len(s) : k - 1 \in DOMAIN t /\ t[k - 1] = s[k]
    BY <1>1
  <1>3. ASSUME NEW i \in DOMAIN t
        PROVE  /\ i + 1 \in DOMAIN s /\ t[i] = s[i + 1]
               /\ Last(t, F24Keys, i) => Last(s, F24Keys, i + 1)
               /\ First(t, F24Keys, i) =>
                    IF s[1].key \in F24Keys THEN Adjacent(s, F24Keys, 1, i + 1) ELSE First(s, F24Keys, i + 1)
    <2>1. i + 1 \in DOMAIN s /\ t[i] = s[i + 1] /\ i \in Nat
      BY <1>1
    <2>2. ASSUME Last(t, F24Keys, i), NEW k \in (i + 1) + 1 .. Len(s)
          PROVE  s[k].key \notin F24Keys
      <3>1. k \in 2 .. Len(s) /\ k - 1 \in i + 1 .. Len(t)
        BY <1>1, <2>1
      <3> QED
        BY <1>2, <2>2, <3>1 DEF Last
    <2>3. ASSUME First(t, F24Keys, i), NEW k \in 2 .. (i + 1) - 1
          PROVE  s[k].key \notin F24Keys
      <3>1. k \in 2 .. Len(s) /\ k - 1 \in 1 .. i - 1
        BY <1>1, <2>1
      <3> QED
        BY <1>2, <2>3, <3>1 DEF First
    <2>4. Last(t, F24Keys, i) => Last(s, F24Keys, i + 1)
      BY <2>1, <2>2 DEF Last
    <2>5. First(t, F24Keys, i) /\ s[1].key \in F24Keys => Adjacent(s, F24Keys, 1, i + 1)
      <3>1. 1 + 1 = 2 /\ 1 < i + 1
        BY <1>1
      <3> QED
        BY <2>1, <2>3, <3>1 DEF First, Adjacent
    <2>6. First(t, F24Keys, i) /\ s[1].key \notin F24Keys => First(s, F24Keys, i + 1)
      <3>1. \A k \in 1 .. (i + 1) - 1 : k = 1 \/ k \in 2 .. (i + 1) - 1
        BY <2>1
      <3> QED
        BY <2>1, <2>3, <3>1 DEF First
    <2> QED
      BY <2>1, <2>4, <2>5, <2>6
  <1>4. ASSUME Alternate(s), NEW i \in DOMAIN t, NEW j \in DOMAIN t, Adjacent(t, F24Keys, i, j)
        PROVE  Follows(t[i], t[j])
    <2>1. i + 1 \in DOMAIN s /\ j + 1 \in DOMAIN s /\ t[i] = s[i + 1] /\ t[j] = s[j + 1]
          /\ i \in Nat /\ j \in Nat /\ i < j
      BY <1>1, <1>4 DEF Adjacent
    <2>2. ASSUME NEW k \in (i + 1) + 1 .. (j + 1) - 1
          PROVE  s[k].key \notin F24Keys
      <3>1. k \in 2 .. Len(s) /\ k - 1 \in i + 1 .. j - 1
        BY <1>1, <2>1
      <3> QED
        BY <1>2, <1>4, <3>1 DEF Adjacent
    <2>3. Adjacent(s, F24Keys, i + 1, j + 1)
      BY <1>4, <2>1, <2>2 DEF Adjacent
    <2> QED
      BY <1>4, <2>1, <2>3 DEF Alternate
  <1>5. 1 \in DOMAIN s
    BY <1>1
  <1>6. s[1].key \in F24Keys => First(s, F24Keys, 1)
    BY DEF First
  <1>7. ASSUME Without(t, F24Keys)
        PROVE  IF s[1].key \in F24Keys THEN Last(s, F24Keys, 1) ELSE Without(s, F24Keys)
    <2>1. \A k \in 2 .. Len(s) : s[k].key \notin F24Keys
      BY <1>2, <1>7 DEF Without
    <2>2. \A k \in DOMAIN s : k = 1 \/ k \in 2 .. Len(s)
      BY <1>1
    <2> QED
      BY <1>1, <2>1, <2>2 DEF Last, Without
  <1> QED
    BY <1>3, <1>4, <1>5, <1>6, <1>7 DEF t, Alternate

-----------------------------------------------------------------------------
(* The cycle: the user's transitions.                                       *)

LEMMA AfterType ==
  ASSUME NEW s \in Seq(Key), NEW key \in Keys \cup {NoKey}, NEW chord \in Nat
  PROVE  /\ After(s, key, chord) \in Seq(Key)
         /\ key # NoKey => [key |-> key, chord |-> chord] \in Key
  <1>1. key # NoKey => [key |-> key, chord |-> chord] \in Key
    BY DEF Key
  <1> QED
    BY <1>1 DEF After

\* A transition of Alt between F24 transitions.
LEMMA AltAfter ==
  ASSUME NEW s \in Seq(Key), NEW key \in AltKeys \cup {NoKey}, NEW chord \in Nat,
         NEW t, t = After(s, key, chord)
  PROVE  /\ Alternate(s) => Alternate(t)
         /\ \A i \in DOMAIN t :
              /\ First(t, F24Keys, i) => i \in DOMAIN s /\ First(s, F24Keys, i)
              /\ Last(t, F24Keys, i) => i \in DOMAIN s /\ Last(s, F24Keys, i)
              /\ t[i].key \in F24Keys => i \in DOMAIN s
              /\ i \in DOMAIN s => t[i] = s[i]
         /\ Without(t, F24Keys) => Without(s, F24Keys)
  <1>1. CASE key = NoKey
    BY <1>1 DEF After
  <1>2. CASE key # NoKey
    <2> DEFINE e == [key |-> key, chord |-> chord]
    <2>1. e \in Key /\ e.key \notin F24Keys
      BY <1>2 DEF Key, Keys, AltKeys, F24Keys
    <2>2. t = Append(s, e)
      BY <1>2 DEF After
    <2> HIDE DEF e
    <2>3. ASSUME NEW i \in DOMAIN t
          PROVE  /\ First(t, F24Keys, i) => i \in DOMAIN s /\ First(s, F24Keys, i)
                 /\ Last(t, F24Keys, i) => i \in DOMAIN s /\ Last(s, F24Keys, i)
                 /\ t[i].key \in F24Keys => i \in DOMAIN s
                 /\ i \in DOMAIN s => t[i] = s[i]
                 /\ Alternate(s) => Alternate(t)
                 /\ Without(t, F24Keys) => Without(s, F24Keys)
      BY <2>1, <2>2, <2>3, AppendOther
    <2>4. Len(s) + 1 \in DOMAIN t
      BY <2>1, <2>2
    <2> QED
      BY <2>3, <2>4
  <1> QED
    BY <1>1, <1>2

LEMMA AltChords ==
  ASSUME NEW s \in Seq(Key), ChordInv(s), NEW key \in AltKeys \cup {NoKey}, NEW chord \in Nat
  PROVE  ChordInv(After(s, key, chord))
  <1> DEFINE t == After(s, key, chord)
  <1>1. /\ Alternate(s) => Alternate(t)
        /\ \A i \in DOMAIN t :
             /\ First(t, F24Keys, i) => i \in DOMAIN s /\ First(s, F24Keys, i)
             /\ Last(t, F24Keys, i) => i \in DOMAIN s /\ Last(s, F24Keys, i)
             /\ t[i].key \in F24Keys => i \in DOMAIN s
             /\ i \in DOMAIN s => t[i] = s[i]
        /\ Without(t, F24Keys) => Without(s, F24Keys)
    BY AltAfter
  <1> HIDE DEF t
  <1>2. ChordInv(t)
    BY <1>1 DEF ChordInv
  <1> QED
    BY <1>2 DEF t

\* The keyboard's next F24 transition.
LEMMA NextChord ==
  ASSUME TypeOK, NEW s \in Seq(Key), ChordInv(s),
         NEW e, e = NextF24, NEW t, t = Append(s, e),
         NextF24'.key \in F24Keys, Follows(e, NextF24'),
         chords' \in Nat, e.chord \in 1 .. chords', chords <= chords'
  PROVE  /\ Alternate(t)
         /\ \A i \in DOMAIN t : First(t, F24Keys, i) => Fits(t[i].key, t[i].chord)
         /\ \A i \in DOMAIN t : Last(t, F24Keys, i) => Follows(t[i], NextF24')
         /\ ~Without(t, F24Keys)
         /\ \A i \in DOMAIN t : t[i].key \in F24Keys => t[i].chord \in 1 .. chords'
  <1>1. e \in Key /\ e.key \in F24Keys /\ chords \in Nat
    BY DEF NextF24, TypeOK, Key, Keys, F24Keys
  <1>2. \A k \in DOMAIN s : Last(s, F24Keys, k) => Follows(s[k], e)
    BY DEF ChordInv
  <1>3. ASSUME NEW i \in DOMAIN t
        PROVE  /\ First(t, F24Keys, i) =>
                    \/ i \in DOMAIN s /\ First(s, F24Keys, i)
                    \/ Without(s, F24Keys) /\ t[i] = e
               /\ Last(t, F24Keys, i) => t[i] = e
               /\ i \in DOMAIN s => t[i] = s[i]
               /\ i \notin DOMAIN s => t[i] = e
               /\ Alternate(s) => Alternate(t)
               /\ ~Without(t, F24Keys)
    BY <1>1, <1>2, <1>3, AppendF24
  <1>4. \E i : i \in DOMAIN t
    BY <1>1
  <1>6. ASSUME NEW i \in DOMAIN t, First(t, F24Keys, i)
        PROVE  Fits(t[i].key, t[i].chord)
    BY <1>3, <1>6 DEF ChordInv
  <1>7. ASSUME NEW i \in DOMAIN t, t[i].key \in F24Keys
        PROVE  t[i].chord \in 1 .. chords'
    <2>1. CASE i \in DOMAIN s
      <3>1. s[i].chord \in 1 .. chords
        BY <1>3, <1>7, <2>1 DEF ChordInv
      <3> QED
        BY <1>1, <1>3, <2>1, <3>1
    <2> QED
      BY <1>3, <2>1
  <1> QED
    BY <1>3, <1>4, <1>6, <1>7 DEF ChordInv

LEMMA AltAppend ==
  ASSUME NEW s \in Seq(Key), AltFirst(s), ReleaseOver(s), NEW key \in Keys, NEW chord \in Nat,
         key = "F24Down" =>
           /\ Len(s) >= 1 /\ s[Len(s)].key = "KeydLeftAltUp"
           /\ Len(s) >= 2 => s[Len(s) - 1].key = "KeydLeftAltDown"
           /\ Len(s) = 1 => release_phase # "Settling"
  PROVE  LET t == After(s, key, chord) IN
         /\ AltFirst(t) /\ ReleaseOver(t)
         /\ t \in Seq(Key) /\ Len(t) = Len(s) + 1 /\ Len(s) \in Nat /\ t # << >>
         /\ t[Len(t)].key = key
         /\ Len(s) >= 1 => t[Len(t) - 1] = s[Len(s)]
  <1> DEFINE e == [key |-> key, chord |-> chord]
             t == Append(s, e)
  <1>1. e \in Key /\ e.key = key /\ key # NoKey
    BY DEF Key, Keys, NoKey
  <1> HIDE DEF e
  <1>2. /\ t \in Seq(Key) /\ Len(t) = Len(s) + 1 /\ Len(s) \in Nat
        /\ DOMAIN t = 1 .. Len(s) + 1 /\ DOMAIN s = 1 .. Len(s)
        /\ \A i \in 1 .. Len(s) : t[i] = s[i]
        /\ t[Len(s) + 1] = e
    BY <1>1, AppendProperties, LenProperties
  <1>3. t = After(s, key, chord)
    BY <1>1 DEF After, e
  <1> HIDE DEF t
  <1>4. AltFirst(t)
    <2> SUFFICES ASSUME NEW i \in DOMAIN t, t[i].key = "F24Down"
                 PROVE  /\ i >= 2 => t[i - 1].key = "KeydLeftAltUp"
                        /\ i >= 3 => t[i - 2].key = "KeydLeftAltDown"
      BY DEF AltFirst
    <2>1. CASE i \in 1 .. Len(s)
      <3>1. (i >= 2 => i - 1 \in 1 .. Len(s)) /\ (i >= 3 => i - 2 \in 1 .. Len(s))
        BY <1>2, <2>1
      <3> QED
        BY <1>2, <2>1, <3>1 DEF AltFirst
    <2>2. CASE i = Len(s) + 1
      <3>1. i - 1 = Len(s) /\ i - 2 = Len(s) - 1 /\ key = "F24Down"
        BY <1>1, <1>2, <2>2
      <3>2. Len(s) \in 1 .. Len(s) /\ (i >= 3 => Len(s) - 1 \in 1 .. Len(s))
        BY <1>2, <2>2, <3>1
      <3> QED
        BY <1>2, <2>2, <3>1, <3>2
    <2> QED
      BY <1>2, <2>1, <2>2
  <1>5. ReleaseOver(t)
    <2>1. Len(s) >= 1 => t[1] = s[1]
      BY <1>2
    <2>2. Len(s) >= 2 => t[2] = s[2]
      BY <1>2
    <2>3. Len(s) = 0 => t[1].key # "F24Down"
      BY <1>1, <1>2
    <2>4. Len(s) = 1 => (t[2].key = "F24Down" => release_phase # "Settling")
      BY <1>1, <1>2
    <2> QED
      BY <1>2, <2>1, <2>2, <2>3, <2>4 DEF ReleaseOver
  <1>6. t # << >> /\ Len(t) = Len(s) + 1 /\ t[Len(t)].key = key /\ (Len(s) >= 1 => t[Len(t) - 1] = s[Len(s)])
    BY <1>1, <1>2
  <1> QED
    BY <1>2, <1>3, <1>4, <1>5, <1>6

\* No action of the user leaves the pattern.
LEMMA UserCycle == TypeOK /\ CycleInv /\ User => CycleInv'
  <1> SUFFICES ASSUME TypeOK, CycleInv, User
               PROVE  CycleInv'
    OBVIOUS
  <1> DEFINE s == Stream
  <1>1. /\ s \in Seq(Key) /\ chords \in Nat /\ chords + 1 \in Nat /\ monitored[Keyd]
        /\ PhaseInv /\ AltInv(s) /\ ChordInv(s)
        /\ physAlt \in BOOLEAN /\ f24 \in BOOLEAN /\ keydAlt \in BOOLEAN
    BY StreamType DEF CycleInv, TypeOK
  <1>2. UNCHANGED <<monitored, raw, f24_pressed, recording, release_phase, log>>
    BY DEF User, PressAlt, PressSpace, ReleaseSpace, ReleaseAlt, stateVars, outVars
  <1>3. monitored'[Keyd] /\ PhaseInv'
    BY <1>1, <1>2 DEF PhaseInv, LastEvent
  <1>5. CASE PressAlt
    <2> DEFINE t == After(s, "KeydLeftAltDown", chords)
    <2>1. Stream' = t
      BY <1>1, <1>5, OutputStream DEF PressAlt, After, Keys
    <2>2. ChordInv(t)
      BY <1>1, AltChords DEF AltKeys
    <2>3. AltFirst(t) /\ ReleaseOver(t) /\ t # << >> /\ t[Len(t)].key = "KeydLeftAltDown"
      BY <1>1, AltAppend DEF AltInv, Keys
    <2> HIDE DEF t
    <2> QED
      BY <1>2, <1>3, <1>5, <2>1, <2>2, <2>3
      DEF CycleInv, PressAlt, AltInv, ReleaseOver, ChordInv, Fits, NextF24, LastChord
  <1>6. CASE PressSpace
    <2> DEFINE mid == After(s, "KeydLeftAltUp", chords + 1)
               e == [key |-> "F24Down", chord |-> chords + 1]
               t == After(mid, "F24Down", chords + 1)
    <2>1. /\ ~f24 /\ keydAlt /\ f24' /\ ~keydAlt' /\ chords' = chords + 1 /\ chords' <= MaxChords
          /\ Output("KeydLeftAltUp", "F24Down", chords + 1)
      BY <1>1, <1>6, HotkeyAssumption DEF PressSpace, AltInv
    <2>2. Stream' = t
      BY <1>1, <1>2, <2>1, OutputStream DEF Keys
    <2>3. mid \in Seq(Key) /\ ChordInv(mid)
      BY <1>1, AltChords, AfterType DEF AltKeys, Keys
    <2>4. /\ AltFirst(mid) /\ ReleaseOver(mid) /\ Len(mid) = Len(s) + 1 /\ Len(s) \in Nat
          /\ mid[Len(mid)].key = "KeydLeftAltUp"
          /\ Len(s) >= 1 => mid[Len(mid) - 1] = s[Len(s)]
      BY <1>1, AltAppend DEF AltInv, Keys
    <2>5. /\ Len(s) >= 1 => s[Len(s)].key = "KeydLeftAltDown"
          /\ Len(s) = 0 => release_phase # "Settling"
      BY <1>1, <2>1, EmptySeq DEF AltInv
    <2>6. t = Append(mid, e)
      BY DEF After, NoKey
    <2> HIDE DEF mid
    <2>7. AltFirst(t) /\ ReleaseOver(t)
      <3>1. /\ Len(mid) >= 1
            /\ Len(mid) >= 2 => mid[Len(mid) - 1].key = "KeydLeftAltDown"
            /\ Len(mid) = 1 => release_phase # "Settling"
        BY <2>4, <2>5
      <3> QED
        BY <1>1, <2>3, <2>4, <3>1, AltAppend DEF Keys
    <2>8. e = NextF24 /\ NextF24'.key = "F24Up" /\ NextF24'.chord = chords + 1
      BY <2>1 DEF NextF24
    <2>9. /\ Alternate(t)
          /\ \A i \in DOMAIN t : First(t, F24Keys, i) => Fits(t[i].key, t[i].chord)
          /\ \A i \in DOMAIN t : Last(t, F24Keys, i) => Follows(t[i], NextF24')
          /\ ~Without(t, F24Keys)
          /\ \A i \in DOMAIN t : t[i].key \in F24Keys => t[i].chord \in 1 .. chords'
      <3>1. NextF24'.key \in F24Keys /\ Follows(e, NextF24')
        BY <2>8 DEF F24Keys, Follows
      <3>2. e.chord \in 1 .. chords' /\ chords <= chords' /\ chords' \in Nat
        BY <1>1, <2>1
      <3>3. mid \in Seq(Key) /\ ChordInv(mid) /\ e = NextF24 /\ t = Append(mid, e)
        BY <2>3, <2>6, <2>8
      <3> HIDE DEF e, t
      <3> QED
        BY ZenonT(60), <1>1, <3>1, <3>2, <3>3, NextChord
    <2> HIDE DEF t
    <2> QED
      BY <1>1, <1>2, <1>3, <2>1, <2>2, <2>7, <2>9
      DEF CycleInv, AltInv, ReleaseOver, ChordInv, Fits, LastChord
  <1>7. CASE ReleaseSpace
    <2> DEFINE e == [key |-> "F24Up", chord |-> chords]
               mid == After(s, "F24Up", chords)
               key == IF physAlt THEN "KeydLeftAltDown" ELSE NoKey
               t == After(mid, key, chords)
    <2>1. /\ f24 /\ ~f24' /\ keydAlt' = physAlt /\ UNCHANGED <<physAlt, chords>>
          /\ Output("F24Up", key, chords)
      BY <1>7 DEF ReleaseSpace
    <2>2. Stream' = t
      BY <1>1, <1>2, <2>1, OutputStream DEF Keys
    <2>3. mid \in Seq(Key) /\ AltFirst(mid) /\ ReleaseOver(mid)
      BY <1>1, AltAppend DEF AltInv, Keys
    <2>10. mid = Append(s, e)
      BY DEF After, NoKey
    <2>4. e = NextF24 /\ NextF24'.key = "F24Down" /\ NextF24'.chord = chords + 1
      BY <2>1 DEF NextF24
    <2>5. /\ Alternate(mid)
          /\ \A i \in DOMAIN mid : First(mid, F24Keys, i) => Fits(mid[i].key, mid[i].chord)
          /\ \A i \in DOMAIN mid : Last(mid, F24Keys, i) => Follows(mid[i], NextF24')
          /\ ~Without(mid, F24Keys)
          /\ \A i \in DOMAIN mid : mid[i].key \in F24Keys => mid[i].chord \in 1 .. chords'
      <3>1. NextF24'.key \in F24Keys /\ Follows(e, NextF24')
        BY <2>4 DEF F24Keys, Follows
      <3>2. chords # 0
        BY <1>1, <2>1 DEF ChordInv
      <3>3. e.chord \in 1 .. chords' /\ chords <= chords' /\ chords' \in Nat
        BY <1>1, <2>1, <3>2
      <3> HIDE DEF mid
      <3> QED
        BY <1>1, <2>4, <2>10, <3>1, <3>3, NextChord
    <2> HIDE DEF mid
    <2>6. /\ Alternate(mid) => Alternate(t)
          /\ \A i \in DOMAIN t :
               /\ First(t, F24Keys, i) => i \in DOMAIN mid /\ First(mid, F24Keys, i)
               /\ Last(t, F24Keys, i) => i \in DOMAIN mid /\ Last(mid, F24Keys, i)
               /\ t[i].key \in F24Keys => i \in DOMAIN mid
               /\ i \in DOMAIN mid => t[i] = mid[i]
          /\ Without(t, F24Keys) => Without(mid, F24Keys)
      <3>1. key \in AltKeys \cup {NoKey}
        BY DEF AltKeys
      <3> HIDE DEF key
      <3> QED
        BY <1>1, <2>3, <3>1, AltAfter
    <2>7. AltFirst(t) /\ ReleaseOver(t)
      <3>1. CASE physAlt
        BY <1>1, <2>3, <3>1, AltAppend DEF Keys
      <3>2. CASE ~physAlt
        BY <2>3, <3>2 DEF After
      <3> QED
        BY <3>1, <3>2
    <2>8. physAlt => t # << >> /\ t[Len(t)].key = "KeydLeftAltDown"
      <3> DEFINE w == After(mid, "KeydLeftAltDown", chords)
      <3>1. w # << >> /\ w[Len(w)].key = "KeydLeftAltDown"
        BY <1>1, <2>3, AltAppend DEF Keys
      <3>2. physAlt => t = w
        OBVIOUS
      <3> HIDE DEF w, t
      <3> QED
        BY <3>1, <3>2
    <2> HIDE DEF t
    <2>9. ChordInv(Stream)'
      BY <1>1, <1>2, <2>1, <2>2, <2>5, <2>6 DEF ChordInv, Fits, LastChord
    <2> QED
      BY <1>2, <1>3, <2>1, <2>2, <2>7, <2>8, <2>9 DEF CycleInv, AltInv, ReleaseOver
  <1>8. CASE ReleaseAlt
    <2> DEFINE key == IF keydAlt THEN "KeydLeftAltUp" ELSE NoKey
               t == After(s, key, chords)
    <2>1. physAlt' = FALSE /\ keydAlt' = FALSE /\ UNCHANGED <<f24, chords>> /\ Output(key, NoKey, chords)
      BY <1>8 DEF ReleaseAlt
    <2>2. key \in AltKeys \cup {NoKey} /\ key \in Keys \cup {NoKey} /\ key # "F24Down"
      BY DEF AltKeys, Keys, NoKey
    <2> HIDE DEF key
    <2>3. Stream' = t
      <3>1. Stream' = After(t, NoKey, chords)
        BY <1>1, <1>2, <2>1, <2>2, OutputStream
      <3> QED
        BY <3>1 DEF After
    <2>4. ChordInv(t)
      BY <1>1, <2>2, AltChords
    <2>5. AltFirst(t) /\ ReleaseOver(t)
      <3>1. CASE key = NoKey
        BY <1>1, <3>1 DEF AltInv, After
      <3>2. CASE key # NoKey
        BY <1>1, <2>2, <3>2, AltAppend DEF AltInv
      <3> QED
        BY <3>1, <3>2
    <2> HIDE DEF t
    <2> QED
      BY <1>2, <1>3, <2>1, <2>3, <2>4, <2>5
      DEF CycleInv, AltInv, ReleaseOver, ChordInv, Fits, NextF24, LastChord
  <1> QED
    BY <1>5, <1>6, <1>7, <1>8 DEF User

-----------------------------------------------------------------------------
(* The cycle: the state machine.                                            *)

\* What one step may add to the history.
Emits(event, chord) == log' = Append(log, [event |-> event, chord |-> chord])
Cycles ==
    \/ log' = log
    \/ LastEvent = "ReleaseCompleted" /\ \E chord \in 1 .. MaxChords : chord > LastChord /\ Emits("Press", chord)
    \/ LastEvent = "Press" /\ Emits("ReleaseStarted", LastChord)
    \/ LastEvent = "ReleaseStarted" /\ Emits("ReleaseCompleted", LastChord)

LEMMA LastLog ==
  ASSUME TypeOK, NEW event \in HotkeyEvents, NEW chord \in Nat, Emits(event, chord)
  PROVE  LastEvent' = event /\ LastChord' = chord
  <1>1. log'[Len(log')].event = event /\ log'[Len(log')].chord = chord /\ Len(log') = Len(log) + 1 /\ Len(log) \in Nat
    BY AppendLog DEF Emits
  <1>2. log' # << >>
    BY <1>1, EmptySeq
  <1> QED
    BY <1>1, <1>2 DEF LastEvent, LastChord

LEMMA ReceivePhase ==
  ASSUME TypeOK, LogInv, CycleInv, Receive
  PROVE  /\ PhaseInv' /\ Cycles
         /\ raw[1].key \notin F24Keys => \A key, chord : Fits(key, chord) => Fits(key, chord)'
         /\ \A chord \in Nat : raw[1].chord = chord =>
              /\ raw[1].key = "F24Down" => Fits("F24Up", chord)'
              /\ raw[1].key = "F24Up" => Fits("F24Down", chord + 1)'
         /\ raw[1].key = "KeydLeftAltDown" => release_phase' # "Settling"
         /\ raw[1].key = "KeydLeftAltUp" /\ release_phase # "Settling" => release_phase' = "Idle"
  <1> DEFINE e == raw[1]
  <1>1. /\ e.chord \in Nat /\ PhaseInv
        /\ release_phase \in {"Idle", "Settling", "WaitingForAltUp"}
        /\ f24_pressed \in BOOLEAN /\ recording \in BOOLEAN
    BY TailRaw DEF CycleInv, TypeOK
  <1>2. LastChord \in Nat
    BY ReleasedType DEF LastChord, ReleasedChord
  <1>3. e.key \in F24Keys => Fits(e.key, e.chord) /\ e.chord \in 1 .. chords /\ chords <= MaxChords /\ chords \in Nat
    BY ReceiveStream, StreamType, TailF24 DEF CycleInv, ChordInv, TypeOK
  <1>4. e.key = "F24Down" => release_phase = "Idle"
    <2>1. Len(Stream) >= 1
      BY ReceiveStream, StreamType, EmptySeq
    <2> QED
      BY <2>1, ReceiveStream DEF CycleInv, AltInv, ReleaseOver
  <1> HIDE DEF e
  <1>5. CASE e.key = "F24Down" /\ ProcessF24Down(e.chord)
    <2>1. e.key \in F24Keys /\ e.key # "F24Up" /\ e.key # "KeydLeftAltDown" /\ e.key # "KeydLeftAltUp"
      BY <1>5 DEF F24Keys
    <2>2. f24_pressed = FALSE /\ recording = FALSE /\ LastChord < e.chord /\ f24_pressed' = TRUE
          /\ release_phase = "Idle" /\ release_phase' = "Idle" /\ LastEvent = "ReleaseCompleted"
      BY <1>1, <1>3, <1>4, <1>5, <2>1 DEF Fits, PhaseInv, ProcessF24Down
    <2>3. CASE cooldown > 0
      <3>1. log' = log /\ recording' = FALSE
        BY <1>5, <2>2, <2>3 DEF ProcessF24Down, IgnoresF24Down, outVars
      <3> QED
        BY <1>5, <2>1, <2>2, <3>1 DEF PhaseInv, Cycles, Fits, LastEvent, LastChord, e
    <2>4. CASE ~(cooldown > 0)
      <3>1. Emits("Press", e.chord) /\ recording' = TRUE
        BY <1>5, <2>2, <2>4 DEF ProcessF24Down, IgnoresF24Down, Produce, Emits
      <3>2. LastEvent' = "Press" /\ LastChord' = e.chord
        BY <1>1, <3>1, LastLog DEF HotkeyEvents
      <3>3. e.chord \in 1 .. MaxChords
        BY <1>3, <2>1, HotkeyAssumption
      <3>4. Cycles
        BY <1>2, <2>2, <3>1, <3>3 DEF Cycles
      <3> QED
        BY <1>5, <2>1, <2>2, <3>1, <3>2, <3>4 DEF PhaseInv, Fits, e
    <2> QED
      BY <2>3, <2>4
  <1>6. CASE e.key = "F24Up" /\ ProcessF24Up(e.chord)
    <2>1. e.key \in F24Keys /\ e.key # "F24Down" /\ e.key # "KeydLeftAltDown" /\ e.key # "KeydLeftAltUp"
      BY <1>6 DEF F24Keys
    <2>2. f24_pressed = TRUE /\ f24_pressed' = FALSE
      BY <1>1, <1>3, <1>6, <2>1 DEF Fits, ProcessF24Up, ForgetKey
    <2>3. CASE recording = TRUE
      <3>1. LastChord = e.chord /\ LastEvent = "Press"
        BY <1>1, <1>3, <2>1, <2>3 DEF Fits, PhaseInv
      <3>2. Emits("ReleaseStarted", e.chord) /\ recording' = FALSE /\ release_phase' = "Settling"
        BY <1>6, <2>2, <2>3 DEF ProcessF24Up, Produce, Emits
      <3>3. LastEvent' = "ReleaseStarted" /\ LastChord' = e.chord
        BY <1>1, <3>2, LastLog DEF HotkeyEvents
      <3>4. Cycles
        BY <3>1, <3>2 DEF Cycles
      <3>5. e.chord < e.chord + 1
        BY <1>1
      <3> QED
        BY <1>6, <2>1, <2>2, <3>2, <3>3, <3>4, <3>5 DEF PhaseInv, Fits, e
    <2>4. CASE recording = FALSE
      <3>1. LastChord < e.chord + 1
        BY <1>1, <1>2, <1>3, <2>1, <2>4 DEF Fits
      <3>2. log' = log /\ recording' = FALSE /\ release_phase' = release_phase
        BY <1>6, <2>4 DEF ProcessF24Up, outVars
      <3>3. LastChord' = LastChord /\ LastEvent' = LastEvent
        BY <3>2 DEF LastChord, LastEvent
      <3> QED
        BY <1>1, <1>6, <2>1, <2>2, <2>4, <3>1, <3>2, <3>3 DEF PhaseInv, Cycles, Fits, e
    <2> QED
      BY <1>1, <2>3, <2>4
  <1>7. CASE e.key = "KeydLeftAltDown" /\ ProcessAltDown
    <2>1. /\ UNCHANGED <<f24_pressed, recording, log>>
          /\ release_phase' = IF release_phase = "Settling" THEN "WaitingForAltUp" ELSE release_phase
      BY <1>7 DEF ProcessAltDown, outVars
    <2>2. LastChord' = LastChord /\ LastEvent' = LastEvent
      BY <2>1 DEF LastChord, LastEvent
    <2>3. PhaseInv' /\ Cycles /\ release_phase' # "Settling"
      BY <1>1, <2>1, <2>2 DEF PhaseInv, Cycles
    <2>4. \A key, chord : Fits(key, chord) => Fits(key, chord)'
      BY <2>1, <2>2 DEF Fits
    <2> QED
      BY <1>7, <2>3, <2>4 DEF e
  <1>8. CASE e.key = "KeydLeftAltUp" /\ ProcessAltUp(ReleasedChord)
    <2>1. UNCHANGED <<f24_pressed, recording>>
      BY <1>8 DEF ProcessAltUp
    <2>2. CASE release_phase = "WaitingForAltUp"
      <3>1. log # << >> /\ LastEvent = "ReleaseStarted" /\ recording = FALSE /\ ReleasedChord = LastChord
        BY <1>1, <2>2 DEF LogInv, PhaseInv, LastChord, ReleasedChord
      <3>2. Emits("ReleaseCompleted", LastChord) /\ release_phase' = "Idle"
        BY <1>8, <2>2, <3>1 DEF ProcessAltUp, EndRelease, Produce, Emits
      <3>3. LastEvent' = "ReleaseCompleted" /\ LastChord' = LastChord
        BY <1>2, <3>2, LastLog DEF HotkeyEvents
      <3>4. PhaseInv' /\ Cycles
        BY <2>1, <3>1, <3>2, <3>3 DEF PhaseInv, Cycles
      <3>5. \A key, chord : Fits(key, chord) => Fits(key, chord)'
        BY <2>1, <3>3 DEF Fits
      <3> QED
        BY <1>8, <3>2, <3>4, <3>5 DEF e
    <2>3. CASE release_phase # "WaitingForAltUp"
      <3>1. UNCHANGED <<release_phase, log>>
        BY <1>8, <2>3 DEF ProcessAltUp, outVars
      <3>2. LastChord' = LastChord /\ LastEvent' = LastEvent
        BY <3>1 DEF LastChord, LastEvent
      <3>3. PhaseInv' /\ Cycles
        BY <1>1, <2>1, <3>1, <3>2 DEF PhaseInv, Cycles
      <3>4. \A key, chord : Fits(key, chord) => Fits(key, chord)'
        BY <2>1, <3>2 DEF Fits
      <3> QED
        BY <1>1, <1>8, <2>3, <3>1, <3>3, <3>4 DEF e
    <2> QED
      BY <2>2, <2>3
  <1> QED
    BY <1>5, <1>6, <1>7, <1>8, ReceiveCases DEF e

LEMMA ReceiveCycle == TypeOK /\ LogInv /\ CycleInv /\ Receive => CycleInv' /\ Cycles
  <1> SUFFICES ASSUME TypeOK, LogInv, CycleInv, Receive
               PROVE  CycleInv'
    BY ReceivePhase
  <1> DEFINE s == Stream
             t == Tail(s)
  <1>1. /\ s \in Seq(Key) /\ s # << >> /\ s[1] = raw[1] /\ Stream' = t
        /\ AltInv(s) /\ ChordInv(s) /\ UNCHANGED <<userVars, deviceVars>>
        /\ release_phase \in {"Idle", "Settling", "WaitingForAltUp"}
    BY StreamType, ReceiveStream, TailRaw DEF CycleInv, TypeOK
  <1> HIDE DEF s
  <1>2. /\ Alternate(s) => Alternate(t)
        /\ \A i \in DOMAIN t :
             /\ i + 1 \in DOMAIN s /\ t[i] = s[i + 1]
             /\ Last(t, F24Keys, i) => Last(s, F24Keys, i + 1)
             /\ First(t, F24Keys, i) =>
                  IF s[1].key \in F24Keys THEN Adjacent(s, F24Keys, 1, i + 1) ELSE First(s, F24Keys, i + 1)
        /\ 1 \in DOMAIN s
        /\ s[1].key \in F24Keys => First(s, F24Keys, 1)
        /\ Without(t, F24Keys) =>
             IF s[1].key \in F24Keys THEN Last(s, F24Keys, 1) ELSE Without(s, F24Keys)
    BY <1>1, TailF24
  <1>3. /\ Len(s) \in Nat \ {0} /\ Len(t) = Len(s) - 1 /\ t \in Seq(Key)
        /\ DOMAIN s = 1 .. Len(s) /\ DOMAIN t = 1 .. Len(s) - 1
    BY <1>1, HeadTailProperties, LenProperties, EmptySeq
  <1> HIDE DEF t
  <1>4. AltFirst(t)
    <2> SUFFICES ASSUME NEW i \in DOMAIN t, t[i].key = "F24Down"
                 PROVE  /\ i >= 2 => t[i - 1].key = "KeydLeftAltUp"
                        /\ i >= 3 => t[i - 2].key = "KeydLeftAltDown"
      BY DEF AltFirst
    <2>1. /\ i + 1 \in DOMAIN s /\ s[i + 1].key = "F24Down"
          /\ (i + 1) - 1 = i /\ (i + 1) - 2 = i - 1 /\ i + 1 >= 2 /\ (i >= 2 => i + 1 >= 3)
      BY <1>2, <1>3
    <2>2. s[i].key = "KeydLeftAltUp" /\ (i >= 2 => s[i - 1].key = "KeydLeftAltDown")
      BY <1>1, <2>1 DEF AltInv, AltFirst
    <2>3. i >= 2 => i - 1 \in DOMAIN t /\ (i - 1) + 1 = i
      BY <1>3
    <2>4. i >= 3 => i - 2 \in DOMAIN t /\ (i - 2) + 1 = i - 1
      BY <1>3
    <2> QED
      BY SMTT(40), <1>2, <1>3, <2>2, <2>3, <2>4
  <1>5. ReleaseOver(Stream)'
    <2>1. ASSUME Len(t) >= 1, t[1].key = "F24Down"
          PROVE  release_phase' = "Idle"
      <3>1. 2 \in DOMAIN s /\ s[2].key = "F24Down" /\ Len(s) >= 2 /\ 2 - 1 = 1
        BY <1>2, <1>3, <2>1
      <3>2. s[1].key = "KeydLeftAltUp" /\ release_phase # "Settling"
        BY <1>1, <3>1 DEF AltInv, AltFirst, ReleaseOver
      <3> QED
        BY <1>1, <3>2, ReceivePhase
    <2>2. ASSUME Len(t) >= 2, t[2].key = "F24Down"
          PROVE  release_phase' # "Settling"
      <3>1. 3 \in DOMAIN s /\ s[3].key = "F24Down" /\ 3 - 2 = 1
        BY <1>2, <1>3, <2>2
      <3>2. s[1].key = "KeydLeftAltDown"
        BY <1>1, <3>1 DEF AltInv, AltFirst
      <3> QED
        BY <1>1, <3>2, ReceivePhase
    <2> QED
      BY <1>1, <2>1, <2>2 DEF ReleaseOver
  <1>6. AltInv(Stream)'
    <2>1. UNCHANGED <<physAlt, f24, keydAlt>>
      BY <1>1 DEF userVars
    <2>2. ASSUME keydAlt, ~f24
          PROVE  IF t = << >> THEN release_phase' # "Settling" ELSE t[Len(t)].key = "KeydLeftAltDown"
      <3>1. s[Len(s)].key = "KeydLeftAltDown"
        BY <1>1, <2>2 DEF AltInv
      <3>2. CASE t = << >>
        <4>1. Len(s) = 1
          BY <1>3, <3>2, EmptySeq
        <4> QED
          BY <1>1, <3>1, <3>2, <4>1, ReceivePhase
      <3>3. CASE t # << >>
        <4>1. Len(t) \in DOMAIN t /\ Len(t) + 1 = Len(s)
          BY <1>3, <3>3, EmptySeq
        <4> QED
          BY <1>2, <3>1, <3>3, <4>1
      <3> QED
        BY <3>2, <3>3
    <2> QED
      BY <1>1, <1>4, <1>5, <2>1, <2>2 DEF AltInv
  <1>7. ChordInv(Stream)'
    <2> DEFINE next == NextF24
    <2>1. /\ UNCHANGED <<f24, chords>> /\ NextF24' = next /\ chords \in Nat
          /\ next.key \in F24Keys /\ next.chord \in Nat
      BY <1>1 DEF userVars, NextF24, F24Keys, TypeOK
    <2>2. /\ Alternate(t)
          /\ \A i \in DOMAIN t : Last(t, F24Keys, i) => Follows(t[i], next)
          /\ \A i \in DOMAIN t : t[i].key \in F24Keys => t[i].chord \in 1 .. chords
          /\ chords <= MaxChords /\ (f24 => chords # 0)
      BY <1>1, <1>2 DEF ChordInv
    <2> HIDE DEF next
    <2>3. \A i \in DOMAIN t : t[i] \in Key
      BY <1>3
    <2>4. s[1] \in Key
      BY <1>1, <1>3
    <2>5. ASSUME NEW key, NEW chord \in Nat, s[1].key \in F24Keys, Follows(s[1], [key |-> key, chord |-> chord])
          PROVE  Fits(key, chord)'
      <3>1. s[1].chord \in Nat
        BY <2>4 DEF Key
      <3> QED
        BY <1>1, <2>5, <3>1, ReceivePhase DEF Follows
    <2>6. ASSUME NEW i \in DOMAIN t, First(t, F24Keys, i), NEW key, NEW chord,
                 t[i].key = key, t[i].chord = chord
          PROVE  Fits(key, chord)'
      <3>1. CASE s[1].key \in F24Keys
        <4>1. Follows(s[1], t[i])
          BY <1>1, <1>2, <2>6, <3>1 DEF ChordInv, Alternate
        <4>2. Follows(s[1], [key |-> key, chord |-> chord]) /\ chord \in Nat
          BY <2>3, <2>6, <4>1 DEF Follows, Key
        <4> QED
          BY <2>5, <3>1, <4>2
      <3>2. CASE s[1].key \notin F24Keys
        <4>1. Fits(key, chord)
          BY <1>1, <1>2, <2>6, <3>2 DEF ChordInv
        <4> QED
          BY <1>1, <3>2, <4>1, ReceivePhase
      <3> QED
        BY <3>1, <3>2
    <2>7. ASSUME Without(t, F24Keys), NEW key, NEW chord, next.key = key, next.chord = chord
          PROVE  Fits(key, chord)'
      <3>1. CASE s[1].key \in F24Keys
        <4>1. Follows(s[1], next)
          BY <1>1, <1>2, <2>7, <3>1 DEF ChordInv, next
        <4>2. Follows(s[1], [key |-> key, chord |-> chord]) /\ chord \in Nat
          BY <2>1, <2>7, <4>1 DEF Follows
        <4> QED
          BY <2>5, <3>1, <4>2
      <3>2. CASE s[1].key \notin F24Keys
        <4>1. Fits(key, chord)
          BY <1>1, <1>2, <2>7, <3>2 DEF ChordInv, next
        <4> QED
          BY <1>1, <3>2, <4>1, ReceivePhase
      <3> QED
        BY <3>1, <3>2
    <2>8. /\ \A i \in DOMAIN Stream' : First(Stream', F24Keys, i) => Fits(Stream[i].key, Stream[i].chord)'
          /\ Without(Stream', F24Keys) => Fits(NextF24.key, NextF24.chord)'
      BY <1>1, <2>1, <2>6, <2>7 DEF Fits
    <2> QED
      BY <1>1, <2>1, <2>2, <2>8 DEF ChordInv
  <1>8. monitored'[Keyd] /\ PhaseInv'
    BY <1>1, ReceivePhase DEF CycleInv, deviceVars
  <1> QED
    BY <1>6, <1>7, <1>8 DEF CycleInv

LEMMA SettleCycle == TypeOK /\ LogInv /\ CycleInv /\ settle => CycleInv' /\ Cycles
  <1> SUFFICES ASSUME TypeOK, LogInv, CycleInv, settle
               PROVE  CycleInv' /\ Cycles
    OBVIOUS
  <1>1. /\ Produce("ReleaseCompleted", ReleasedChord) /\ release_phase' = "Idle"
        /\ release_phase = "Settling"
        /\ UNCHANGED <<userVars, deviceVars, raw, f24_pressed, recording>>
    BY DEF settle, EndRelease, SettleDue
  <1>2. log # << >> /\ LastEvent = "ReleaseStarted" /\ recording = FALSE /\ ReleasedChord = LastChord /\ LastChord \in Nat
    BY <1>1, ReleasedType DEF LogInv, CycleInv, PhaseInv, LastChord, ReleasedChord, TypeOK
  <1>3. Emits("ReleaseCompleted", LastChord)
    BY <1>1, <1>2 DEF Produce, Emits
  <1>4. LastEvent' = "ReleaseCompleted" /\ LastChord' = LastChord
    BY <1>2, <1>3, LastLog DEF HotkeyEvents
  <1>5. Stream' = Stream
    BY <1>1 DEF Stream, deviceVars
  <1>6. PhaseInv' /\ Cycles
    BY <1>1, <1>2, <1>3, <1>4 DEF PhaseInv, Cycles
  <1>7. AltInv(Stream)' /\ ChordInv(Stream)' /\ monitored'[Keyd]
    BY <1>1, <1>4, <1>5 DEF CycleInv, AltInv, ReleaseOver, ChordInv, Fits, NextF24, userVars, deviceVars
  <1> QED
    BY <1>6, <1>7 DEF CycleInv

LEMMA CycleNext ==
  ASSUME OneDevice
  PROVE  TypeOK /\ LogInv /\ CycleInv /\ [Next]_vars => CycleInv' /\ Cycles
  <1> SUFFICES ASSUME TypeOK, LogInv, CycleInv, [Next]_vars
               PROVE  CycleInv' /\ Cycles
    OBVIOUS
  <1>1. ASSUME UNCHANGED <<physAlt, f24, keydAlt, chords, monitored, f24_pressed, recording, release_phase, log>>,
               Stream' = Stream
        PROVE  CycleInv' /\ Cycles
    <2>1. LastEvent' = LastEvent /\ LastChord' = LastChord
      BY <1>1 DEF LastEvent, LastChord
    <2> QED
      BY <1>1, <2>1 DEF CycleInv, PhaseInv, AltInv, ReleaseOver, ChordInv, Fits, NextF24, Cycles
  <1>2. CASE User
    BY <1>2, UserCycle DEF Cycles, User, PressAlt, PressSpace, ReleaseSpace, ReleaseAlt, outVars
  <1>3. ASSUME NEW d \in Devices, read_keyboard_events(d)
        PROVE  CycleInv' /\ Cycles
    <2>1. read_keyboard_events(Keyd)
      BY <1>3 DEF OneDevice
    <2> QED
      BY <1>1, <2>1, ReadStream DEF read_keyboard_events, userVars, stateVars, outVars
  <1>4. ASSUME NEW d \in Devices, Unplug(d)
        PROVE  FALSE
    BY <1>4 DEF Unplug, OneDevice, TypeOK
  <1>5. ASSUME NEW d \in Devices, Rescan(d)
        PROVE  FALSE
    BY <1>5 DEF Rescan, OneDevice, CycleInv
  <1>6. CASE Send \/ Recv
    BY <1>1, <1>6 DEF Send, Recv, Stream, userVars, deviceVars, stateVars
  <1>7. CASE Tick
    BY <1>1, <1>7, TickStream, TickCases DEF userVars, outVars
  <1>8. CASE UNCHANGED vars
    BY <1>1, <1>8 DEF vars, Stream, userVars, deviceVars, stateVars, outVars
  <1> QED
    BY <1>2, <1>3, <1>4, <1>5, <1>6, <1>7, <1>8, ReceiveCycle, SettleCycle DEF Next, Machine

LEMMA CycleInit == Init => CycleInv
  <1> SUFFICES ASSUME Init
               PROVE  CycleInv
    OBVIOUS
  <1>1. Flow(<< >>, << >>) = << >>
    BY DEF Flow
  <1>2. Stream = << >>
    BY <1>1, HotkeyAssumption DEF Init, Stream
  <1>3. AltFirst(<< >>) /\ Alternate(<< >>) /\ Without(<< >>, F24Keys) /\ ~\E i : i \in DOMAIN << >>
    BY DEF AltFirst, Alternate, Without
  <1>4. PhaseInv /\ monitored[Keyd]
    BY HotkeyAssumption DEF Init, PhaseInv, LastEvent
  <1>5. AltInv(<< >>)
    BY <1>3 DEF Init, AltInv, ReleaseOver
  <1>6. Fits(NextF24.key, NextF24.chord)
    BY DEF Init, Fits, NextF24, LastChord
  <1>7. ChordInv(<< >>)
    BY <1>3, <1>6, HotkeyAssumption DEF Init, ChordInv
  <1> QED
    BY <1>2, <1>4, <1>5, <1>7 DEF CycleInv

\* With one keyboard that is never unplugged the events are the cycle main.rs
\* counts on, whatever the reader's delay, the timers and the channels' sizes:
\* Press, ReleaseStarted and ReleaseCompleted of one chord, then of a later one
\* (hotkey.rs:29-124).
THEOREM EventsCycle ==
  ASSUME OneDevice
  PROVE  Spec => ImplementsProtocol
  <1>1. Init => Protocol!Init
    BY DEF Init, Protocol!Init
  <1>2. TypeOK /\ LogInv /\ CycleInv /\ [Next]_vars => CycleInv'
    BY CycleNext
  <1>3. TypeOK /\ LogInv /\ CycleInv /\ [Next]_vars => [Protocol!Next]_log
    BY CycleNext
    DEF Cycles, Emits, LastEvent, LastChord, Protocol!Next, Protocol!Press, Protocol!ReleaseStarted,
        Protocol!ReleaseCompleted, Protocol!Emit, Protocol!LastEvent, Protocol!LastChord
  <1> QED
    BY <1>1, <1>2, <1>3, CycleInit, TypesKept, PTL DEF Spec, ImplementsProtocol, Protocol!Spec

-----------------------------------------------------------------------------
(* The restored Alt.                                                        *)

LEMMA FirstExists ==
  ASSUME NEW s \in Seq(Key), ~Without(s, F24Keys)
  PROVE  \E i \in DOMAIN s : First(s, F24Keys, i)
  <1> DEFINE less == {p \in Nat \X Nat : p[1] < p[2]}
             T == {i \in DOMAIN s : s[i].key \in F24Keys}
  <1>1. IsWellFoundedOn(less, Nat)
    BY NatLessThanWellFounded DEF OpToRel
  <1>2. DOMAIN s = 1 .. Len(s) /\ Len(s) \in Nat
    BY LenProperties
  <1>3. T \subseteq Nat /\ T # {}
    BY <1>2 DEF Without
  <1>4. PICK m \in T : \A n \in T : <<n, m>> \notin less
    <2> HIDE DEF less, T
    <2> QED BY <1>1, <1>3, WFMin
  <1>5. First(s, F24Keys, m)
    <2> SUFFICES ASSUME NEW k \in 1 .. m - 1, s[k].key \in F24Keys
                 PROVE  FALSE
      BY <1>4 DEF First
    <2>1. k \in T /\ k < m /\ k \in Nat /\ m \in Nat
      BY <1>2, <1>4
    <2> QED
      BY <1>4, <2>1
  <1> QED
    BY <1>4, <1>5

\* While F24 transitions are on their way the last recording is over or is not
\* the last chord's.
LEMMA NotLast ==
  ASSUME TypeOK, CycleInv, ~Without(Stream, F24Keys), ~recording
  PROVE  LastChord # chords
  <1>1. PICK i \in DOMAIN Stream : First(Stream, F24Keys, i)
    BY FirstExists, StreamType
  <1>2. LastChord < Stream[i].chord /\ Stream[i].chord \in 1 .. chords
    BY <1>1 DEF CycleInv, ChordInv, Fits, First
  <1>3. chords \in Nat
    BY DEF TypeOK
  <1>4. LastChord \in Nat
    BY ReleasedType DEF LastChord, ReleasedChord
  <1> QED
    BY <1>2, <1>3, <1>4

\* A release that completes is not that of the Alt still held.
LEMMA CompletesCleared ==
  ASSUME QuickReader, TypeOK, CycleInv, RestoredInv(Stream), AgeInv, restoredBy # 0,
         settle \/ (Receive /\ raw[1].key = "KeydLeftAltUp" /\ release_phase = "WaitingForAltUp")
  PROVE  LastChord # chords
  <1> DEFINE s == Stream
  <1>1. s \in Seq(Key) /\ Len(s) \in Nat /\ DOMAIN s = 1 .. Len(s)
    BY StreamType, LenProperties
  <1>2. ~recording
    BY DEF CycleInv, PhaseInv, settle, SettleDue
  <1>3. CASE Len(s) >= 2
    <2>1. Len(s) - 1 \in DOMAIN s /\ s[Len(s) - 1].key \in F24Keys
      BY <1>1, <1>3 DEF RestoredInv, F24Keys
    <2>2. ~Without(s, F24Keys)
      BY <2>1 DEF Without
    <2> QED
      BY <1>2, <2>2, NotLast
  <1>4. CASE Receive /\ raw[1].key = "KeydLeftAltUp" /\ ~(Len(s) >= 2)
    <2>1. s # << >> /\ s[1].key = "KeydLeftAltUp"
      BY <1>4, ReceiveStream
    <2>2. Len(s) = 1
      BY <1>1, <1>4, <2>1, EmptySeq
    <2> QED
      BY <2>1, <2>2 DEF RestoredInv
  <1>5. CASE settle /\ Len(s) = 0
    BY <1>5 DEF RestoredInv, settle, SettleDue
  <1>6. CASE settle /\ Len(s) = 1
    <2>1. raw = << >> /\ deadline = 0
      BY <1>6 DEF settle, SettleDue
    <2>2. pending[Keyd] \in Seq(TimedKey) /\ Len(pending[Keyd]) = 1
      BY <1>6, <2>1, StreamType
    <2>3. 1 \in DOMAIN pending[Keyd] /\ pending[Keyd][1] \in TimedKey
      BY <2>2
    <2>4. pending[Keyd][1].age <= Lag[Keyd] /\ pending[Keyd][1].age \in Nat
      BY <2>3 DEF AgeInv, TimedKey
    <2>5. Lag[Keyd] \in Nat /\ Settle \in Nat /\ Lag[Keyd] < Settle
      BY HotkeyAssumption DEF QuickReader
    <2>6. ~(deadline + pending[Keyd][1].age >= Settle)
      BY <2>1, <2>4, <2>5
    <2> QED
      BY <1>6, <2>1, <2>6 DEF RestoredInv
  <1> QED
    BY <1>1, <1>3, <1>4, <1>5, <1>6

\* Where the given-back Alt is, followed through the actions.
Restored == RestoredInv(Stream) /\ AgeInv /\ Played

LEMMA UserRestored == TypeOK /\ CycleInv /\ Restored /\ User => Restored'
  <1> SUFFICES ASSUME TypeOK, CycleInv, Restored, User
               PROVE  Restored'
    OBVIOUS
  <1>1. UNCHANGED <<raw, release_phase, deadline, log>>
    BY DEF User, PressAlt, PressSpace, ReleaseSpace, ReleaseAlt, stateVars, outVars
  <1>2. Played'
    BY <1>1 DEF Restored, Played, LastChord
  <1>3. AgeInv'
    <2>1. chords + 1 \in Nat /\ chords \in Nat
      BY DEF TypeOK
    <2>2. \E first, second \in Keys \cup {NoKey} : \E chord \in Nat : Output(first, second, chord)
      BY <2>1 DEF User, PressAlt, PressSpace, ReleaseSpace, ReleaseAlt, Keys
    <2>3. ASSUME NEW i \in DOMAIN pending'[Keyd]
          PROVE  \/ i \in DOMAIN pending[Keyd] /\ pending'[Keyd][i] = pending[Keyd][i]
                 \/ pending'[Keyd][i].age = 0
      BY <2>2, OutputEntries, HotkeyAssumption
    <2>4. 0 <= Lag[Keyd]
      BY HotkeyAssumption
    <2> QED
      BY <2>3, <2>4 DEF Restored, AgeInv
  <1>4. RestoredInv(Stream)'
    <2>1. CASE restoredBy' = 0
      BY <2>1 DEF RestoredInv
    <2>2. CASE PressAlt
      BY <2>1, <2>2 DEF PressAlt, Restored, RestoredInv
    <2>3. CASE ReleaseSpace /\ physAlt
      <3> DEFINE mid == After(Stream, "F24Up", chords)
                 t == After(mid, "KeydLeftAltDown", chords)
      <3>1. /\ Output("F24Up", "KeydLeftAltDown", chords) /\ chords \in Nat /\ monitored[Keyd]
            /\ restoredBy' = chords /\ chords' = chords /\ ~f24' /\ keydAlt' /\ physAlt'
        BY <2>3 DEF ReleaseSpace, CycleInv, TypeOK
      <3>2. Stream' = t
        BY <1>1, <3>1, OutputStream DEF Keys
      <3>3. Stream \in Seq(Key) /\ AltFirst(Stream) /\ ReleaseOver(Stream)
        BY StreamType DEF CycleInv, AltInv
      <3>4. /\ mid \in Seq(Key) /\ AltFirst(mid) /\ ReleaseOver(mid)
            /\ Len(mid) = Len(Stream) + 1 /\ Len(Stream) \in Nat /\ mid[Len(mid)].key = "F24Up"
        BY <3>1, <3>3, AltAppend DEF Keys
      <3> HIDE DEF mid
      <3>5. /\ Len(t) = Len(mid) + 1 /\ t[Len(t)].key = "KeydLeftAltDown"
            /\ Len(mid) >= 1 => t[Len(t) - 1] = mid[Len(mid)]
        BY <3>1, <3>4, AltAppend DEF Keys
      <3> HIDE DEF t
      <3>6. /\ Len(t) >= 2 /\ t[Len(t)].key = "KeydLeftAltDown" /\ t[Len(t) - 1].key = "F24Up"
            /\ Len(t) # 1 /\ Len(t) # 0
        BY <3>4, <3>5
      <3> QED
        BY <3>1, <3>2, <3>6 DEF RestoredInv
    <2> QED
      BY <2>1, <2>2, <2>3 DEF User, PressSpace, ReleaseSpace, ReleaseAlt
  <1> QED
    BY <1>2, <1>3, <1>4 DEF Restored

LEMMA ReceiveRestored ==
  ASSUME TypeOK, LogInv, CycleInv, Restored, Receive
  PROVE  RestoredInv(Stream)'
  <1> SUFFICES ASSUME restoredBy # 0
               PROVE  RestoredInv(Stream)'
    BY TailRaw DEF RestoredInv, userVars
  <1> DEFINE s == Stream
             t == Tail(s)
  <1>1. /\ s \in Seq(Key) /\ s # << >> /\ s[1] = raw[1] /\ Stream' = t /\ RestoredInv(s)
        /\ UNCHANGED <<userVars, deviceVars>>
    BY StreamType, ReceiveStream, TailRaw DEF Restored
  <1> HIDE DEF s
  <1>2. /\ Len(s) \in Nat \ {0} /\ Len(t) = Len(s) - 1 /\ t \in Seq(Key) /\ DOMAIN s = 1 .. Len(s)
        /\ \A k \in 1 .. Len(s) - 1 : t[k] = s[k + 1]
    BY <1>1, HeadTailProperties, LenProperties, EmptySeq
  <1> HIDE DEF t
  <1>3. /\ Len(t) >= 1 => t[Len(t)].key = "KeydLeftAltDown"
        /\ Len(t) >= 2 => t[Len(t) - 1].key = "F24Up"
    <2>1. Len(t) >= 1 => t[Len(t)] = s[Len(s)]
      BY <1>2
    <2>2. Len(t) >= 2 => t[Len(t) - 1] = s[Len(s) - 1]
      BY <1>2
    <2> QED
      BY <1>1, <1>2, <2>1, <2>2 DEF RestoredInv
  <1>4. ASSUME Len(t) = 1, LastChord' = chords
        PROVE  release_phase' = "Settling" /\ deadline' = Settle
    <2>1. raw[1].key = "F24Up" /\ s[1] = raw[1] /\ 1 \in DOMAIN s
      <3> DEFINE n == Len(s)
      <3>1. n \in Nat /\ 1 = n - 1 /\ DOMAIN s = 1 .. n
        BY <1>2, <1>4
      <3> HIDE DEF n
      <3>2. n = 2 /\ n - 1 = 1 /\ n >= 2 /\ 1 \in DOMAIN s
        BY <3>1
      <3>3. Len(s) = 2 /\ Len(s) - 1 = 1 /\ Len(s) >= 2 /\ 1 \in DOMAIN s
        BY <3>2 DEF n
      <3> QED
        BY <1>1, <3>3 DEF RestoredInv
    <2>2. ~Without(s, F24Keys) /\ ProcessF24Up(raw[1].chord)
      BY <2>1, ReceiveCases DEF Without, F24Keys
    <2>3. CASE f24_pressed /\ recording
      BY <2>2, <2>3 DEF ProcessF24Up
    <2>4. CASE ~(f24_pressed /\ recording)
      <3>1. ~recording /\ LastChord' = LastChord
        BY <2>2, <2>4 DEF ProcessF24Up, outVars, LastChord, CycleInv, PhaseInv
      <3> QED
        BY <1>4, <2>2, <3>1, NotLast DEF s
    <2> QED
      BY <2>3, <2>4
  <1>5. ASSUME Len(t) = 0, LastChord' = chords
        PROVE  release_phase' = "WaitingForAltUp"
    <2>1. raw[1].key = "KeydLeftAltDown" /\ Len(s) = 1
      <3>1. Len(s) = 1 /\ Len(s) >= 1
        BY <1>2, <1>5
      <3> QED
        BY <1>1, <3>1 DEF RestoredInv
    <2>2. ProcessAltDown
      BY <2>1, ReceiveCases
    <2>3. LastChord' = LastChord
      BY <2>2 DEF ProcessAltDown, outVars, LastChord
    <2>4. release_phase = "Settling"
      BY <1>1, <1>5, <2>1, <2>3 DEF RestoredInv
    <2> QED
      BY <2>2, <2>4 DEF ProcessAltDown
  <1>6. raw' = << >> /\ Len(t) = 1 => pending[Keyd][1].age \in Nat
    <2> SUFFICES ASSUME raw' = << >>, Len(t) = 1
                 PROVE  pending[Keyd][1].age \in Nat
      OBVIOUS
    <2>1. Len(s) = Len(raw) + Len(pending[Keyd]) /\ pending[Keyd] \in Seq(TimedKey)
      BY StreamType DEF s
    <2>2. Len(raw') = Len(raw) - 1 /\ Len(raw') = 0 /\ Len(raw) \in Nat
      BY TailRaw, EmptySeq
    <2>3. Len(pending[Keyd]) = 1
      BY <1>2, <2>1, <2>2
    <2>4. pending[Keyd][1] \in TimedKey
      BY <2>1, <2>3
    <2> QED
      BY <2>4 DEF TimedKey
  <1>7. \A age \in Nat : Settle + age >= Settle
    BY HotkeyAssumption
  <1> QED
    BY <1>1, <1>3, <1>4, <1>5, <1>6, <1>7 DEF RestoredInv, userVars, deviceVars

LEMMA PlayedNext == TypeOK /\ Played /\ Cycles => Played'
  <1> SUFFICES ASSUME TypeOK, Played, Cycles
               PROVE  Played'
    OBVIOUS
  <1>1. CASE log' = log
    BY <1>1 DEF Played, LastChord
  <1>2. ASSUME NEW chord \in 1 .. MaxChords, Emits("Press", chord)
        PROVE  Played'
    <2>1. chord \in Nat /\ chord # 0
      BY <1>2, HotkeyAssumption
    <2> QED
      BY <1>2, <2>1, LastLog DEF Played, HotkeyEvents
  <1>3. ASSUME LastEvent # "ReleaseCompleted", NEW event \in HotkeyEvents, Emits(event, LastChord)
        PROVE  Played'
    <2>1. LastChord # 0 /\ LastChord \in Nat
      BY <1>3, ReleasedType DEF LastEvent, Played, LastChord, ReleasedChord
    <2> QED
      BY <1>3, <2>1, LastLog DEF Played
  <1> QED
    BY <1>1, <1>2, <1>3 DEF Cycles, HotkeyEvents

LEMMA ReadRestored ==
  ASSUME OneDevice, TypeOK, Restored, NEW d \in Devices, read_keyboard_events(d)
  PROVE  Restored'
  <1>1. /\ read_keyboard_events(Keyd) /\ Stream' = Stream
        /\ UNCHANGED <<userVars, release_phase, deadline, log>>
    BY ReadStream DEF OneDevice, read_keyboard_events, stateVars, outVars
  <1>2. /\ pending[Keyd] \in Seq(TimedKey) /\ pending[Keyd] # << >> /\ pending'[Keyd] = Tail(pending[Keyd])
        /\ raw' = Append(raw, [key |-> Head(pending[Keyd]).key, chord |-> Head(pending[Keyd]).chord])
        /\ raw \in Seq(Key)
    BY <1>1, HotkeyAssumption DEF read_keyboard_events, TypeOK
  <1>3. raw' # << >>
    <2> DEFINE e == [key |-> Head(pending[Keyd]).key, chord |-> Head(pending[Keyd]).chord]
    <2>1. Head(pending[Keyd]) \in TimedKey
      BY <1>2
    <2>2. e \in Key /\ raw' = Append(raw, e)
      BY <1>2, <2>1 DEF TimedKey, Key
    <2> HIDE DEF e
    <2>3. Len(raw') = Len(raw) + 1 /\ Len(raw) \in Nat
      BY <1>2, <2>2, AppendProperties, LenProperties
    <2> QED
      BY <2>3, EmptySeq
  <1>4. AgeInv'
    <2>1. \A i \in DOMAIN pending'[Keyd] : i + 1 \in DOMAIN pending[Keyd] /\ pending'[Keyd][i] = pending[Keyd][i + 1]
      <3>1. /\ Len(Tail(pending[Keyd])) = Len(pending[Keyd]) - 1 /\ Len(pending[Keyd]) \in Nat \ {0}
            /\ Tail(pending[Keyd]) \in Seq(TimedKey)
            /\ \A i \in 1 .. Len(Tail(pending[Keyd])) : Tail(pending[Keyd])[i] = pending[Keyd][i + 1]
        BY <1>2, HeadTailProperties, LenProperties, EmptySeq
      <3> QED
        BY <1>2, <3>1, LenProperties
    <2> QED
      BY <2>1 DEF Restored, AgeInv
  <1> QED
    BY <1>1, <1>3, <1>4 DEF Restored, RestoredInv, Played, LastChord, userVars

LEMMA TickRestored == TypeOK /\ Restored /\ Tick => Restored'
  <1> SUFFICES ASSUME TypeOK, Restored, Tick
               PROVE  Restored'
    OBVIOUS
  <1>1. /\ Stream' = Stream /\ UNCHANGED <<userVars, raw, release_phase, log>> /\ deadline' = Down(deadline)
        /\ DOMAIN pending'[Keyd] = DOMAIN pending[Keyd]
        /\ \A i \in DOMAIN pending[Keyd] : /\ pending'[Keyd][i].age = pending[Keyd][i].age + 1
                                           /\ pending[Keyd][i].age < Lag[Keyd]
        /\ deadline \in Nat
    BY TickStream, TickCases, Bounds, HotkeyAssumption DEF outVars
  <1>2. ASSUME NEW i \in DOMAIN pending[Keyd]
        PROVE  pending[Keyd][i].age \in Nat
    <2>1. pending[Keyd][i] \in TimedKey
      BY HotkeyAssumption DEF TypeOK
    <2> QED
      BY <2>1 DEF TimedKey
  <1>3. AgeInv'
    BY <1>1, <1>2, HotkeyAssumption DEF AgeInv
  <1>4. raw = << >> /\ Len(Stream) = 1 /\ deadline + pending[Keyd][1].age >= Settle =>
          deadline' + pending'[Keyd][1].age >= Settle
    <2> SUFFICES ASSUME raw = << >>, Len(Stream) = 1, deadline + pending[Keyd][1].age >= Settle
                 PROVE  deadline' + pending'[Keyd][1].age >= Settle
      OBVIOUS
    <2>1. Len(pending[Keyd]) = 1 /\ pending[Keyd] \in Seq(TimedKey)
      BY StreamType, EmptySeq
    <2>2. 1 \in DOMAIN pending[Keyd]
      BY <2>1
    <2>3. pending'[Keyd][1].age = pending[Keyd][1].age + 1 /\ pending[Keyd][1].age \in Nat
      BY <1>1, <1>2, <2>2
    <2> QED
      BY <1>1, <2>3, HotkeyAssumption DEF Down
  <1> QED
    BY <1>1, <1>3, <1>4 DEF Restored, RestoredInv, Played, LastChord, userVars

LEMMA RestoredNext ==
  ASSUME OneDevice, QuickReader, TypeOK, LogInv, CycleInv, Restored, [Next]_vars
  PROVE  /\ Restored'
         /\ Produced("ReleaseCompleted") => restoredBy # log'[Len(log')].chord
  <1>1. Cycles /\ Played'
    BY CycleNext, PlayedNext DEF Restored
  <1> DEFINE Cleared == Produced("ReleaseCompleted") => restoredBy # log'[Len(log')].chord
  <1>2. log' = log => Cleared
    BY DEF Produced
  <1>3. ASSUME Emits("ReleaseCompleted", LastChord), LastEvent = "ReleaseStarted",
               restoredBy # 0 => restoredBy = chords /\ LastChord # chords
        PROVE  /\ LastChord' = LastChord
               /\ Cleared
    <2>1. LastChord \in Nat /\ LastChord # 0
      BY <1>3, ReleasedType DEF LastEvent, LastChord, ReleasedChord, Restored, Played
    <2>2. log'[Len(log')].chord = LastChord /\ LastChord' = LastChord
      BY <1>3, <2>1, AppendLog, LastLog DEF Emits, HotkeyEvents
    <2> QED
      BY <1>3, <2>1, <2>2
  <1>4. restoredBy # 0 => restoredBy = chords
    BY DEF Restored, RestoredInv
  <1>5. release_phase # "Idle" =>
          LastEvent = "ReleaseStarted" /\ (Produce("ReleaseCompleted", ReleasedChord) => Emits("ReleaseCompleted", LastChord))
    BY DEF LogInv, CycleInv, PhaseInv, LastChord, ReleasedChord, Produce, Emits
  <1>6. CASE settle
    <2>1. /\ Produce("ReleaseCompleted", ReleasedChord) /\ release_phase # "Idle"
          /\ UNCHANGED <<userVars, deviceVars, raw, deadline>>
      BY <1>6 DEF settle, SettleDue
    <2>2. restoredBy # 0 => LastChord # chords
      BY <1>6, CompletesCleared DEF Restored
    <2>3. LastChord' = LastChord /\ Cleared
      BY <1>3, <1>4, <1>5, <2>1, <2>2
    <2>4. Stream' = Stream
      BY <2>1 DEF Stream, deviceVars
    <2>5. RestoredInv(Stream)' /\ AgeInv'
      BY <2>1, <2>2, <2>3, <2>4 DEF Restored, RestoredInv, AgeInv, userVars, deviceVars
    <2> QED
      BY <1>1, <2>3, <2>5 DEF Restored
  <1>7. CASE Receive
    <2>1. Restored'
      BY <1>1, <1>7, TailRaw, ReceiveRestored DEF Restored, AgeInv, deviceVars
    <2>2. CASE raw[1].key = "KeydLeftAltUp" /\ release_phase = "WaitingForAltUp"
      <3>1. Produce("ReleaseCompleted", ReleasedChord)
        BY <1>7, <2>2, ReceiveCases DEF ProcessAltUp
      <3>2. restoredBy # 0 => LastChord # chords
        BY <1>7, <2>2, CompletesCleared DEF Restored
      <3> QED
        BY <1>3, <1>4, <1>5, <2>1, <2>2, <3>1, <3>2
    <2>3. CASE ~(raw[1].key = "KeydLeftAltUp" /\ release_phase = "WaitingForAltUp")
      <3>1. raw[1].chord \in Nat
        BY <1>7, TailRaw
      <3>2. \/ log' = log \/ Emits("Press", raw[1].chord) \/ Emits("ReleaseStarted", raw[1].chord)
        BY <1>7, <2>3, ReceiveCases
        DEF ProcessF24Down, ProcessF24Up, ProcessAltDown, ProcessAltUp, Produce, Emits, outVars
      <3>3. Cleared
        BY <1>2, <3>1, <3>2, AppendLog DEF Produced, Emits, HotkeyEvents
      <3> QED
        BY <2>1, <3>3
    <2> QED
      BY <2>2, <2>3
  <1>8. CASE User
    BY <1>2, <1>8, UserRestored DEF User, PressAlt, PressSpace, ReleaseSpace, ReleaseAlt, outVars
  <1>9. ASSUME NEW d \in Devices, read_keyboard_events(d)
        PROVE  Restored' /\ log' = log
    BY <1>9, ReadRestored DEF read_keyboard_events, outVars
  <1>10. ASSUME NEW d \in Devices, Unplug(d) \/ Rescan(d)
         PROVE  FALSE
    BY <1>10 DEF Unplug, Rescan, OneDevice, CycleInv, TypeOK
  <1>11. CASE Tick
    BY <1>2, <1>11, TickRestored, TickCases DEF outVars
  <1>12. CASE Send \/ Recv \/ UNCHANGED vars
    <2>1. UNCHANGED <<userVars, deviceVars, raw, stateVars, log>>
      BY <1>12 DEF Send, Recv, vars, outVars
    <2>2. Stream' = Stream
      BY <2>1 DEF Stream, deviceVars
    <2> QED
      BY <1>2, <2>1, <2>2 DEF Restored, RestoredInv, AgeInv, Played, LastChord, userVars, deviceVars, stateVars
  <1> QED
    BY <1>2, <1>6, <1>7, <1>8, <1>9, <1>10, <1>11, <1>12 DEF Next, Machine

\* With one keyboard whose reader is faster than the settle interval, the Alt
\* given back at the end of a recording is up again when its ReleaseCompleted
\* is produced, however late the state machine runs (hotkey.rs:29-33, 109-124).
THEOREM AltCleared ==
  ASSUME OneDevice, QuickReader
  PROVE  Spec => RestoredAltCleared
  <1>1. Init => Restored
    BY HotkeyAssumption DEF Init, Restored, RestoredInv, AgeInv, Played
  <1>2. TypeOK /\ LogInv /\ CycleInv /\ Restored /\ [Next]_vars => CycleInv' /\ Restored'
    BY CycleNext, RestoredNext
  <1>3. TypeOK /\ LogInv /\ CycleInv /\ Restored /\ [Next]_vars =>
          [Produced("ReleaseCompleted") => restoredBy # log'[Len(log')].chord]_vars
    BY RestoredNext
  <1> QED
    BY <1>1, <1>2, <1>3, CycleInit, TypesKept, PTL DEF Spec, RestoredAltCleared
=============================================================================

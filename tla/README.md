# daapSTT in TLA+

daapSTT is a push-to-talk dictation daemon for Linux (Rust, one Tokio process)
with an optional IBus engine (Python).  The user holds Alt+Space, which keyd turns
into F24; while it is held the daemon records the microphone, mutes other
applications, and transcribes either after the release (Batch) or while the user
speaks (Realtime); the text is typed with `wtype`, pasted, or committed through the
IBus engine.  This directory holds the specifications of that program, the TLC
configurations that check them, and the proofs of their main invariants.

Paths below are relative to the repository.  Lines of the code that every
definition stands for are in `PROJECT.json` ("map").

## 1. Inventory

| component | files | state | operations | talks to |
|---|---|---|---|---|
| hotkey | `src/hotkey.rs` | per device: a reader thread; raw channel (128); `HotkeyState` (f24_pressed, recording, cooldown, release phase with deadline); event channel (32) | read a device, rescan devices, process a raw event, settle, send | kernel devices, main task |
| main task | `src/main.rs` | `RecordingState` (marker, mute snapshots, IME session) | event loop, batch press, batch transcription, shutdown | hotkey channel, signals, everything below |
| realtime recording | `src/realtime_mode.rs`, `realtime_mode/deferred.rs` | the locals of one recording: `LiveText`, failed, tail_safe, session_open | begin, capture loop, waits for the release, draining loop, result | hotkey channel, session, recorder, IME, wtype |
| realtime transport | `src/realtime.rs` | queue of frames, open segment, awaited answer, event stream | connect, send audio, commit, finalize | recorder, provider, main task |
| live text | `src/live_text.rs`, `deliver.rs`, `placeholder.rs`, `clipboard.rs` | committed text, latest segment, mutable tail | partial, commit, cleanup, chunk delivery | wtype (the user's screen) |
| IME client | `src/ime.rs` | connection, session id, next request id, cancellation flag | begin, partial, clear, commit, end, cancel | bridge over a Unix socket |
| IBus engine and bridge | `contrib/ibus/engine.py` | engine generation, focus, one client, one session, previous input method | handle a request, focus in and out, switch, restore | IBus, IME client |
| audio | `src/audio.rs` | pw-record process, sample buffer | start, fan out, stop, peak, WAV | recorder process, session |
| mute | `src/media.rs`, `src/mic.rs` | snapshots of what was muted | mute, restore | pactl |
| batch transcription | `src/transcribe.rs`, `src/transcript.rs` | none | request with retries, clean | HTTP |
| stores | `src/mode.rs`, `src/keyterms.rs` | two files | load, replace by rename, add, remove, edit | file system, systemctl |
| config, window, notify | `src/config.rs`, `src/window.rs`, `src/notify.rs` | none | read the environment, classify the focused window, notify | hyprctl, notify-send |
| packaging | `contrib/` services, launcher, patched frontend | none | | systemd, IBus |

Interactions.  The hotkey task and the main task share only the event channel; the
session task and the main task a control and an event channel; the recorder and the
session task a queue of frames; the IME client and the bridge newline-framed JSON
with one request at a time plus unsolicited `cancelled` events; the signal task wakes
the others with a `Notify`.  Everything else (wtype, pactl, pw-record, HTTP) is called
and awaited by the main task, so recordings never overlap.

What is hard, and for which component correct means what:

* **hotkey** - two timers race with key transitions that reach the state machine late
  and from several devices.  Correct: the events are the cycle Press, ReleaseStarted,
  ReleaseCompleted; ReleaseCompleted is never sent while keyd holds a restored Alt; a
  mirrored sequence is no chord; a started release completes.
* **recordings** - about thirty ways to end, each with its own cleanup, over six kinds
  of awaits.  Correct: everything taken is given back; no key is sent while Alt may be
  held or its state is unknown; the text is delivered once; the handler returns.
* **transport** - answers carry no id, Finalize races with queued audio, the provider
  may close or fail at any point.  Correct: an answer is taken for the commit it
  answers; no accepted audio is lost; the stream of events ends with one Completed.
* **live text** - edits are relative to a screen the program cannot read, and may fail
  half-way.  Correct: screen and state agree as long as nothing failed; nothing but the
  tail is ever deleted; the fallback finds a clean line.
* **IME** - a request may be applied without an answer; focus and generation change at
  any time, also between the questions the bridge asks IBus and the hand-over of the
  text.  Correct: at most one commit, after its field was found to have the focus; a stale
  session is refused; the previous input method comes back.
* **mute** - the lists are stale when the commands run, and the switches belong to
  others.  Correct: nothing stays muted, nothing its owner muted is touched.
* **shutdown** - one `Notify` with one permit wakes three tasks, each of which may be
  busy when it is called or take a wake-up meant for another; the runtime waits for
  reader threads.  Correct: whoever awaits the device manager leaves it a wake-up; no
  device is read twice; once the right tasks heard the signal the process ends.
* **stores** - commands, an editor left open and the daemon share two files; every step
  may fail, be killed or be cut off by a power failure.  Correct: a file is always
  loadable, changes are not lost, the daemon runs in the stored mode.
* **capture and batch transcription** - pw-record may not obey, the drain task may be
  late, the provider may fail.  Correct: what is returned is what was recorded, the
  provider gets audible recordings only and again only after a passing failure, and it
  all ends.

## 2. Plan

Order, most important behaviour first; done means modelled and checked.

| step | modules | state |
|---|---|---|
| 1 | `HotkeyProtocol` (abstract), `Hotkey`; `HotkeyProofs` | done: the view, both action properties and the refinement proved |
| 2 | `Recording`, the main task for both modes | done |
| 3 | `RecordingProofs` | done: inductive invariant, types and all eight safety properties |
| 4 | `SessionEvents` (abstract), `RealtimeSession` | done |
| 5 | `LiveText`, `LiveDelivery`, implementing the text flags of `Recording`; `LiveDeliveryProofs` | done: the functions, the screen and the refinement proved |
| 6 | `ImeDictation` (abstract), `ImeSystem`: client (`ime.rs`) and bridge (`engine.py`) with IBus, the user, and frames in both directions | done |
| 7 | `Mute`: `media.rs`, `mic.rs` against devices that come, go and are muted by their owners; `AudioProofs` | done: inductive invariant and all three properties proved |
| 8 | `Shutdown`: signal, `Notify`, state machine, device manager, readers, main task: who misses a wake-up | done |
| 9 | `Stores`: both files with crashes and two writers; `Capture` and `Transcription`: from the pipe of the recorder to the last retry | done |
| 10 | `RealtimeSessionProofs`, `ImeSystemProofs`, `ShutdownProofs`, `StoresProofs`, `AudioProofs` | done: every safety property the runs check of these modules, and both refinements |
| 11 | `Dictation`: `Hotkey` and `Recording` composed, so that the exceptions in `KeysWaitForAlt` are stated with the real Alt | later |

Abstract specifications worth stating: `HotkeyProtocol` and `SessionEvents` (both
there), `ImeDictation` (there).  What the stores promise is stated with history variables
(`due`) rather than as a specification of its own.

Theorems still worth proving: none for the properties the runs check, liveness aside.
`Dictation` would want one, that `KeysWaitForAlt` holds with keyd's Alt in place of the
events; `EventsCycle` and `AltCleared` are what it would rest on.

## 3. The modules

**`HotkeyProtocol`** is the contract of the event channel: Press, ReleaseStarted,
ReleaseCompleted, again and again, each triple for one of the user's chords (`Chords`) and chords in order.

**`Hotkey`** follows a key from the user's hand to the channel.  The user's hand and
keyd are the environment (`PressAlt`, `PressSpace`, `ReleaseSpace`, `ReleaseAlt`): keyd
lifts Alt while F24 is down and gives it back right after F24-up if Alt is still held,
so it outputs one transition at a time or two (`Output`).
Every monitored device buffers the transitions its reader will care about;
`read_keyboard_events` moves one to the raw channel; `Receive` is one iteration of the
state machine's select with `HotkeyState::process`, `settle` the timer branch (it needs
an empty raw channel: the select is biased), `Send` the awaited send, `Recv` the main
task.  Time is discrete; `Tick` moves the timers while the state machine waits, and no
transition stays unread for longer than its device's `Lag`.  `log` is history.

**`Recording`** is the main task.  `pc` is the await it is at; every action is the code
from one await to the next, including the cleanup it performs.  The `select!`s of the
capture and draining loops are biased, so a branch is guarded by the branches before
it not being ready.  Environment: the hotkey task (`HkPress`, ...), the realtime
session (`process_realtime_event` chooses what arrives), the IME bridge
(`ImeInvalidated`, and failing requests), signals.  Text is abstracted to what decides
control: something was committed, a tail is visible, the tail is safe to edit.
`heard` records how much of its release a recording has taken, `keysWhile` at which of
these points keys were sent, `delivered` how text reached the user.  Recording admits
more of the hotkey task than `HotkeyProtocol`: a press while a release is pending, which
`Hotkey` shows to be possible with a mirrored device.

**`SessionEvents`** is the contract of a session's event stream, and **`RealtimeSession`**
the session task with recorder and provider around it.  Audio is counted in bytes, the
provider keeps what it received since its last commit.  `NothingLost` excludes a session
the provider closed: `Close` ends it with Completed and no Error, whatever was pending
(the documentation of `RealtimeEvent::Completed` says so).

**`LiveText`** holds the pure functions (tail edits, placeholder parsing, clipboard
replacement, delivery of chunks), **`LiveDelivery`** the screen they leave.  A cell of
the screen is a grapheme, or the word "banana", which is one cell in texts and in edits
alike.  Each wtype call may stop after any part of its work.  `base` and `rendered` are
history: what must stay on the screen, every committed segment as a single delivery
would have typed it.  A Deferred recording types nothing until its end and then all
committed text at once; there `rendered` holds the words, and `OnScreen` what one
delivery makes of them.  `LiveDelivery` instantiates `Recording` with its flags and every
step of it is one that `Recording` allows (`ImplementsRecordingText`).

**`Mute`** is the life of the two snapshots: list the outputs and mute them one by one,
list the capture streams and mute them, record, and restore both, each `pactl` command
an action that may fail.  A device is a sink or a stream; its switch is shared with its
owner (`Choose`), and it may come and go at any moment (`Appear`, `Vanish`).  The
daemon's own capture stream appears while it records.  `chosen` and `meddled` are
history: what owners muted while no recording was on, and what they changed since;
`stuck` holds the devices on which a command failed, `hush` what has to be mute.  That
each exit of a recording reaches `stop_recording` is shown in `Recording`; `Mute` shows what that
is good for.

**`ImeDictation`** is the promise of native delivery: a dictation opens in the field that
has the focus, its text is handed over at most once, before it is closed and only after
that field was found to have the focus, and the daemon believes it delivered only if it
was handed over.  If the focus moves between the finding (`Confirm`) and the hand-over, the
dictation has `Strayed`, and only then may its text go to another field (`Misplace`); see
section 7.  **`ImeSystem`** implements it, with `focus` the field IBus answers when asked.  The bridge has two views of IBus
and they disagree in between: questions (`current_input_context`, `get_global_engine`)
are answered from the present (`ctx`, `global`), while focus changes, keys and the end
of a selection arrive one by one from `news`.  Selecting an input method is not waited
for (`switches`).  Each action of the bridge is one callback of its GLib main loop, but a
request of a dictation takes three: IBus names the field with the focus (`receive`, with
what the bridge compares by itself), IBus names the selected method (`ask`), the request
is carried out (`act`).  In between, IBus, the user and the client go on, and the bridge
hears nothing (`handling`): no other callback runs, but it may be killed.  Elsewhere the
answer of IBus is used at once, in one step: a begin and `complete_begin` note or compare
it, and whatever changes after the answer changes as well after the callback.
`Switch` may fail, or time out and yet be carried out.  `bridge_ends` is the end of its
process by whatever cause, and the start of the next one.  A dictation is one connection:
`begin` connects and asks, then one request at a time; `timed_out` may come at any
moment, after which nobody reads and the hang-up goes before any unread request
(`receive` looks at it first).  An answer to a client that is gone is lost here; in the
code sending it fails, and the bridge disconnects in the same callback instead of the
next one.  What IBus calls back from inside `commit_text` is suppressed by the code and
is news behind the commit here.  The model ends where the text is handed to IBus; what
IBus and the application do with it is theirs.

**`Shutdown`** is the end of the daemon: the event loop, the signal task, `hotkey::run`
with its state machine, the device manager and the reader threads.  A `Notify` is a
permit and the futures that wait on it; a future woken by `notify_one` and dropped
because another branch of its `select!` was taken hands the wake-up on (`drops`), one
woken by `notify_waiters` forgets it.  Keys are counted, since `Hotkey` tells them
apart.  A thread opens its device, reads it, loses it, or retries for ever; the manager
remembers a thread per device (`active`), and `forgotten` holds the live ones it no
longer knows.  `heard` is history: who acted on the signal.

**`Stores`** has the keyterms and the mode file, what a power failure would leave of
them (`durable`), the temporary files, the commands as processes that load, change,
create, write and rename, and the daemon, which reads the mode when it starts.  A term
is a model value and a file with an invalid line is `Invalid`.  `due` is history: what
the commands that succeeded amount to; `overlap` that one of them replaced a list it had
not read, which the code does not prevent.  An editor works on the list it loaded at its
start, so it is the usual cause.

**`Capture`** is one recording: pw-record with its pipe, the drain task that empties it
into the buffer and the session's queue, `stop()` with both deadlines, and the peak over
samples that go from `Smallest` (-32768 in the code) to `-Smallest - 1`.
**`Transcription`** extends it with what becomes of the audio of a batch recording: too
short, silent, keyterms that cannot be loaded, and the requests with their retries.
`RequestsJustified` compares with `Audible`, which is stated on the samples and not
through `abs`; the smallest sample is its exception, since the release build's `abs`
leaves it negative.

Operators marked `faulty` are variants of their neighbours with a plausible bug; no
specification uses them.

## 4. Runs

| run | what it checks | bounds | result |
|---|---|---|---|
| `hotkey_single` | one keyboard: refinement of `HotkeyProtocol`, `RestoredAltCleared`, `ViewCatchesUp` | 3 chords, 2 unread transitions when the user acts, cooldown 3 ticks, settle 2, lag 1, event channel of 1 | holds |
| `hotkey_mirror` | a mirror device with lag 2, devices unplugged and found again: `NoPhantomPress`, and under fairness `ReleaseCompletes` | 2 chords, 1 unplug, cooldown 3, settle 1 | holds |
| `recording` | both modes, all deliveries: `RestoredAtRest`, `MarkerGoneAtRest`, `NoKeysAfterClose`, `DeferredKeysWait`, `KeysWaitForAlt`, `DeliveredOnce`, `BatchOnCleanLine`, the inductive invariant, and that handlers return | 2 presses, channel of 2 | holds |
| `keys_during_release` | README.md:192 for every recording | 1 press | violated, see 7 |
| `keys_once_closed` | main.rs:347-348 for the shutdown branch too | 1 press | violated, see 7 |
| `realtime_session` | commits and answers paired, no audio lost, refinement of `SessionEvents`, connected sessions end | 2 frames of 1 to 3 bytes, segments of 2, 2 unasked messages | holds |
| `live_delivery` | screen equals transcript, committed text kept, clean fallback, refinement of `Recording`'s flags | both ways of typing, 9 texts over 2 letters and a full stop, 2 segments, any number of partials | holds |
| `mute` | `MutesUndone`, `ChoiceKept`, `RecordingIsPrivate` | 2 sinks, 2 capture streams of which one may be a monitor and the own stream, 1 change by an owner | holds |
| `ime_system` | refinement of `ImeDictation`; `ClientLearns`, `LiveEngine`, `MethodRestored`, `BeginEnds` | 2 fields, 2 engine objects, 2 dictations, 2 acts of the user or ends of the bridge, 2 requests each | holds |
| `shutdown` | `ManagerWillHear`, `OneReader`, and `EndsOnceHeard` under fairness | 1 device that goes once and comes back, 2 threads, 2 keys, channels of 1 | holds |
| `stores` | `StaysLoadable`, `UpdatesKept`, `RunningMode`, `NoTempLeft` | 2 processes at a time, 4 commands, 3 terms of which a file holds 2, 1 mishap | holds |
| `transcription` | `AllAudioCollected`, `RequestsJustified`, and `BatchEnds` under fairness | 3 frames of 4 bits, a pipe of 2, 2 retries | holds |

Why the bounds are enough.  *Hotkey*: the state machine forgets everything of a chord
but the cooldown and a pending release, so two chords meet in every phase and a third
follows a chord that was ignored; what matters of the durations is their order, lag
below settle below cooldown for keyd's own device, settle below lag below cooldown for
a mirror.  *Recording*: `main_press` resets a recording's state, so what survives
(marker, snapshots, IME session, queued events) shows in a second press; a channel of
two holds the events of a release behind an ignored one.  *RealtimeSession*: sizes
below, at and above the segment boundary, two frames so that a segment spans frames
and a frame spans segments; two unasked messages are an event before an answer and a
failure after it.  *LiveDelivery*: texts that extend, replace and repeat one another,
with the placeholder in every position; the second segment is the first with a
separator, and further ones start from the same state; two segments of a deferred text
are enough for a placeholder next to the seam.
*Mute*: devices of a kind are treated alike; two of them are one handled before and one
after a failure, and the proof covers any number.  *ImeSystem*: the second dictation
meets what the first left behind (marker, switches, news), a third finds the bridge as
the second did; two acts of the user are a change and its reversal, and two requests a
begin and whatever ends it.  A partial between them changes no state of the bridge.  Two
acts of the user are also the focus moved, and moved back, between the question for it and
the hand-over of the text: the run reaches a text misplaced and believed delivered.

*Shutdown*: the manager treats devices alike, and what can go wrong needs one device and
two threads for it; what each of the three tasks does when woken or busy shows with
channels of one, where a full channel and an empty one are a key apart.  *Stores*: a
lost update needs two processes, the limit a full file, a name met again a command after
one that was killed; a second mishap adds nothing that the first has not broken.
*Transcription*: three frames are what is still in the pipe, in the buffer, and a sample
between them; the levels are the smallest value, both signs of a loud one and a quiet one.

Some claims need the order of durations above.  `NoPhantomPress` fails when a mirror is
later than the cooldown, and also when the event channel is full: the state machine is then
held up in `send`, the cooldown runs out meanwhile, and the mirrored key that waits in the
raw channel is taken for a press.  (TLC finds it in the mirror instance with an event
channel of 1; the run has room for every event.)  `RestoredAltCleared` and `ImplementsProtocol` are claimed for
one keyboard: a reader later than the settle interval, or a mirrored press while Alt is
still held, defeats them.  `MethodRestored` is claimed unless IBus fails to select a
method in time, the user selects one or the bridge ends while a dictation is under way,
or a dictation begins while the restore of the one before is still under way (then
`begin` finds daapstt selected and remembers nothing to restore): the code tries once
and looks at no outcome.

`UpdatesKept` is claimed unless a command replaced a list it had not read; `StaysLoadable`
unless the user broke a file by hand; `RunningMode` unless a command could not restart
the daemon; `OneReader` except for a thread that the manager forgot while it tried to
open its device; `EndsOnceHeard` unless a thread retries to open a device that is gone.

## 5. Fairness

* `Hotkey`: readers poll (strong fairness, since a full raw channel blocks and unblocks
  them), the state machine and the main task are scheduled, time passes.  Nothing is
  assumed of the user and of devices: `ReleaseCompletes` has as its premises that Alt is
  not held for ever and that keyd's device stays.  Both are needed: a device that goes
  may take the Alt-up with it that the release waits for, without a deadline
  (`hotkey.rs:115-121`, `:403`).
* `Recording`: the main task is scheduled at every await; the session task ends with
  Completed (which `SessionEnds` shows of it, once it has connected: that connecting comes
  to an end is assumed here, and nothing in the code sees to it); the user lets go of the
  keys.  No
  fairness for cancellations, signals, time limits or a closing channel.
* `RealtimeSession`: the task is scheduled; `select!` there is not biased, so a control
  that stays ready is taken although frames keep coming (strong fairness of
  `loop_control`); deadlines pass.  Nothing is assumed of provider and recorder, nor that
  `connect_async` returns: the code sets no deadline for it (`realtime.rs:312`), so that a
  provider which accepts the connection and never answers the handshake holds the session,
  and the recording, for as long as it likes.  `SessionEnds` has as its premise that
  connecting is over.
* `Shutdown`: every task and every thread is scheduled, and a recording returns, which is
  `HandlerReturns` of `Recording`.  Nothing is assumed of signals, keys and devices, nor
  that a thread gets to read.
* `Transcription`: a process sent SIGKILL ends, `stop()` goes on when what it awaits or
  its timer is ready, a request is answered or given up after 30 seconds.  Nothing is
  assumed of the drain task, nor that pw-record ends on SIGTERM.
* `ImeSystem`, `LiveDelivery`, `Mute` and `Stores` state no liveness and assume nothing.
  (`BeginEnds` says as an invariant what a refused begin waits for.)

## 6. Proofs

Every safety property of a run that holds, action properties and refinements included, is
a theorem for all values of the constants.  A module has an inductive invariant (`IInv`;
`MuteInv` in `Mute`, and one per theorem for `Hotkey`), lemmas that the initial states
have it and every step keeps it (one lemma or step per action or group of actions),
`Invariance` (`Spec => []IInv`), and one theorem per property.  TLC has checked every
invariant on the instance of its run; the `recording` run does so each time.  The
constants are assumed to be what the ASSUME of each module says: distinct model values,
positive capacities, bounds that are numbers.  The bounds on the user, the network and the
devices are arbitrary numbers in the proofs.  Only theorems about `Hotkey` assume more, and
say what.

**`HotkeyProofs`** proves `ViewCatchesUp`, `NoPhantomPress`, `ImplementsProtocol` and
`RestoredAltCleared` for any number of chords, any capacities and durations.  What they
have in common is that a transition counts while it is still on its way, so each invariant
looks through what is in flight.
`ViewTrue` (any devices, no hypothesis): `ViewInv` says that the last transition in each
buffer, or else in the raw channel, or else the state machine's own view, is what the
keyboard does now; for Alt only keyd's device speaks.
`MirrorsIgnored` (any devices, also when they come and go) assumes `QuickMirrors`, every
reader is faster than the cooldown, and `[]Roomy`, the event channel is never full.
`StaleInv` is the race itself: while the F24-down of a chord that was recorded already
waits, the state machine records, or cooldown left and age of the transition add up to the
whole cooldown.  The code polls a device every 5 ms (`hotkey.rs:412`) against a cooldown of
200 ms, and an event channel of 32 is full only after ten chords the main task left unread.
`EventsCycle` (one keyboard that stays, `OneDevice`) needs nothing of the timers.
`CycleInv` is about `Stream`, raw channel and buffer in one: the F24 transitions alternate
and belong to chords in order (`ChordInv`), and every F24-down comes right behind an Alt
that was taken away (`AltInv`), so that it finds the release before it over; `PhaseInv` relates the
state machine to its last event.
`AltCleared` (one keyboard) assumes `QuickReader`, that the reader is faster than the settle
interval (5 ms against 20 ms, `hotkey.rs:412` and `:48`); the state machine may be as late
as it likes, since its select looks at the raw channel first.  `RestoredInv` follows the Alt
that was given back: behind its F24-up, at the reader while the timer has at least as long
to go as the reader, in the raw channel, or taken note of.
Both are assumptions about time that the code only makes likely: nothing in it bounds what
the scheduler adds to the poll.
The run `hotkey_single` satisfies `OneDevice` and `QuickReader`, `hotkey_mirror` satisfies
`QuickMirrors` and never fills its event channel.

**`RecordingProofs`** proves `RestoredAtRest`, `MarkerGoneAtRest`, `NoKeysAfterClose`,
`DeferredKeysWait`, `KeysWaitForAlt`, `DeliveredOnce`, `BatchOnCleanLine` and the types.
`IInv` adds what each await knows: `HeldInv`, which resources a recording holds where (so
that a way back to the event loop that forgets one is a step that breaks it);
`ClosedInv`, that the end of the channel, once taken, is final and only met on the way
back; `MarkerInv`, where the marker may be on the screen; `ReleaseInv`, how much of its
release a recording has taken at each await, which is what orders keys after
ReleaseCompleted; and `TextInv`, at which awaits nothing has been delivered yet and when
live text has: without it nothing keeps a fallback from following delivered text.

**`RealtimeSessionProofs`** proves `SegmentAgrees`, `NothingLost` and `ImplementsStream`
for any segment limit and any number and sizes of frames.  `CommitInv` is the heart:
what was sent is what commits covered, what the one answer under way covers, and what
the provider still holds.  `AudioInv` says the same of the frames accepted; a queue has a
total (`HasTotal`), stated by a running sum and not by recursion.  In particular
`segment_bytes` never exceeds the limit, so the subtraction in `send_audio` cannot wrap.

**`LiveDeliveryProofs`** proves the functions of `LiveText` for every text, by induction
on numbers, and then the screen.  `EditReplacesTail`: the edit between two tails turns
one into the other.  `ParsingLosesNothing`: the chunks spell the text.
`ReplacingIsDelivering`: pasting inside a segment that is on the screen already leaves
what delivering the segment at once leaves.  The invariant says what `LiveText` knows of
the screen while the recording goes on (`WhileLive`: exactly the user's text, marker,
committed text and tail, or, when a call failed part-way, an extension of what must
stay; `WhileDeferred`: nothing typed, everything kept) and how the flags relate
(`Flags`); `ScreenIsTranscript` by itself says nothing once a call failed, and
`CommittedTextKept` does not say what a Backspace meets.  `TextImplemented` is the
refinement: the flags `Recording` reasons with are those of the texts.  It needs one more
invariant, that the segment late partials are compared with was committed.

**`ImeSystemProofs`** proves `ClientLearns`, `LiveEngine`, `MethodRestored`, `BeginEnds`
and `ImplementsDictation`, for any fields, engine objects and number of dictations.  The
invariant has a part per thing that is under way: `ClientInv`, who owns the begin and the
session; `HandlingInv`, that a dictation is past its question for the focus exactly while
the bridge is at its commit, and its field has the focus until the user moves it;
`MarkerInv`, that exactly one end of a selection is on its way while there is a
marker, as a call or as news, and none otherwise; `AnswerInv`, what an answer on the
socket means to the client that will read it; `FocusInv`, that the bridge knows the engine
IBus listens to or is about to be told; and `SelectionInv`, where the user's input method
is between chosen and "daapstt".  The refinement follows step by step: begin opens, the
answer of IBus confirms, commit inserts or, after the focus moved, may misplace, whatever
ends a session closes, the answer makes the client believe.

**`ShutdownProofs`** proves `ManagerWillHear` and `OneReader` for any devices, threads and
capacities.  `NotifyInv`: a task has a future only where its `select!` is, and `hotkey::run`
goes on in order; lemmas say what each of the three ways to wake and to drop a future
leaves to the manager.  `ReaderInv`: an entry of `active` is the thread that reads the
device, unless the entry was removed under a live thread.

**`StoresProofs`** proves `StaysLoadable`, `UpdatesKept`, `RunningMode` and `NoTempLeft`
for any processes, terms and limits.  `CommandInv` is what a command holds at each of its
steps: what it is about to store is its effect on the list it loaded.  `ReadsWhatIsMeant`
is about the loop of `parse`: it returns the first occurrence of each line, in order.

**`AudioProofs`** is about what a recording does to sound: the recorder and what becomes
of its audio, and the switches of other devices.  It proves `AllAudioCollected` and
`RequestsJustified` for any pipe and recordings of any length.  `SilenceExact` is about the
loop of `compute_peak_amplitude`: a recording is silent exactly if nobody can be heard in
it, the smallest sample apart.  And it proves `MutesUndone`, `ChoiceKept` and `RecordingIsPrivate` for any sets
of sinks and streams.  The invariant adds who accounts for each muted device (`HeldInv`),
that snapshots are consumed on the way to rest (`RestInv`), that no pending command is for
a device its owner muted at rest (`ClaimInv`), and how far the listing has come
(`HushInv`).  `ChoiceKept` needs `ClaimInv`: it is the snapshot given up before the
commands run that keeps a repeated cleanup from unmuting something muted since.

Loops over data are recursive functions here, and what they compute for every input is
proved with `Induction` (a set of numbers that has zero and every successor is all of
them), itself proved from the well-foundedness of the numbers or by counting, since the
library's theorem takes an operator (the first transition of a kind in a sequence,
`FirstExists`, comes from well-foundedness too); before it, that the function exists
(`ReadingExists`, `PeakExists`, `RecursionExists`, `FlatteningExists`).

Only model-checked: the liveness properties (`ReleaseCompletes`, `HandlerReturns`,
`SessionEnds`, `EndsOnceHeard`, `BatchEnds`), since fairness and ENABLED are beyond the
prover; and the two properties of section 7, which do not hold.

## 7. Where code and documentation disagree

* `keys_during_release`: a Live recording stopped by the time limit goes on typing what
  the session still sends, and ignores the release events (`realtime_mode.rs:328`).
  README.md:192 says reconciliation waits until the restored Alt is released.
  `KeysWaitForAlt` is the rule that does hold: this is its only exception.
* `keys_once_closed`: the rule that a closed channel forbids keyboard cleanup
  (`main.rs:347-348`) is kept by every recording, proved as `NoKeysAfterClose`; the
  shutdown branch of the event loop (`main.rs:183`) still removes a marker such a
  recording left.

Four more, each a sentence of a comment or of the documentation that no run is spent on:

* `hotkey.rs:151-152` says of the `Notify` that "the state machine and manager use it to
  exit cleanly".  `notify_waiters()` (`main.rs:161`) wakes only who waits at that moment:
  a state machine that is processing or sending, or a manager that rescans, never learns
  of the signal, and a main task in a recording neither; and the `notify_one()` the main
  task leaves for the state machine (`main.rs:190`) may be taken by the manager.  The signal
  task ends with the first signal, so a second one changes nothing.  A signal can thus go
  unanswered, or the process wait for a key before it ends; `EndsOnceHeard` says which
  tasks must have heard it.
* `hotkey.rs:347` says of a device that cannot be opened "if it fails, just return"; the
  loop below it retries for ever, and keeps the process from ending (`StuckReader`).
* README.md:114 says that after a change of field "the dictation session is invalidated and
  late results are refused".  A commit asks IBus for the focus (`engine.py:488`), then for
  the selected method (`:491`), and then hands the text over (`:608-609`); a change of
  field in between is heard only afterwards, so that the text goes out with another field
  focused, and the daemon believes it delivered.  `ImeDictation` names it (`Misplace`), and
  `ImplementsDictation` shows that there is no other way.  (A method deselected in this
  window is in the model as well; it is not told apart.)
* `transcribe.rs:206` says invalid keyterms "are ignored rather than making a recording
  fail"; `load` has refused the whole file by then (`keyterms.rs:110`), and the
  transcription fails (`load_keyterms`).

## 8. Not modelled

Of the bridge: shape and size limits of frames (its client sends well-formed ones) and
which keys count as modifiers.  `paste` is an operation no client sends; it changes
nothing in the bridge and is `handle_partial`.  Left out for good: the parsing of
arguments, configuration, JSON and HTTP encodings, notifications and wording, the
classification of windows (a nondeterministic choice of delivery), the paste shortcut,
the WAV header, the cleaning of transcripts, what makes a keyterm valid, the drawing of
the editor, service files and the patched IBus frontend.

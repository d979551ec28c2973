----------------------------- MODULE Recording -----------------------------
(***************************************************************************)
(* The daemon's main task: src/src/main.rs (the event loop, batch           *)
(* recordings, batch transcription) and src/src/realtime_mode.rs with       *)
(* deferred.rs (realtime recordings).  One task runs one recording at a     *)
(* time; `pc' names the await it is at:                                     *)
(*                                                                          *)
(*   main       the select of the event loop                                *)
(*   begin, start          a press was taken, nothing records yet           *)
(*   b_started             batch: recording, waiting for the release        *)
(*   n_started, n_completed, n_stop   recording without a realtime session  *)
(*   capture               recording with a realtime session                *)
(*   abort                 the capture loop ended early                     *)
(*   stop                  the capture ended normally                       *)
(*   w_started, w_completed   waiting until Alt cannot be held any more     *)
(*   audio                 the recorder's result is looked at               *)
(*   final, final_abort    realtime: draining the session after Finalize    *)
(*   finish                realtime: last edits                             *)
(*   batch, transcribe, ime_batch   batch transcription of the recording    *)
(*                                                                          *)
(* The environment is the hotkey task (through its channel, see Hotkey),    *)
(* the realtime session task, the IME bridge, the clock and the signals.    *)
(* Text is abstracted to what decides control: whether anything was         *)
(* committed and whether a mutable tail is visible.                         *)
(*                                                                          *)
(* A definition marked faulty stands beside the one it is a variant of; it   *)
(* is used by no specification, only to see a property fail.                *)
(***************************************************************************)
EXTENDS Naturals, Sequences

CONSTANTS
    Modes,        \* operating modes the daemon may have been started in
    Deliveries,   \* deliveries the active window may call for
    MuteOutputs,  \* config.mute_audio_outputs
    MuteMics,     \* config.mute_other_mic_apps
    ChanCap,      \* capacity of the HotkeyEvent channel (32)
    MaxPresses    \* bound: presses the hotkey task reports

ASSUME RecordingAssumption ==
    /\ Modes \subseteq {"Batch", "Realtime"}
    /\ Deliveries \subseteq {"Live", "Ime", "Deferred"}
    /\ MuteOutputs \in BOOLEAN /\ MuteMics \in BOOLEAN
    /\ ChanCap \in Nat \ {0}
    /\ MaxPresses \in Nat

VARIABLES
    mode, pc, delivery,
    chan,            \* HotkeyEvent channel
    txOpen,          \* the hotkey task still holds its sender
    hkRecording,     \* HotkeyState.recording
    hkReleasing,     \* HotkeyState.release_phase is not Idle
    presses,
    sigterm,         \* a termination signal was received
    smStops,         \* ... and found the hotkey state machine waiting for it
    notified,        \* the main loop's shutdown future: "no", "waiters", "permit"
    sinksMuted, micsMuted,   \* the snapshots of media.rs and mic.rs hold something
    recorder,        \* pw-record runs
    marker_active,
    ime,             \* the IME session: "none", "open", "closed" (torn down by an error)
    cancelled,       \* Cancellation.happened of that session
    rt,              \* realtime task: "none", "running", "erred", "done"
    session_open, failed, tail_safe,
    committed, tail, \* LiveText: committed_any, and a tail is visible
    why,             \* what stopped the recording: "none" yet, "released", "timeout"
    audio,           \* "none", "err", "short", "silent" or "usable"
    heard,           \* history: how much of its release this recording has taken
    keysWhile,       \* history: values of heard at which keys were sent
    delivered        \* history: the ways this recording's text reached the user

hkVars == <<chan, txOpen, hkRecording, hkReleasing, presses>>
sigVars == <<sigterm, smStops, notified>>
muteVars == <<sinksMuted, micsMuted>>
imeVars == <<ime, cancelled>>
keyVars == <<marker_active, keysWhile>>
rtVars == <<rt, session_open, failed>>
textVars == <<tail_safe, committed, tail, delivered>>
vars == <<mode, pc, delivery, hkVars, sigVars, muteVars, recorder, imeVars,
          rtVars, textVars, why, audio, heard, keyVars>>

Init ==
    /\ mode \in Modes
    /\ pc = "main" /\ delivery = "Live"
    /\ chan = << >> /\ txOpen = TRUE
    /\ hkRecording = FALSE /\ hkReleasing = FALSE /\ presses = 0
    /\ sigterm = FALSE /\ smStops = FALSE /\ notified = "no"
    /\ sinksMuted = FALSE /\ micsMuted = FALSE
    /\ recorder = FALSE /\ marker_active = FALSE
    /\ ime = "none" /\ cancelled = FALSE
    /\ rt = "none" /\ session_open = FALSE /\ failed = FALSE
    /\ tail_safe = TRUE /\ committed = FALSE /\ tail = FALSE
    /\ why = "none" /\ audio = "none"
    /\ heard = "none" /\ keysWhile = {} /\ delivered = {}

-----------------------------------------------------------------------------
(* The hotkey task, as its channel shows it.  Mirrored keyboards may report *)
(* a press while a release is still pending (see Hotkey).                   *)

HkSend(event) ==
    /\ txOpen /\ Len(chan) < ChanCap
    /\ chan' = Append(chan, event)
    /\ UNCHANGED <<mode, pc, delivery, txOpen, sigVars, muteVars, recorder, imeVars,
                   rtVars, textVars, why, audio, heard, keyVars>>

HkPress ==
    /\ ~hkRecording /\ presses < MaxPresses
    /\ hkRecording' = TRUE /\ presses' = presses + 1
    /\ UNCHANGED hkReleasing
    /\ HkSend("Press")

HkReleaseStarted ==
    /\ hkRecording
    /\ hkRecording' = FALSE /\ hkReleasing' = TRUE
    /\ UNCHANGED presses
    /\ HkSend("ReleaseStarted")

HkReleaseCompleted ==
    /\ hkReleasing
    /\ hkReleasing' = FALSE
    /\ UNCHANGED <<hkRecording, presses>>
    /\ HkSend("ReleaseCompleted")

\* SIGTERM, SIGINT or Ctrl+C: notify_waiters() reaches the main loop and the
\* state machine only if each is waiting at that moment.
Signal ==
    /\ ~sigterm /\ pc # "exited"
    /\ sigterm' = TRUE
    /\ smStops' \in BOOLEAN
    /\ notified' = IF pc = "main" THEN "waiters" ELSE notified
    /\ UNCHANGED <<mode, pc, delivery, hkVars, muteVars, recorder, imeVars, rtVars,
                   textVars, why, audio, heard, keyVars>>

\* The state machine left its loop and dropped the sender; the notify_one() of
\* hotkey::run that follows wakes the device manager or leaves a permit.
HkStop ==
    /\ smStops /\ txOpen
    /\ txOpen' = FALSE
    /\ notified' \in {notified, "permit"}
    /\ UNCHANGED <<mode, pc, delivery, chan, hkRecording, hkReleasing, presses, sigterm,
                   smStops, muteVars, recorder, imeVars, rtVars, textVars, why, audio,
                   heard, keyVars>>

\* The bridge invalidates the session (focus, user input, disconnect).
ImeInvalidated ==
    /\ ime = "open" /\ ~cancelled
    /\ cancelled' = TRUE
    /\ UNCHANGED <<mode, pc, delivery, hkVars, sigVars, muteVars, recorder, ime, rtVars,
                   textVars, why, audio, heard, keyVars>>

-----------------------------------------------------------------------------
(* Helpers shared by every path of a recording.                             *)

\* Keys are sent to the focused window (wtype).
Keys(sent) == keysWhile' = IF sent THEN keysWhile \cup {heard} ELSE keysWhile

cleanup_marker_Kept == Keys(marker_active) /\ UNCHANGED marker_active    \* faulty

cleanup_marker ==
    /\ Keys(marker_active)
    /\ marker_active' = FALSE

restore_recording_audio_OutputsOnly == sinksMuted' = FALSE /\ UNCHANGED micsMuted   \* faulty

restore_recording_audio ==
    /\ sinksMuted' = FALSE
    /\ micsMuted' = FALSE

finish_ime_Kept == UNCHANGED imeVars                        \* faulty

\* end or cancel, then the session is dropped; an error only logs.
finish_ime ==
    /\ ime' = "none"
    /\ cancelled' = FALSE

HotkeyReady == chan # << >> \/ ~txOpen
Closed_Ignored == FALSE                                     \* faulty
Closed == chan = << >> /\ ~txOpen

\* hotkey_rx.recv() returned `event'.
Take(event) ==
    /\ chan # << >> /\ Head(chan) = event
    /\ chan' = Tail(chan)
    /\ heard' = CASE event = "ReleaseStarted" /\ heard = "none" -> "started"
                  [] event = "ReleaseCompleted" /\ heard = "started" -> "completed"
                  [] OTHER -> heard
    /\ UNCHANGED <<txOpen, hkRecording, hkReleasing, presses>>

\* hotkey_rx.recv() returned None.
TakeClosed ==
    /\ Closed
    /\ heard' = "closed"
    /\ UNCHANGED hkVars

\* An event the current wait does not care about.
Ignore(events) ==
    /\ \E event \in events : Take(event)
    /\ UNCHANGED <<mode, pc, delivery, sigVars, muteVars, recorder, imeVars, rtVars,
                   textVars, why, audio, keyVars>>

-----------------------------------------------------------------------------
(* The event loop.                                                          *)

\* A notify_waiters() wake-up is lost when the select takes the other branch.
Unwoken == notified' = IF notified = "waiters" THEN "no" ELSE notified

main_press ==
    /\ pc = "main"
    /\ chan # << >> /\ Head(chan) = "Press"
    /\ chan' = Tail(chan)
    /\ Unwoken
    /\ why' = "none" /\ audio' = "none" /\ heard' = "none"
    /\ rt' = "none" /\ session_open' = FALSE /\ failed' = FALSE
    /\ tail_safe' = TRUE /\ committed' = FALSE /\ tail' = FALSE
    /\ delivered' = {} /\ keysWhile' = {}
    /\ UNCHANGED <<mode, txOpen, hkRecording, hkReleasing, presses, sigterm, smStops,
                   muteVars, recorder, marker_active>>
    /\ \/ mode = "Batch" /\ pc' = "begin" /\ UNCHANGED <<delivery, imeVars>>
       \/ /\ mode = "Realtime"
          /\ delivery' \in Deliveries
          /\ \/ delivery' # "Ime" /\ pc' = "begin" /\ UNCHANGED imeVars
             \/ delivery' = "Ime" /\ pc' = "begin" /\ ime' = "open" /\ cancelled' = FALSE
             \/ delivery' = "Ime" /\ pc' = "main" /\ UNCHANGED imeVars  \* begin failed

main_stray ==
    /\ pc = "main"
    /\ chan # << >> /\ Head(chan) # "Press"
    /\ chan' = Tail(chan)
    /\ Unwoken
    /\ UNCHANGED <<mode, pc, delivery, txOpen, hkRecording, hkReleasing, presses, sigterm,
                   smStops, muteVars, recorder, imeVars, rtVars, textVars, why, audio,
                   heard, keyVars>>

main_closed ==
    /\ pc = "main" /\ Closed
    /\ pc' = "exited"
    /\ UNCHANGED <<mode, delivery, hkVars, sigVars, muteVars, recorder, imeVars, rtVars,
                   textVars, why, audio, heard, keyVars>>

main_shutdown ==
    /\ pc = "main" /\ notified # "no"
    /\ finish_ime /\ cleanup_marker /\ restore_recording_audio
    /\ pc' = "exited"
    /\ UNCHANGED <<mode, delivery, hkVars, sigVars, recorder, rtVars, textVars, why, audio, heard>>

-----------------------------------------------------------------------------
(* Starting a recording.                                                    *)

ShowMarker == mode = "Batch" \/ delivery = "Live"

begin_recording ==
    /\ pc = "begin"
    /\ \/ /\ sinksMuted' = MuteOutputs /\ micsMuted' = MuteMics
          /\ Keys(ShowMarker)
          /\ marker_active' = (marker_active \/ ShowMarker)
          /\ pc' = "start"
          /\ UNCHANGED imeVars
       \/ /\ ShowMarker                       \* the marker could not be typed
          /\ Keys(TRUE)
          /\ restore_recording_audio
          /\ finish_ime
          /\ pc' = "main"
          /\ UNCHANGED marker_active
    /\ UNCHANGED <<mode, delivery, hkVars, sigVars, recorder, rtVars, textVars, why, audio, heard>>

start_recording ==
    /\ pc = "start"
    /\ \/ /\ recorder' = TRUE
          /\ \/ mode = "Batch" /\ pc' = "b_started" /\ UNCHANGED <<rt, session_open, failed>>
             \/ /\ mode = "Realtime"
                /\ pc' = "capture"
                /\ rt' = "running" /\ session_open' = TRUE
                /\ UNCHANGED failed
             \/ /\ mode = "Realtime"          \* keyterms or session could not be had
                /\ pc' = "n_started"
                /\ failed' = TRUE
                /\ UNCHANGED <<rt, session_open>>
          /\ UNCHANGED <<muteVars, imeVars, keyVars>>
       \/ /\ finish_ime /\ cleanup_marker /\ restore_recording_audio
          /\ pc' = "main"
          /\ UNCHANGED <<recorder, rtVars>>
    /\ UNCHANGED <<mode, delivery, hkVars, sigVars, textVars, why, audio, heard>>

-----------------------------------------------------------------------------
(* Waiting for the release without a realtime session.                      *)

\* handle_batch_press: timeout(max_dur, wait_for_release_started).
batch_released ==
    /\ pc = "b_started"
    /\ Take("ReleaseStarted")
    /\ why' = "released" /\ pc' = "stop"
    /\ UNCHANGED <<mode, delivery, sigVars, muteVars, recorder, imeVars, rtVars, textVars,
                   audio, keyVars>>

batch_timeout ==
    /\ pc = "b_started" /\ ~HotkeyReady
    /\ why' = "timeout" /\ pc' = "stop"
    /\ UNCHANGED <<mode, delivery, hkVars, sigVars, muteVars, recorder, imeVars, rtVars,
                   textVars, audio, heard, keyVars>>

batch_closed_Cleaning ==                                    \* faulty
    /\ pc = "b_started"
    /\ Closed /\ heard' = "closed"
    /\ recorder' = FALSE
    /\ restore_recording_audio
    /\ marker_active' = FALSE /\ keysWhile' = keysWhile \cup {"closed"}
    /\ pc' = "main"
    /\ UNCHANGED <<mode, delivery, hkVars, sigVars, imeVars, rtVars, textVars, why, audio>>

batch_closed ==
    /\ pc = "b_started"
    /\ TakeClosed
    /\ recorder' = FALSE
    /\ restore_recording_audio
    /\ pc' = "main"
    /\ UNCHANGED <<mode, delivery, sigVars, imeVars, rtVars, textVars, why, audio, keyVars>>

wait_for_release_started ==
    /\ pc \in {"b_started", "n_started", "w_started"}
    /\ Ignore({"Press", "ReleaseCompleted"})

wait_for_release_completion ==
    /\ pc \in {"n_completed", "w_completed"}
    /\ Ignore({"Press", "ReleaseStarted"})

\* The wait of a realtime recording whose session could not be started.
no_session_released ==
    /\ \/ pc = "n_started" /\ Take("ReleaseStarted") /\ pc' = "n_completed" /\ why' = "released"
       \/ pc = "n_completed" /\ Take("ReleaseCompleted") /\ pc' = "n_stop" /\ UNCHANGED why
    /\ UNCHANGED <<mode, delivery, sigVars, muteVars, recorder, imeVars, rtVars, textVars,
                   audio, keyVars>>

\* It gives up keyboard work when the channel closes, the session is
\* cancelled, or time runs out before a release that Deferred must see.
no_session_unsafe ==
    /\ pc \in {"n_started", "n_completed"}
    /\ \/ TakeClosed
       \/ ime # "none" /\ cancelled /\ UNCHANGED <<hkVars, heard>>
       \/ pc = "n_started" /\ ~HotkeyReady /\ delivery = "Deferred" /\ UNCHANGED <<hkVars, heard>>
    /\ recorder' = FALSE
    /\ finish_ime /\ restore_recording_audio
    /\ pc' = "main"
    /\ UNCHANGED <<mode, delivery, sigVars, rtVars, textVars, why, audio, keyVars>>

no_session_timeout ==
    /\ pc = "n_started" /\ ~HotkeyReady /\ delivery # "Deferred"
    /\ why' = "timeout" /\ pc' = "n_stop"
    /\ UNCHANGED <<mode, delivery, hkVars, sigVars, muteVars, recorder, imeVars, rtVars,
                   textVars, audio, heard, keyVars>>

finish_realtime_without_session ==
    /\ pc = "n_stop"
    /\ recorder' = FALSE
    /\ restore_recording_audio
    /\ \/ /\ audio' \in {"short", "silent", "usable"}
          /\ pc' = "finish"
          /\ UNCHANGED <<imeVars, keyVars>>
       \/ /\ audio' = "err"
          /\ finish_ime /\ cleanup_marker
          /\ pc' = "main"
    /\ UNCHANGED <<mode, delivery, hkVars, sigVars, rtVars, textVars, why, heard>>

-----------------------------------------------------------------------------
(* What a realtime event does to the text.                                  *)

Fail == failed' = TRUE /\ tail_safe' = FALSE

\* apply_live_text: the edit is typed.  The first text replaces the marker; a
\* failed edit may have typed any part of its text.
ApplyLive(commits) ==
    \/ /\ Keys(TRUE)                                    \* non-empty text
       /\ marker_active' = (marker_active /\ (committed \/ tail))
       /\ \/ /\ tail' = ~commits
             /\ committed' = (committed \/ commits)
             /\ delivered' = delivered \cup (IF commits THEN {"live"} ELSE {})
             /\ UNCHANGED <<failed, tail_safe>>
          \/ /\ Fail
             /\ UNCHANGED <<tail, committed>>
             /\ delivered' \in {delivered, delivered \cup {"live"}}
          \/ /\ commits                                 \* the clipboard paste failed
             /\ Fail
             /\ tail' = FALSE /\ committed' = TRUE
             /\ delivered' = delivered \cup {"live"}
    \/ /\ Keys(tail)                                    \* empty text removes the tail
       /\ \/ tail' = FALSE /\ UNCHANGED <<failed, tail_safe>>
          \/ tail /\ Fail /\ UNCHANGED tail
       /\ UNCHANGED <<committed, delivered, marker_active>>
    \/ /\ ~commits /\ committed                         \* late partial of the last commit
       /\ UNCHANGED <<failed, tail_safe, tail, committed, delivered, keyVars>>

\* apply_ime_live_text: the preedit is replaced, acknowledged by the bridge.
ApplyIme(commits) ==
    /\ ~cancelled
    /\ \/ commits /\ committed' = TRUE /\ tail' = FALSE
       \/ ~commits /\ tail' \in BOOLEAN /\ UNCHANGED committed
       \/ commits /\ tail' = FALSE /\ UNCHANGED committed   \* empty text
    /\ UNCHANGED <<failed, tail_safe, delivered, keyVars>>

\* One Partial or Committed event that leaves the loop running.
ApplyText(commits) ==
    \/ failed /\ UNCHANGED <<failed, textVars, keyVars>>
    \/ /\ ~failed /\ delivery = "Deferred"
       /\ committed' \in IF commits THEN {committed, TRUE} ELSE {committed}
       /\ UNCHANGED <<failed, tail_safe, tail, delivered, keyVars>>
    \/ ~failed /\ delivery = "Live" /\ ApplyLive(commits)
    \/ ~failed /\ delivery = "Ime" /\ ApplyIme(commits)

\* process_realtime_event.  The session task ends with Completed, right after
\* an Error if there was one.
process_realtime_event(partials) ==
    \/ /\ rt = "running"                                \* SessionStarted
       /\ UNCHANGED <<rt, failed, textVars, keyVars>>
    \/ /\ rt = "running"                                \* CommittedTranscript
       /\ ApplyText(TRUE)
       /\ UNCHANGED rt
    \/ /\ rt = "running" /\ partials                    \* PartialTranscript
       /\ ApplyText(FALSE)
       /\ UNCHANGED rt
    \/ /\ rt = "running"                                \* Error
       /\ rt' = "erred" /\ failed' = TRUE
       /\ UNCHANGED <<textVars, keyVars>>
    \/ /\ rt \in {"running", "erred"}                   \* Completed
       /\ rt' = "done"
       /\ UNCHANGED <<failed, textVars, keyVars>>

\* The preedit request failed: the session is torn down.  Whether the error
\* counts as a cancellation or a transport failure only decides a notification.
ime_request_failed(after) ==
    /\ session_open /\ rt = "running"
    /\ delivery = "Ime" /\ ~failed
    /\ ime' = "closed" /\ cancelled' = TRUE
    /\ Fail
    /\ pc' = after
    /\ UNCHANGED <<mode, delivery, hkVars, sigVars, muteVars, recorder, rt, session_open,
                   committed, tail, delivered, why, audio, heard, keyVars>>

ImeCancelled == ime # "none" /\ cancelled

-----------------------------------------------------------------------------
(* The capture loop (biased: cancellation, hotkey, session, timer).         *)

capture_cancelled ==
    /\ pc = "capture" /\ ImeCancelled
    /\ pc' = "abort"
    /\ UNCHANGED <<mode, delivery, hkVars, sigVars, muteVars, recorder, imeVars, rtVars,
                   textVars, why, audio, heard, keyVars>>

capture_hotkey ==
    /\ pc = "capture" /\ ~ImeCancelled
    /\ \/ Take("ReleaseStarted") /\ why' = "released" /\ pc' = "stop"
       \/ Take("ReleaseCompleted") /\ UNCHANGED <<why, pc>>
       \/ Take("Press") /\ UNCHANGED <<why, pc>>
       \/ TakeClosed /\ pc' = "abort" /\ UNCHANGED why
    /\ UNCHANGED <<mode, delivery, sigVars, muteVars, recorder, imeVars, rtVars, textVars,
                   audio, keyVars>>

capture_event ==
    /\ pc = "capture" /\ ~ImeCancelled /\ ~HotkeyReady
    /\ session_open
    /\ process_realtime_event(TRUE)
    /\ UNCHANGED <<mode, pc, delivery, hkVars, sigVars, muteVars, recorder, imeVars,
                   session_open, why, audio, heard>>

capture_ime_failed ==
    /\ pc = "capture" /\ ~HotkeyReady
    /\ ime_request_failed("abort")

capture_session_ended ==
    /\ pc = "capture" /\ ~ImeCancelled /\ ~HotkeyReady
    /\ session_open /\ rt = "done"
    /\ session_open' = FALSE /\ failed' = TRUE
    /\ UNCHANGED <<mode, pc, delivery, hkVars, sigVars, muteVars, recorder, imeVars, rt,
                   textVars, why, audio, heard, keyVars>>

capture_timeout ==
    /\ pc = "capture" /\ ~ImeCancelled /\ ~HotkeyReady
    /\ why' = "timeout" /\ pc' = "stop"
    /\ UNCHANGED <<mode, delivery, hkVars, sigVars, muteVars, recorder, imeVars, rtVars,
                   textVars, audio, heard, keyVars>>

\* The capture cannot be delivered: no keyboard work, the marker stays.
capture_abort ==
    /\ pc = "abort"
    /\ recorder' = FALSE
    /\ restore_recording_audio
    /\ finish_ime
    /\ pc' = "main"
    /\ UNCHANGED <<mode, delivery, hkVars, sigVars, rtVars, textVars, why, audio, heard, keyVars>>

-----------------------------------------------------------------------------
(* After the capture.                                                       *)

wait_for_delivery_safety_Skipped == "audio"                  \* faulty
wait_for_delivery_safety_NoTimeout ==                        \* faulty
    IF why = "released" THEN "w_completed" ELSE "audio"

\* Where wait_for_delivery_safety starts waiting, or "audio" if it need not.
wait_for_delivery_safety ==
    CASE delivery = "Ime"  -> "audio"
      [] delivery # "Ime" /\ why = "released" -> "w_completed"
      [] delivery = "Live" /\ why # "released" -> "audio"
      [] delivery = "Deferred" /\ why # "released" -> "w_started"

stop_recording ==
    /\ pc = "stop"
    /\ recorder' = FALSE
    /\ audio' \in {"err", "short", "silent", "usable"}
    /\ restore_recording_audio
    /\ pc' = IF mode = "Realtime" THEN wait_for_delivery_safety
             ELSE IF why = "released" THEN "w_completed" ELSE "audio"
    /\ UNCHANGED <<mode, delivery, hkVars, sigVars, imeVars, rtVars, textVars, why, heard, keyVars>>

release_seen ==
    /\ \/ pc = "w_started" /\ Take("ReleaseStarted") /\ pc' = "w_completed"
       \/ pc = "w_completed" /\ Take("ReleaseCompleted") /\ pc' = "audio"
    /\ UNCHANGED <<mode, delivery, sigVars, muteVars, recorder, imeVars, rtVars, textVars,
                   why, audio, keyVars>>

\* The release can no longer be observed: no keyboard work.
release_unseen ==
    /\ pc \in {"w_started", "w_completed"}
    /\ TakeClosed
    /\ finish_ime /\ restore_recording_audio
    /\ pc' = "main"
    /\ UNCHANGED <<mode, delivery, sigVars, recorder, rtVars, textVars, why, audio, keyVars>>

\* cleanup_live_tail, when it succeeds and when it fails.
TailVisible == delivery # "Deferred" /\ tail
cleanup_live_tail_Kept == (delivery = "Deferred" \/ tail_safe) /\ UNCHANGED tail   \* faulty
cleanup_live_tail ==
    /\ delivery = "Deferred" \/ tail_safe
    /\ tail' = (tail /\ delivery = "Deferred")
cleanup_live_tail_failed ==
    /\ delivery # "Deferred" /\ (~tail_safe \/ tail)
    /\ UNCHANGED tail
TailKeys == delivery = "Live" /\ tail_safe /\ tail

audio_error ==
    /\ pc = "audio" /\ audio = "err"
    /\ cleanup_live_tail \/ cleanup_live_tail_failed
    /\ Keys(TailKeys \/ marker_active)
    /\ marker_active' = FALSE
    /\ finish_ime /\ restore_recording_audio
    /\ pc' = "main"
    /\ UNCHANGED <<mode, delivery, hkVars, sigVars, recorder, rtVars, tail_safe, committed,
                   delivered, why, audio, heard>>

audio_ok_batch ==
    /\ pc = "audio" /\ audio # "err" /\ mode = "Batch"
    /\ pc' = "batch"
    /\ UNCHANGED <<mode, delivery, hkVars, sigVars, muteVars, recorder, imeVars, rtVars,
                   textVars, why, audio, heard, keyVars>>

\* Finalize is sent; the task may be gone although its events are still queued.
send_finalize ==
    /\ pc = "audio" /\ audio # "err" /\ mode = "Realtime"
    /\ failed' \in {failed, TRUE}
    /\ pc' = "final"
    /\ UNCHANGED <<mode, delivery, hkVars, sigVars, muteVars, recorder, imeVars, rt,
                   session_open, textVars, why, audio, heard, keyVars>>

-----------------------------------------------------------------------------
(* Draining the session (biased: cancellation, hotkey, session).            *)

final_cancelled ==
    /\ pc = "final" /\ session_open
    /\ \/ ImeCancelled /\ UNCHANGED <<hkVars, heard>>
       \/ ~ImeCancelled /\ TakeClosed
    /\ pc' = "final_abort"
    /\ UNCHANGED <<mode, delivery, sigVars, muteVars, recorder, imeVars, rtVars, textVars,
                   why, audio, keyVars>>

final_hotkey ==
    /\ pc = "final" /\ session_open /\ ~ImeCancelled
    /\ Ignore({"Press", "ReleaseStarted", "ReleaseCompleted"})

final_event ==
    /\ pc = "final" /\ session_open /\ ~ImeCancelled /\ ~HotkeyReady
    /\ process_realtime_event(FALSE)
    /\ UNCHANGED <<mode, pc, delivery, hkVars, sigVars, muteVars, recorder, imeVars,
                   session_open, why, audio, heard>>

final_ime_failed ==
    /\ pc = "final" /\ ~HotkeyReady
    /\ ime_request_failed("final_abort")

final_session_ended ==
    /\ pc = "final"
    /\ \/ ~session_open
       \/ session_open /\ ~ImeCancelled /\ ~HotkeyReady /\ rt = "done"
    /\ session_open' = FALSE
    /\ pc' = "finish"
    /\ UNCHANGED <<mode, delivery, hkVars, sigVars, muteVars, recorder, imeVars, rt, failed,
                   textVars, why, audio, heard, keyVars>>

final_abort ==
    /\ pc = "final_abort"
    /\ finish_ime
    /\ pc' = "main"
    /\ UNCHANGED <<mode, delivery, hkVars, sigVars, muteVars, recorder, rtVars, textVars, why,
                   audio, heard, keyVars>>

-----------------------------------------------------------------------------
(* finish_realtime_result and finish_ime_result.                            *)

Usable == audio = "usable"

realtime_next_step_AnyFailure ==                             \* faulty
    IF failed /\ Usable THEN "FallbackBatch" ELSE "Done"

realtime_next_step ==
    CASE ~failed -> "Done"
      [] failed /\ (~tail_safe \/ committed) -> "NotifyFailure"
      [] failed /\ tail_safe /\ ~committed -> IF Usable THEN "FallbackBatch" ELSE "Done"

\* Nothing usable was recorded, or the session delivered what there is.
finish_delivered ==
    /\ pc = "finish" /\ delivery # "Ime"
    /\ ~Usable \/ realtime_next_step # "FallbackBatch"
    /\ cleanup_live_tail \/ cleanup_live_tail_failed
    /\ LET deferred == Usable /\ delivery = "Deferred" /\ committed
       IN  /\ Keys(TailKeys \/ deferred \/ marker_active)
           /\ delivered' = delivered \cup (IF deferred THEN {"deferred"} ELSE {})
    /\ marker_active' = FALSE
    /\ restore_recording_audio
    /\ pc' = "main"
    /\ UNCHANGED <<mode, delivery, hkVars, sigVars, recorder, imeVars, rtVars, tail_safe,
                   committed, why, audio, heard>>

finish_fallback ==
    /\ pc = "finish" /\ delivery # "Ime" /\ Usable
    /\ realtime_next_step = "FallbackBatch"
    /\ \/ /\ cleanup_live_tail
          /\ Keys(TailKeys)
          /\ pc' = "batch"
          /\ UNCHANGED <<marker_active, muteVars>>
       \/ /\ cleanup_live_tail_failed
          /\ Keys(TailKeys \/ marker_active)
          /\ marker_active' = FALSE
          /\ restore_recording_audio
          /\ pc' = "main"
    /\ UNCHANGED <<mode, delivery, hkVars, sigVars, recorder, imeVars, rtVars, tail_safe,
                   committed, delivered, why, audio, heard>>

\* commit_ime: the commit may be applied although its answer never came; a
\* cancelled session refuses it.
commit_ime(how) ==
    \/ ~cancelled /\ delivered' = delivered \cup {how}
    \/ UNCHANGED delivered

finish_ime_result ==
    /\ pc = "finish" /\ delivery = "Ime"
    /\ IF Usable /\ failed /\ ~committed /\ tail_safe
       THEN \/ /\ ~tail \/ ~cancelled
               /\ tail' = FALSE
               /\ pc' = "batch"
               /\ UNCHANGED <<imeVars, muteVars, delivered>>
            \/ /\ tail                        \* clear failed
               /\ finish_ime /\ restore_recording_audio
               /\ pc' = "main"
               /\ UNCHANGED <<tail, delivered>>
       ELSE /\ IF Usable /\ tail_safe /\ committed /\ ime = "open"
               THEN commit_ime("ime")
               ELSE UNCHANGED delivered
            /\ finish_ime /\ restore_recording_audio
            /\ pc' = "main"
            /\ UNCHANGED tail
    /\ UNCHANGED <<mode, delivery, hkVars, sigVars, recorder, rtVars, tail_safe, committed,
                   why, audio, heard, keyVars>>

-----------------------------------------------------------------------------
(* transcribe_batch_inner and transcribe_ime_batch.                         *)

transcribe_batch_inner ==
    /\ pc = "batch"
    /\ \/ /\ ~Usable
          /\ finish_ime /\ cleanup_marker /\ restore_recording_audio
          /\ pc' = "main"
       \/ /\ Usable
          /\ pc' = IF ime # "none" THEN "ime_batch" ELSE "transcribe"
          /\ UNCHANGED <<muteVars, imeVars, keyVars>>
    /\ UNCHANGED <<mode, delivery, hkVars, sigVars, recorder, rtVars, textVars, why, audio, heard>>

\* The transcription returned; this wait does not look at the hotkey channel.
transcribed ==
    /\ pc = "transcribe"
    /\ \/ Keys(TRUE) /\ delivered' = delivered \cup {"batch"}    \* text, typed
       \/ Keys(marker_active) /\ UNCHANGED delivered              \* empty, or an error
    /\ marker_active' = FALSE
    /\ restore_recording_audio
    /\ pc' = "main"
    /\ UNCHANGED <<mode, delivery, hkVars, sigVars, recorder, imeVars, rtVars, tail_safe,
                   committed, tail, why, audio, heard>>

ime_batch_transcribed ==
    /\ pc = "ime_batch"
    /\ IF ime = "open" THEN commit_ime("ime_batch") ELSE UNCHANGED delivered
    /\ finish_ime /\ cleanup_marker /\ restore_recording_audio
    /\ pc' = "main"
    /\ UNCHANGED <<mode, delivery, hkVars, sigVars, recorder, rtVars, tail_safe, committed,
                   tail, why, audio, heard>>

ime_batch_cancelled ==
    /\ pc = "ime_batch"
    /\ \/ cancelled /\ UNCHANGED <<hkVars, heard>>
       \/ Take("Press") \/ TakeClosed
    /\ finish_ime /\ restore_recording_audio
    /\ pc' = "main"
    /\ UNCHANGED <<mode, delivery, sigVars, recorder, rtVars, textVars, why, audio, keyVars>>

ime_batch_hotkey ==
    /\ pc = "ime_batch"
    /\ Ignore({"ReleaseStarted", "ReleaseCompleted"})

-----------------------------------------------------------------------------
MainLoop == main_press \/ main_stray \/ main_closed \/ main_shutdown

Begin == begin_recording \/ start_recording

\* The waits for the hotkey task outside the capture and the draining loop.
Release ==
    \/ batch_released \/ batch_timeout \/ batch_closed
    \/ wait_for_release_started \/ wait_for_release_completion
    \/ no_session_released \/ no_session_unsafe \/ no_session_timeout
    \/ release_seen \/ release_unseen

Capture ==
    \/ capture_cancelled \/ capture_hotkey \/ capture_event \/ capture_ime_failed
    \/ capture_session_ended \/ capture_timeout \/ capture_abort

Finish ==
    \/ stop_recording \/ finish_realtime_without_session
    \/ audio_error \/ audio_ok_batch \/ send_finalize
    \/ finish_delivered \/ finish_fallback \/ finish_ime_result

Final ==
    \/ final_cancelled \/ final_hotkey \/ final_event \/ final_ime_failed
    \/ final_session_ended \/ final_abort

Batch ==
    \/ transcribe_batch_inner \/ transcribed
    \/ ime_batch_transcribed \/ ime_batch_cancelled \/ ime_batch_hotkey

Daemon == MainLoop \/ Begin \/ Release \/ Capture \/ Finish \/ Final \/ Batch

Environment ==
    \/ HkPress \/ HkReleaseStarted \/ HkReleaseCompleted
    \/ Signal \/ HkStop \/ ImeInvalidated

\* The process is gone, or the user dictates no more.
Quiet ==
    /\ pc = "exited" \/ (pc = "main" /\ presses = MaxPresses)
    /\ UNCHANGED vars

Next == Daemon \/ Environment \/ Quiet

Spec == Init /\ [][Next]_vars

\* The main task is scheduled, the session task's deadlines end it, and the
\* user lets go of the keys, which Hotkey turns into both release events.
Fairness ==
    /\ WF_vars(main_press \/ main_stray)
    /\ WF_vars(Begin) /\ WF_vars(Release) /\ WF_vars(Finish) /\ WF_vars(Batch)
    /\ WF_vars(capture_hotkey) /\ WF_vars(capture_cancelled) /\ WF_vars(capture_abort)
    /\ WF_vars(final_cancelled) /\ WF_vars(final_hotkey) /\ WF_vars(final_abort)
    /\ WF_vars(final_session_ended)
    /\ WF_vars(final_event /\ rt' = "done")
    /\ WF_vars(HkReleaseStarted) /\ WF_vars(HkReleaseCompleted)

FairSpec == Spec /\ Fairness

-----------------------------------------------------------------------------
(* Properties.                                                              *)

PCs == {"main", "begin", "start", "b_started", "n_started", "n_completed", "n_stop",
        "capture", "abort", "stop", "w_started", "w_completed", "audio", "final",
        "final_abort", "finish", "batch", "transcribe", "ime_batch", "exited"}
HotkeyEvents == {"Press", "ReleaseStarted", "ReleaseCompleted"}
Heard == {"none", "started", "completed", "closed"}
Ways == {"live", "deferred", "batch", "ime", "ime_batch"}

StageType ==
    /\ mode \in Modes /\ pc \in PCs /\ delivery \in {"Live", "Ime", "Deferred"}
    /\ ime \in {"none", "open", "closed"}
    /\ rt \in {"none", "running", "erred", "done"}
    /\ why \in {"none", "released", "timeout"}
    /\ audio \in {"none", "err", "short", "silent", "usable"}

FlagType ==
    /\ sinksMuted \in BOOLEAN /\ micsMuted \in BOOLEAN
    /\ recorder \in BOOLEAN /\ marker_active \in BOOLEAN /\ cancelled \in BOOLEAN
    /\ session_open \in BOOLEAN /\ failed \in BOOLEAN /\ tail_safe \in BOOLEAN
    /\ committed \in BOOLEAN /\ tail \in BOOLEAN

HotkeyType ==
    /\ txOpen \in BOOLEAN /\ hkRecording \in BOOLEAN /\ hkReleasing \in BOOLEAN
    /\ sigterm \in BOOLEAN /\ smStops \in BOOLEAN
    /\ notified \in {"no", "waiters", "permit"}

ChannelType ==
    /\ chan \in Seq(HotkeyEvents)
    /\ presses \in 0 .. MaxPresses

HistoryType ==
    /\ heard \in Heard /\ keysWhile \subseteq Heard
    /\ delivered \subseteq Ways

\* Every variable keeps the values the code's types give it.
TypeOK == StageType /\ FlagType /\ HotkeyType /\ ChannelType /\ HistoryType

AtRest == pc \in {"main", "exited"}

\* Whatever ends a recording (release, time limit, cancellation, failed
\* recorder, failed session, closed channel, signal), back at the event loop
\* other applications have their sound and microphone, pw-record is stopped
\* and no IME session is left open.
RestoredAtRest ==
    AtRest => ~sinksMuted /\ ~micsMuted /\ ~recorder /\ ime = "none"

\* The marker outlives a recording only if the hotkey channel closed, when no
\* key may be sent any more.
MarkerGoneAtRest ==
    pc = "main" /\ marker_active => heard = "closed"

\* "A closed channel is unsafe: callers must not perform keyboard cleanup or
\* delivery": no recording sends a key after it took the end of the channel.
NoKeysAfterClose ==
    pc # "exited" => "closed" \notin keysWhile

\* Deferred delivery: between the press and the moment Alt is known to be up
\* no key is sent, whichever way the recording went.
DeferredKeysWait ==
    mode = "Realtime" /\ delivery = "Deferred" => keysWhile \subseteq {"completed"}

\* Once a recording took ReleaseStarted it sends no key before
\* ReleaseCompleted; the exception is a recording that ended at the time
\* limit, which no longer follows the key.
KeysWaitForAlt ==
    "started" \in keysWhile => why = "timeout" /\ delivery = "Live" /\ mode = "Realtime"

\* The text of a recording reaches the user in one way only: the batch
\* fallback never repeats what was typed live, committed or deferred.
DeliveredOnce ==
    \A a, b \in delivered : a = b

\* The batch fallback types over a clean line: nothing of the live text can be
\* left before the cursor, neither committed nor tail nor a half-typed edit.
BatchOnCleanLine ==
    "batch" \in delivered => ~committed /\ ~tail /\ tail_safe

\* Every recording comes back to the event loop once the keys are let go,
\* whatever the session, the IME bridge and the recorder do.
HandlerReturns ==
    pc # "main" ~> pc \in {"main", "exited"}

\* README: the daemon "defers final text reconciliation and cleanup until the
\* restored Alt is released".  Stated for every recording, time limit included.
NoKeysDuringRelease ==
    "started" \notin keysWhile

\* The rule of wait_for_release_completion, for the shutdown branch of the
\* event loop as well.
NoKeysOnceClosed ==
    "closed" \notin keysWhile

-----------------------------------------------------------------------------
(* What makes the safety properties inductive (proved in RecordingProofs).  *)

Recorders == {"b_started", "n_started", "n_completed", "n_stop", "capture", "abort", "stop"}
Deliverers == {"n_stop", "audio", "final", "finish", "batch", "transcribe"}
UsesIme == mode = "Realtime" /\ delivery = "Ime"

\* What a recording holds, it holds only at these awaits.
HeldInv ==
    /\ recorder => pc \in Recorders
    /\ sinksMuted \/ micsMuted => pc \in Recorders \cup {"start"}
    /\ ime # "none" <=> UsesIme /\ ~AtRest
    /\ pc \in {"b_started"} => mode = "Batch"
    /\ pc \in {"capture", "abort", "n_started", "n_completed", "n_stop", "final", "final_abort",
               "finish", "w_started"} => mode = "Realtime"
    /\ pc = "transcribe" => ~UsesIme
    /\ pc = "ime_batch" => UsesIme

\* The channel stays closed, and its end is taken only on the way back.
ClosedInv ==
    heard = "closed" =>
        /\ Closed
        /\ pc \in {"main", "exited", "abort", "final_abort"}

\* The marker is shown by deliveries that type, and stays only when the end of
\* the channel was taken.
MarkerInv ==
    /\ marker_active => ShowMarker
    /\ marker_active /\ pc = "main" => heard = "closed"
    /\ pc = "begin" => ~marker_active
    /\ pc \in {"abort", "final_abort"} => heard = "closed" \/ UsesIme

\* How much of its release a recording has taken, at each await.
ReleaseInv ==
    /\ pc \in {"begin", "start", "b_started", "capture", "n_started"} => heard = "none" /\ why = "none"
    /\ pc = "stop" => \/ why = "released" /\ heard = "started"
                      \/ why = "timeout" /\ heard = "none"
    /\ pc = "w_started" => why = "timeout" /\ heard = "none" /\ delivery = "Deferred"
    /\ pc \in {"w_completed", "n_completed"} => heard = "started"
    /\ pc \in Deliverers /\ ~UsesIme =>
         \/ heard = "completed"
         \/ why = "timeout" /\ ShowMarker /\ (heard = "none" \/ mode = "Realtime")

\* What the text of a recording has become, at each await: until it is at rest
\* only live delivery has delivered anything, and that shows in the two flags
\* realtime_next_step decides by.
CleanLine == ~committed /\ ~tail /\ tail_safe
Textless == {"begin", "start", "b_started", "n_started", "n_completed", "n_stop", "batch",
             "transcribe", "ime_batch"}

TextInv ==
    /\ mode = "Batch" \/ pc \in Textless => CleanLine
    /\ pc \in Textless => delivered = {}
    /\ ~AtRest => delivered \subseteq {"live"}
    /\ "live" \in delivered => mode = "Realtime" /\ delivery = "Live" /\ (committed \/ ~tail_safe)
    /\ delivery = "Deferred" => ~tail

IInv ==
    /\ TypeOK /\ HeldInv /\ ClosedInv /\ MarkerInv /\ ReleaseInv /\ TextInv
    /\ NoKeysAfterClose /\ DeferredKeysWait /\ KeysWaitForAlt
    /\ DeliveredOnce /\ BatchOnCleanLine
=============================================================================

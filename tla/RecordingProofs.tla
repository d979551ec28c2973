-------------------------- MODULE RecordingProofs --------------------------
(***************************************************************************)
(* The safety properties of Recording, for every value of its constants.    *)
(*                                                                          *)
(* The inductive invariant is IInv.  Each of its parts has a lemma: a step   *)
(* that starts with the parts named in its ASSUME ends with that part.  A    *)
(* proof of such a lemma has one step per group of actions, and one per     *)
(* action where the group is too large to be done at once.                  *)
(***************************************************************************)
EXTENDS Recording, TLAPS

\* The tuples of variables, and the two lines each path of a recording ends with.
USE DEF hkVars, sigVars, muteVars, imeVars, keyVars, rtVars, textVars
USE DEF Keys, cleanup_marker, restore_recording_audio, finish_ime
USE DEF Take, TakeClosed, Closed, HotkeyReady

-----------------------------------------------------------------------------
(* Realtime events.                                                         *)

TextType ==
    /\ failed \in BOOLEAN /\ tail_safe \in BOOLEAN
    /\ committed \in BOOLEAN /\ tail \in BOOLEAN
    /\ marker_active \in BOOLEAN /\ delivered \subseteq Ways

EventKeys ==
    /\ marker_active' => marker_active
    /\ \/ keysWhile' = keysWhile
       \/ delivery = "Live" /\ keysWhile' = keysWhile \cup {heard}

\* A transcript, typed or not, keeps the types; only live delivery sends keys,
\* and the marker never comes back.
LEMMA ApplyTextType ==
    ASSUME TextType, NEW commits \in BOOLEAN, ApplyText(commits)
    PROVE  TextType' /\ EventKeys
<1> USE DEF TextType, EventKeys, Ways
<1>1. CASE failed /\ UNCHANGED <<failed, textVars, keyVars>>
  BY <1>1
<1>2. CASE /\ ~failed /\ delivery = "Deferred"
           /\ committed' \in IF commits THEN {committed, TRUE} ELSE {committed}
           /\ UNCHANGED <<failed, tail_safe, tail, delivered, keyVars>>
  <2>1. committed' \in BOOLEAN
    BY <1>2
  <2> QED
    BY <1>2, <2>1
<1>3. CASE delivery = "Live" /\ ApplyLive(commits)
  <2>1. /\ failed' \in BOOLEAN /\ tail_safe' \in BOOLEAN
        /\ committed' \in BOOLEAN /\ tail' \in BOOLEAN
    BY <1>3 DEF ApplyLive, Fail
  <2>2. marker_active' \in BOOLEAN /\ (marker_active' => marker_active)
    BY <1>3 DEF ApplyLive
  <2>3. keysWhile' = keysWhile \/ keysWhile' = keysWhile \cup {heard}
    BY <1>3 DEF ApplyLive
  <2>4. delivered' \subseteq Ways
    BY <1>3 DEF ApplyLive
  <2> QED
    BY <1>3, <2>1, <2>2, <2>3, <2>4
<1>4. CASE ApplyIme(commits)
  BY <1>4 DEF ApplyIme
<1> QED
  BY <1>1, <1>2, <1>3, <1>4 DEF ApplyText

\* The same of every event of the session.
LEMMA EventType ==
    ASSUME TextType, NEW partials \in BOOLEAN, process_realtime_event(partials)
    PROVE  TextType' /\ EventKeys
<1>1. CASE ApplyText(TRUE)
  BY <1>1, ApplyTextType
<1>2. CASE ApplyText(FALSE)
  BY <1>2, ApplyTextType
<1>3. CASE UNCHANGED <<textVars, keyVars>> /\ (UNCHANGED failed \/ failed' = TRUE)
  BY <1>3 DEF TextType, EventKeys
<1> QED
  BY <1>1, <1>2, <1>3 DEF process_realtime_event

-----------------------------------------------------------------------------
(* Type correctness, part by part.                                          *)

\* The await, the delivery and the outcomes.
LEMMA StageTypeStep ==
    ASSUME StageType, [Next]_vars
    PROVE  StageType'
<1> USE DEF StageType, PCs
<1>1. CASE Environment
  BY <1>1 DEF Environment, HkPress, HkReleaseCompleted, HkReleaseStarted, HkStop,
     ImeInvalidated, Signal, HkSend
<1>2. CASE MainLoop
  <2>1. CASE main_press
    BY <2>1, RecordingAssumption DEF main_press, Unwoken
  <2>2. CASE main_stray
    BY <2>2 DEF main_stray, Unwoken
  <2>3. CASE main_closed
    BY <2>3 DEF main_closed
  <2>4. CASE main_shutdown
    BY <2>4 DEF main_shutdown
  <2> QED
    BY <1>2, <2>1, <2>2, <2>3, <2>4 DEF MainLoop
<1>3. CASE Begin
  BY <1>3, RecordingAssumption DEF Begin, begin_recording, start_recording, ShowMarker
<1>4. CASE Release
  BY <1>4 DEF Release, batch_closed, batch_released, batch_timeout, no_session_released,
     no_session_timeout, no_session_unsafe, release_seen, release_unseen,
     wait_for_release_completion, wait_for_release_started, Ignore
<1>5. CASE Capture
  <2>1. CASE capture_cancelled
    BY <2>1 DEF capture_cancelled, ImeCancelled
  <2>2. CASE capture_hotkey
    BY <2>2 DEF capture_hotkey, ImeCancelled
  <2>3. CASE capture_event
    BY <2>3 DEF capture_event, ImeCancelled, process_realtime_event, ApplyText, ApplyIme,
       ApplyLive, Fail
  <2>4. CASE capture_ime_failed
    BY <2>4 DEF capture_ime_failed, ime_request_failed, Fail
  <2>5. CASE capture_session_ended
    BY <2>5 DEF capture_session_ended, ImeCancelled
  <2>6. CASE capture_timeout
    BY <2>6 DEF capture_timeout, ImeCancelled
  <2>7. CASE capture_abort
    BY <2>7 DEF capture_abort
  <2> QED
    BY <1>5, <2>1, <2>2, <2>3, <2>4, <2>5, <2>6, <2>7 DEF Capture
<1>6. CASE Finish
  <2>1. CASE stop_recording
    BY <2>1 DEF stop_recording, wait_for_delivery_safety
  <2>2. CASE finish_realtime_without_session
    BY <2>2 DEF finish_realtime_without_session
  <2>3. CASE audio_error
    BY <2>3 DEF audio_error, TailKeys, cleanup_live_tail, cleanup_live_tail_failed
  <2>4. CASE audio_ok_batch
    BY <2>4 DEF audio_ok_batch
  <2>5. CASE send_finalize
    BY <2>5 DEF send_finalize
  <2>6. CASE finish_delivered
    BY <2>6 DEF finish_delivered, TailKeys, Usable, cleanup_live_tail,
       cleanup_live_tail_failed, realtime_next_step
  <2>7. CASE finish_fallback
    BY <2>7 DEF finish_fallback, TailKeys, Usable, cleanup_live_tail,
       cleanup_live_tail_failed, realtime_next_step
  <2>8. CASE finish_ime_result
    BY <2>8 DEF finish_ime_result, Usable, commit_ime
  <2> QED
    BY <1>6, <2>1, <2>2, <2>3, <2>4, <2>5, <2>6, <2>7, <2>8 DEF Finish
<1>7. CASE Final
  <2>1. CASE final_cancelled
    BY <2>1 DEF final_cancelled, ImeCancelled
  <2>2. CASE final_hotkey
    BY <2>2 DEF final_hotkey, Ignore, ImeCancelled
  <2>3. CASE final_event
    BY <2>3 DEF final_event, ImeCancelled, process_realtime_event, ApplyText, ApplyIme,
       ApplyLive, Fail
  <2>4. CASE final_ime_failed
    BY <2>4 DEF final_ime_failed, ime_request_failed, Fail
  <2>5. CASE final_session_ended
    BY <2>5 DEF final_session_ended, ImeCancelled
  <2>6. CASE final_abort
    BY <2>6 DEF final_abort
  <2> QED
    BY <1>7, <2>1, <2>2, <2>3, <2>4, <2>5, <2>6 DEF Final
<1>8. CASE Batch
  BY <1>8 DEF Batch, ime_batch_cancelled, ime_batch_hotkey, ime_batch_transcribed,
     transcribe_batch_inner, transcribed, Ignore, commit_ime, Usable
<1>9. CASE Quiet \/ UNCHANGED vars
  BY <1>9 DEF Quiet, vars
<1> QED
  BY <1>1, <1>2, <1>3, <1>4, <1>5, <1>6, <1>7, <1>8, <1>9 DEF Next, Daemon

\* The Boolean variables.
LEMMA FlagTypeStep ==
    ASSUME FlagType, HistoryType, [Next]_vars
    PROVE  FlagType'
<1> USE DEF FlagType
<1>1. CASE Environment
  <2>1. CASE HkPress
    BY <2>1 DEF HkPress, HkSend
  <2>2. CASE HkReleaseStarted
    BY <2>2 DEF HkReleaseStarted, HkSend
  <2>3. CASE HkReleaseCompleted
    BY <2>3 DEF HkReleaseCompleted, HkSend
  <2>4. CASE Signal
    BY <2>4 DEF Signal
  <2>5. CASE HkStop
    BY <2>5 DEF HkStop
  <2>6. CASE ImeInvalidated
    BY <2>6 DEF ImeInvalidated
  <2> QED
    BY <1>1, <2>1, <2>2, <2>3, <2>4, <2>5, <2>6 DEF Environment
<1>2. CASE MainLoop
  <2>1. CASE main_press
    BY <2>1, RecordingAssumption DEF main_press, Unwoken
  <2>2. CASE main_stray
    BY <2>2 DEF main_stray, Unwoken
  <2>3. CASE main_closed
    BY <2>3 DEF main_closed
  <2>4. CASE main_shutdown
    BY <2>4 DEF main_shutdown
  <2> QED
    BY <1>2, <2>1, <2>2, <2>3, <2>4 DEF MainLoop
<1>3. CASE Begin
  <2>1. CASE begin_recording
    BY <2>1, RecordingAssumption DEF begin_recording, ShowMarker
  <2>2. CASE start_recording
    BY <2>2, ZenonT(60) DEF start_recording
  <2> QED
    BY <1>3, <2>1, <2>2 DEF Begin
<1>4. CASE Release
  <2>1. CASE batch_released
    BY <2>1 DEF batch_released
  <2>2. CASE batch_timeout
    BY <2>2 DEF batch_timeout
  <2>3. CASE batch_closed
    BY <2>3 DEF batch_closed
  <2>4. CASE wait_for_release_started
    BY <2>4 DEF wait_for_release_started, Ignore
  <2>5. CASE wait_for_release_completion
    BY <2>5 DEF wait_for_release_completion, Ignore
  <2>6. CASE no_session_released
    BY <2>6 DEF no_session_released
  <2>7. CASE no_session_unsafe
    BY <2>7 DEF no_session_unsafe
  <2>8. CASE no_session_timeout
    BY <2>8 DEF no_session_timeout
  <2>9. CASE release_seen
    BY <2>9 DEF release_seen
  <2>10. CASE release_unseen
    BY <2>10 DEF release_unseen
  <2> QED
    BY <1>4, <2>1, <2>2, <2>3, <2>4, <2>5, <2>6, <2>7, <2>8, <2>9, <2>10 DEF Release
<1>5. CASE Capture
  <2>1. CASE capture_cancelled
    BY <2>1 DEF capture_cancelled, ImeCancelled
  <2>2. CASE capture_hotkey
    BY <2>2 DEF capture_hotkey, ImeCancelled
  <2>3. CASE capture_event
    <3>1. TextType /\ process_realtime_event(TRUE)
      BY <2>3 DEF capture_event, TextType, HistoryType
    <3>2. TextType' /\ EventKeys
      BY <3>1, EventType
    <3> QED
      BY <2>3, <3>2 DEF capture_event, TextType, EventKeys
  <2>4. CASE capture_ime_failed
    BY <2>4 DEF capture_ime_failed, ime_request_failed, Fail
  <2>5. CASE capture_session_ended
    BY <2>5 DEF capture_session_ended, ImeCancelled
  <2>6. CASE capture_timeout
    BY <2>6 DEF capture_timeout, ImeCancelled
  <2>7. CASE capture_abort
    BY <2>7 DEF capture_abort
  <2> QED
    BY <1>5, <2>1, <2>2, <2>3, <2>4, <2>5, <2>6, <2>7 DEF Capture
<1>6. CASE Finish
  <2>1. CASE stop_recording
    BY <2>1 DEF stop_recording, wait_for_delivery_safety
  <2>2. CASE finish_realtime_without_session
    BY <2>2 DEF finish_realtime_without_session
  <2>3. CASE audio_error
    BY <2>3 DEF audio_error, TailKeys, cleanup_live_tail, cleanup_live_tail_failed
  <2>4. CASE audio_ok_batch
    BY <2>4 DEF audio_ok_batch
  <2>5. CASE send_finalize
    BY <2>5 DEF send_finalize
  <2>6. CASE finish_delivered
    BY <2>6 DEF finish_delivered, TailKeys, Usable, cleanup_live_tail,
       cleanup_live_tail_failed, realtime_next_step
  <2>7. CASE finish_fallback
    BY <2>7 DEF finish_fallback, TailKeys, Usable, cleanup_live_tail,
       cleanup_live_tail_failed, realtime_next_step
  <2>8. CASE finish_ime_result
    BY <2>8 DEF finish_ime_result, Usable, commit_ime
  <2> QED
    BY <1>6, <2>1, <2>2, <2>3, <2>4, <2>5, <2>6, <2>7, <2>8 DEF Finish
<1>7. CASE Final
  <2>1. CASE final_cancelled
    BY <2>1 DEF final_cancelled, ImeCancelled
  <2>2. CASE final_hotkey
    BY <2>2 DEF final_hotkey, Ignore, ImeCancelled
  <2>3. CASE final_event
    <3>1. TextType /\ process_realtime_event(FALSE)
      BY <2>3 DEF final_event, TextType, HistoryType
    <3>2. TextType' /\ EventKeys
      BY <3>1, EventType
    <3> QED
      BY <2>3, <3>2 DEF final_event, TextType, EventKeys
  <2>4. CASE final_ime_failed
    BY <2>4 DEF final_ime_failed, ime_request_failed, Fail
  <2>5. CASE final_session_ended
    BY <2>5 DEF final_session_ended, ImeCancelled
  <2>6. CASE final_abort
    BY <2>6 DEF final_abort
  <2> QED
    BY <1>7, <2>1, <2>2, <2>3, <2>4, <2>5, <2>6 DEF Final
<1>8. CASE Batch
  <2>1. CASE transcribe_batch_inner
    BY <2>1, ZenonT(60) DEF transcribe_batch_inner, Usable
  <2>2. CASE transcribed
    BY <2>2 DEF transcribed
  <2>3. CASE ime_batch_transcribed
    BY <2>3 DEF ime_batch_transcribed, commit_ime
  <2>4. CASE ime_batch_cancelled
    BY <2>4 DEF ime_batch_cancelled
  <2>5. CASE ime_batch_hotkey
    BY <2>5 DEF ime_batch_hotkey, Ignore
  <2> QED
    BY <1>8, <2>1, <2>2, <2>3, <2>4, <2>5 DEF Batch
<1>9. CASE Quiet \/ UNCHANGED vars
  BY <1>9 DEF Quiet, vars
<1> QED
  BY <1>1, <1>2, <1>3, <1>4, <1>5, <1>6, <1>7, <1>8, <1>9 DEF Next, Daemon

\* The hotkey task and the signals.
LEMMA HotkeyTypeStep ==
    ASSUME HotkeyType, [Next]_vars
    PROVE  HotkeyType'
<1> USE DEF HotkeyType
<1>1. CASE Environment
  <2>1. CASE HkPress
    BY <2>1 DEF HkPress, HkSend
  <2>2. CASE HkReleaseStarted
    BY <2>2 DEF HkReleaseStarted, HkSend
  <2>3. CASE HkReleaseCompleted
    BY <2>3 DEF HkReleaseCompleted, HkSend
  <2>4. CASE Signal
    BY <2>4 DEF Signal
  <2>5. CASE HkStop
    BY <2>5 DEF HkStop
  <2>6. CASE ImeInvalidated
    BY <2>6 DEF ImeInvalidated
  <2> QED
    BY <1>1, <2>1, <2>2, <2>3, <2>4, <2>5, <2>6 DEF Environment
<1>2. CASE MainLoop
  BY <1>2, RecordingAssumption DEF MainLoop, main_closed, main_press, main_shutdown,
     main_stray, Unwoken
<1>3. CASE Begin
  BY <1>3, RecordingAssumption DEF Begin, begin_recording, start_recording, ShowMarker
<1>4. CASE Release
  BY <1>4 DEF Release, batch_closed, batch_released, batch_timeout, no_session_released,
     no_session_timeout, no_session_unsafe, release_seen, release_unseen,
     wait_for_release_completion, wait_for_release_started, Ignore
<1>5. CASE Capture
  <2>1. CASE capture_cancelled
    BY <2>1 DEF capture_cancelled, ImeCancelled
  <2>2. CASE capture_hotkey
    BY <2>2 DEF capture_hotkey, ImeCancelled
  <2>3. CASE capture_event
    BY <2>3 DEF capture_event, ImeCancelled, process_realtime_event, ApplyText, ApplyIme,
       ApplyLive, Fail
  <2>4. CASE capture_ime_failed
    BY <2>4 DEF capture_ime_failed, ime_request_failed, Fail
  <2>5. CASE capture_session_ended
    BY <2>5 DEF capture_session_ended, ImeCancelled
  <2>6. CASE capture_timeout
    BY <2>6 DEF capture_timeout, ImeCancelled
  <2>7. CASE capture_abort
    BY <2>7 DEF capture_abort
  <2> QED
    BY <1>5, <2>1, <2>2, <2>3, <2>4, <2>5, <2>6, <2>7 DEF Capture
<1>6. CASE Finish
  <2>1. CASE stop_recording
    BY <2>1 DEF stop_recording, wait_for_delivery_safety
  <2>2. CASE finish_realtime_without_session
    BY <2>2 DEF finish_realtime_without_session
  <2>3. CASE audio_error
    BY <2>3 DEF audio_error, TailKeys, cleanup_live_tail, cleanup_live_tail_failed
  <2>4. CASE audio_ok_batch
    BY <2>4 DEF audio_ok_batch
  <2>5. CASE send_finalize
    BY <2>5 DEF send_finalize
  <2>6. CASE finish_delivered
    BY <2>6 DEF finish_delivered, TailKeys, Usable, cleanup_live_tail,
       cleanup_live_tail_failed, realtime_next_step
  <2>7. CASE finish_fallback
    BY <2>7 DEF finish_fallback, TailKeys, Usable, cleanup_live_tail,
       cleanup_live_tail_failed, realtime_next_step
  <2>8. CASE finish_ime_result
    BY <2>8 DEF finish_ime_result, Usable, commit_ime
  <2> QED
    BY <1>6, <2>1, <2>2, <2>3, <2>4, <2>5, <2>6, <2>7, <2>8 DEF Finish
<1>7. CASE Final
  <2>1. CASE final_cancelled
    BY <2>1 DEF final_cancelled, ImeCancelled
  <2>2. CASE final_hotkey
    BY <2>2 DEF final_hotkey, Ignore, ImeCancelled
  <2>3. CASE final_event
    BY <2>3 DEF final_event, ImeCancelled, process_realtime_event, ApplyText, ApplyIme,
       ApplyLive, Fail
  <2>4. CASE final_ime_failed
    BY <2>4 DEF final_ime_failed, ime_request_failed, Fail
  <2>5. CASE final_session_ended
    BY <2>5 DEF final_session_ended, ImeCancelled
  <2>6. CASE final_abort
    BY <2>6 DEF final_abort
  <2> QED
    BY <1>7, <2>1, <2>2, <2>3, <2>4, <2>5, <2>6 DEF Final
<1>8. CASE Batch
  BY <1>8 DEF Batch, ime_batch_cancelled, ime_batch_hotkey, ime_batch_transcribed,
     transcribe_batch_inner, transcribed, Ignore, commit_ime, Usable
<1>9. CASE Quiet \/ UNCHANGED vars
  BY <1>9 DEF Quiet, vars
<1> QED
  BY <1>1, <1>2, <1>3, <1>4, <1>5, <1>6, <1>7, <1>8, <1>9 DEF Next, Daemon

\* The history variables.
LEMMA HistoryTypeStep ==
    ASSUME HistoryType, FlagType, [Next]_vars
    PROVE  HistoryType'
<1> USE DEF HistoryType, Heard, Ways
<1>1. CASE Environment
  <2>1. CASE HkPress
    BY <2>1 DEF HkPress, HkSend
  <2>2. CASE HkReleaseStarted
    BY <2>2 DEF HkReleaseStarted, HkSend
  <2>3. CASE HkReleaseCompleted
    BY <2>3 DEF HkReleaseCompleted, HkSend
  <2>4. CASE Signal
    BY <2>4 DEF Signal
  <2>5. CASE HkStop
    BY <2>5 DEF HkStop
  <2>6. CASE ImeInvalidated
    BY <2>6 DEF ImeInvalidated
  <2> QED
    BY <1>1, <2>1, <2>2, <2>3, <2>4, <2>5, <2>6 DEF Environment
<1>2. CASE MainLoop
  <2>1. CASE main_press
    BY <2>1, RecordingAssumption DEF main_press, Unwoken
  <2>2. CASE main_stray
    BY <2>2 DEF main_stray, Unwoken
  <2>3. CASE main_closed
    BY <2>3 DEF main_closed
  <2>4. CASE main_shutdown
    BY <2>4 DEF main_shutdown
  <2> QED
    BY <1>2, <2>1, <2>2, <2>3, <2>4 DEF MainLoop
<1>3. CASE Begin
  <2>1. CASE begin_recording
    BY <2>1, RecordingAssumption DEF begin_recording, ShowMarker
  <2>2. CASE start_recording
    BY <2>2 DEF start_recording
  <2> QED
    BY <1>3, <2>1, <2>2 DEF Begin
<1>4. CASE Release
  BY <1>4 DEF Release, batch_closed, batch_released, batch_timeout, no_session_released,
     no_session_timeout, no_session_unsafe, release_seen, release_unseen,
     wait_for_release_completion, wait_for_release_started, Ignore
<1>5. CASE Capture
  <2>1. CASE capture_cancelled
    BY <2>1 DEF capture_cancelled, ImeCancelled
  <2>2. CASE capture_hotkey
    BY <2>2 DEF capture_hotkey, ImeCancelled
  <2>3. CASE capture_event
    <3>1. TextType /\ process_realtime_event(TRUE)
      BY <2>3 DEF capture_event, TextType, FlagType
    <3>2. TextType' /\ EventKeys
      BY <3>1, EventType
    <3> QED
      BY <2>3, <3>2 DEF capture_event, TextType, EventKeys
  <2>4. CASE capture_ime_failed
    BY <2>4 DEF capture_ime_failed, ime_request_failed, Fail
  <2>5. CASE capture_session_ended
    BY <2>5 DEF capture_session_ended, ImeCancelled
  <2>6. CASE capture_timeout
    BY <2>6 DEF capture_timeout, ImeCancelled
  <2>7. CASE capture_abort
    BY <2>7 DEF capture_abort
  <2> QED
    BY <1>5, <2>1, <2>2, <2>3, <2>4, <2>5, <2>6, <2>7 DEF Capture
<1>6. CASE Finish
  <2>1. CASE stop_recording
    BY <2>1 DEF stop_recording, wait_for_delivery_safety
  <2>2. CASE finish_realtime_without_session
    BY <2>2 DEF finish_realtime_without_session
  <2>3. CASE audio_error
    BY <2>3 DEF audio_error, TailKeys, cleanup_live_tail, cleanup_live_tail_failed
  <2>4. CASE audio_ok_batch
    BY <2>4 DEF audio_ok_batch
  <2>5. CASE send_finalize
    BY <2>5 DEF send_finalize
  <2>6. CASE finish_delivered
    BY <2>6 DEF finish_delivered, TailKeys, Usable, cleanup_live_tail,
       cleanup_live_tail_failed, realtime_next_step
  <2>7. CASE finish_fallback
    BY <2>7 DEF finish_fallback, TailKeys, Usable, cleanup_live_tail,
       cleanup_live_tail_failed, realtime_next_step
  <2>8. CASE finish_ime_result
    BY <2>8 DEF finish_ime_result, Usable, commit_ime
  <2> QED
    BY <1>6, <2>1, <2>2, <2>3, <2>4, <2>5, <2>6, <2>7, <2>8 DEF Finish
<1>7. CASE Final
  <2>1. CASE final_cancelled
    BY <2>1 DEF final_cancelled, ImeCancelled
  <2>2. CASE final_hotkey
    BY <2>2 DEF final_hotkey, Ignore, ImeCancelled
  <2>3. CASE final_event
    <3>1. TextType /\ process_realtime_event(FALSE)
      BY <2>3 DEF final_event, TextType, FlagType
    <3>2. TextType' /\ EventKeys
      BY <3>1, EventType
    <3> QED
      BY <2>3, <3>2 DEF final_event, TextType, EventKeys
  <2>4. CASE final_ime_failed
    BY <2>4 DEF final_ime_failed, ime_request_failed, Fail
  <2>5. CASE final_session_ended
    BY <2>5 DEF final_session_ended, ImeCancelled
  <2>6. CASE final_abort
    BY <2>6 DEF final_abort
  <2> QED
    BY <1>7, <2>1, <2>2, <2>3, <2>4, <2>5, <2>6 DEF Final
<1>8. CASE Batch
  BY <1>8 DEF Batch, ime_batch_cancelled, ime_batch_hotkey, ime_batch_transcribed,
     transcribe_batch_inner, transcribed, Ignore, commit_ime, Usable
<1>9. CASE Quiet \/ UNCHANGED vars
  BY <1>9 DEF Quiet, vars
<1> QED
  BY <1>1, <1>2, <1>3, <1>4, <1>5, <1>6, <1>7, <1>8, <1>9 DEF Next, Daemon

\* Events go in at one end of the channel and come out at the other.
LEMMA TailType ==
    ASSUME chan \in Seq(HotkeyEvents), chan # << >>
    PROVE  Tail(chan) \in Seq(HotkeyEvents)
OBVIOUS

LEMMA AppendType ==
    ASSUME chan \in Seq(HotkeyEvents), NEW event \in HotkeyEvents
    PROVE  Append(chan, event) \in Seq(HotkeyEvents)
OBVIOUS

\* The channel.
LEMMA ChannelTypeStep ==
    ASSUME ChannelType, [Next]_vars
    PROVE  ChannelType'
<1> USE DEF ChannelType
<1>1. CASE Environment
  <2>1. CASE HkPress
    <3>1. chan' \in Seq(HotkeyEvents)
      BY <2>1, AppendType DEF HkPress, HkSend, HotkeyEvents
    <3>2. presses' \in 0 .. MaxPresses
      BY <2>1, RecordingAssumption DEF HkPress
    <3> QED
      BY <3>1, <3>2
  <2>2. CASE HkReleaseStarted
    BY <2>2, AppendType DEF HkReleaseStarted, HkSend, HotkeyEvents
  <2>3. CASE HkReleaseCompleted
    BY <2>3, AppendType DEF HkReleaseCompleted, HkSend, HotkeyEvents
  <2>4. CASE Signal \/ HkStop \/ ImeInvalidated
    BY <2>4 DEF Signal, HkStop, ImeInvalidated
  <2> QED
    BY <1>1, <2>1, <2>2, <2>3, <2>4 DEF Environment
<1>2. ASSUME UNCHANGED presses, UNCHANGED chan \/ (chan # << >> /\ chan' = Tail(chan))
      PROVE  ChannelType'
  BY <1>2, TailType
<1>3. CASE MainLoop
  BY <1>3, <1>2 DEF MainLoop, main_closed, main_press, main_shutdown, main_stray
<1>4. CASE Begin
  BY <1>4, <1>2 DEF Begin, begin_recording, start_recording
<1>5. CASE Release
  BY <1>5, <1>2 DEF Release, batch_closed, batch_released, batch_timeout,
     no_session_released, no_session_timeout, no_session_unsafe, release_seen,
     release_unseen, wait_for_release_completion, wait_for_release_started, Ignore
<1>6. CASE Capture
  BY <1>6, <1>2 DEF Capture, capture_abort, capture_cancelled, capture_event,
     capture_hotkey, capture_ime_failed, capture_session_ended, capture_timeout,
     ime_request_failed
<1>7. CASE Finish
  BY <1>7, <1>2 DEF Finish, audio_error, audio_ok_batch, finish_delivered, finish_fallback,
     finish_ime_result, finish_realtime_without_session, send_finalize, stop_recording
<1>8. CASE Final
  BY <1>8, <1>2 DEF Final, final_abort, final_cancelled, final_event, final_hotkey,
     final_ime_failed, final_session_ended, Ignore, ime_request_failed
<1>9. CASE Batch
  BY <1>9, <1>2 DEF Batch, ime_batch_cancelled, ime_batch_hotkey, ime_batch_transcribed,
     transcribe_batch_inner, transcribed, Ignore
<1>10. CASE Quiet \/ UNCHANGED vars
  BY <1>10 DEF Quiet, vars
<1> QED
  BY <1>1, <1>3, <1>4, <1>5, <1>6, <1>7, <1>8, <1>9, <1>10 DEF Next, Daemon

-----------------------------------------------------------------------------
(* The invariant, part by part.                                             *)

\* What a recording holds is given back on each way to the event loop.
LEMMA HeldInvStep ==
    ASSUME StageType, FlagType, HeldInv, [Next]_vars
    PROVE  HeldInv'
<1> USE DEF StageType, FlagType, HeldInv, Recorders, UsesIme, AtRest, PCs
<1>1. CASE Environment
  BY <1>1 DEF Environment, HkPress, HkReleaseCompleted, HkReleaseStarted, HkStop,
     ImeInvalidated, Signal, HkSend
<1>2. CASE MainLoop
  BY <1>2, RecordingAssumption DEF MainLoop, main_closed, main_press, main_shutdown,
     main_stray, Unwoken
<1>3. CASE Begin
  BY <1>3, RecordingAssumption DEF Begin, begin_recording, start_recording, ShowMarker
<1>4. CASE Release
  BY <1>4 DEF Release, batch_closed, batch_released, batch_timeout, no_session_released,
     no_session_timeout, no_session_unsafe, release_seen, release_unseen,
     wait_for_release_completion, wait_for_release_started, Ignore
<1>5. CASE Capture
  <2>1. CASE capture_cancelled
    BY <2>1 DEF capture_cancelled, ImeCancelled
  <2>2. CASE capture_hotkey
    BY <2>2 DEF capture_hotkey, ImeCancelled
  <2>3. CASE capture_event
    BY <2>3 DEF capture_event, ImeCancelled, process_realtime_event, ApplyText, ApplyIme,
       ApplyLive, Fail
  <2>4. CASE capture_ime_failed
    BY <2>4 DEF capture_ime_failed, ime_request_failed, Fail
  <2>5. CASE capture_session_ended
    BY <2>5 DEF capture_session_ended, ImeCancelled
  <2>6. CASE capture_timeout
    BY <2>6 DEF capture_timeout, ImeCancelled
  <2>7. CASE capture_abort
    BY <2>7 DEF capture_abort
  <2> QED
    BY <1>5, <2>1, <2>2, <2>3, <2>4, <2>5, <2>6, <2>7 DEF Capture
<1>6. CASE Finish
  <2>1. CASE stop_recording
    BY <2>1 DEF stop_recording, wait_for_delivery_safety
  <2>2. CASE finish_realtime_without_session
    BY <2>2 DEF finish_realtime_without_session
  <2>3. CASE audio_error
    BY <2>3 DEF audio_error, TailKeys, cleanup_live_tail, cleanup_live_tail_failed
  <2>4. CASE audio_ok_batch
    BY <2>4 DEF audio_ok_batch
  <2>5. CASE send_finalize
    BY <2>5 DEF send_finalize
  <2>6. CASE finish_delivered
    BY <2>6 DEF finish_delivered, TailKeys, Usable, cleanup_live_tail,
       cleanup_live_tail_failed, realtime_next_step
  <2>7. CASE finish_fallback
    BY <2>7 DEF finish_fallback, TailKeys, Usable, cleanup_live_tail,
       cleanup_live_tail_failed, realtime_next_step
  <2>8. CASE finish_ime_result
    BY <2>8 DEF finish_ime_result, Usable, commit_ime
  <2> QED
    BY <1>6, <2>1, <2>2, <2>3, <2>4, <2>5, <2>6, <2>7, <2>8 DEF Finish
<1>7. CASE Final
  <2>1. CASE final_cancelled
    BY <2>1 DEF final_cancelled, ImeCancelled
  <2>2. CASE final_hotkey
    BY <2>2 DEF final_hotkey, Ignore, ImeCancelled
  <2>3. CASE final_event
    BY <2>3 DEF final_event, ImeCancelled, process_realtime_event, ApplyText, ApplyIme,
       ApplyLive, Fail
  <2>4. CASE final_ime_failed
    BY <2>4 DEF final_ime_failed, ime_request_failed, Fail
  <2>5. CASE final_session_ended
    BY <2>5 DEF final_session_ended, ImeCancelled
  <2>6. CASE final_abort
    BY <2>6 DEF final_abort
  <2> QED
    BY <1>7, <2>1, <2>2, <2>3, <2>4, <2>5, <2>6 DEF Final
<1>8. CASE Batch
  BY <1>8 DEF Batch, ime_batch_cancelled, ime_batch_hotkey, ime_batch_transcribed,
     transcribe_batch_inner, transcribed, Ignore, commit_ime, Usable
<1>9. CASE Quiet \/ UNCHANGED vars
  BY <1>9 DEF Quiet, vars
<1> QED
  BY <1>1, <1>2, <1>3, <1>4, <1>5, <1>6, <1>7, <1>8, <1>9 DEF Next, Daemon

\* The end of the channel is taken only on the way back.
LEMMA ClosedInvStep ==
    ASSUME ClosedInv, [Next]_vars
    PROVE  ClosedInv'
<1> USE DEF ClosedInv
<1>1. CASE Environment
  BY <1>1 DEF Environment, HkPress, HkReleaseCompleted, HkReleaseStarted, HkStop,
     ImeInvalidated, Signal, HkSend
<1>2. CASE MainLoop
  BY <1>2, RecordingAssumption DEF MainLoop, main_closed, main_press, main_shutdown,
     main_stray, Unwoken
<1>3. CASE Begin
  BY <1>3, RecordingAssumption DEF Begin, begin_recording, start_recording, ShowMarker
<1>4. CASE Release
  BY <1>4 DEF Release, batch_closed, batch_released, batch_timeout, no_session_released,
     no_session_timeout, no_session_unsafe, release_seen, release_unseen,
     wait_for_release_completion, wait_for_release_started, Ignore
<1>5. CASE Capture
  <2>1. CASE capture_cancelled
    BY <2>1 DEF capture_cancelled, ImeCancelled
  <2>2. CASE capture_hotkey
    BY <2>2 DEF capture_hotkey, ImeCancelled
  <2>3. CASE capture_event
    BY <2>3 DEF capture_event, ImeCancelled, process_realtime_event, ApplyText, ApplyIme,
       ApplyLive, Fail
  <2>4. CASE capture_ime_failed
    BY <2>4 DEF capture_ime_failed, ime_request_failed, Fail
  <2>5. CASE capture_session_ended
    BY <2>5 DEF capture_session_ended, ImeCancelled
  <2>6. CASE capture_timeout
    BY <2>6 DEF capture_timeout, ImeCancelled
  <2>7. CASE capture_abort
    BY <2>7 DEF capture_abort
  <2> QED
    BY <1>5, <2>1, <2>2, <2>3, <2>4, <2>5, <2>6, <2>7 DEF Capture
<1>6. CASE Finish
  <2>1. CASE stop_recording
    BY <2>1 DEF stop_recording, wait_for_delivery_safety
  <2>2. CASE finish_realtime_without_session
    BY <2>2 DEF finish_realtime_without_session
  <2>3. CASE audio_error
    BY <2>3 DEF audio_error, TailKeys, cleanup_live_tail, cleanup_live_tail_failed
  <2>4. CASE audio_ok_batch
    BY <2>4 DEF audio_ok_batch
  <2>5. CASE send_finalize
    BY <2>5 DEF send_finalize
  <2>6. CASE finish_delivered
    BY <2>6 DEF finish_delivered, TailKeys, Usable, cleanup_live_tail,
       cleanup_live_tail_failed, realtime_next_step
  <2>7. CASE finish_fallback
    BY <2>7 DEF finish_fallback, TailKeys, Usable, cleanup_live_tail,
       cleanup_live_tail_failed, realtime_next_step
  <2>8. CASE finish_ime_result
    BY <2>8 DEF finish_ime_result, Usable, commit_ime
  <2> QED
    BY <1>6, <2>1, <2>2, <2>3, <2>4, <2>5, <2>6, <2>7, <2>8 DEF Finish
<1>7. CASE Final
  <2>1. CASE final_cancelled
    BY <2>1 DEF final_cancelled, ImeCancelled
  <2>2. CASE final_hotkey
    BY <2>2 DEF final_hotkey, Ignore, ImeCancelled
  <2>3. CASE final_event
    BY <2>3 DEF final_event, ImeCancelled, process_realtime_event, ApplyText, ApplyIme,
       ApplyLive, Fail
  <2>4. CASE final_ime_failed
    BY <2>4 DEF final_ime_failed, ime_request_failed, Fail
  <2>5. CASE final_session_ended
    BY <2>5 DEF final_session_ended, ImeCancelled
  <2>6. CASE final_abort
    BY <2>6 DEF final_abort
  <2> QED
    BY <1>7, <2>1, <2>2, <2>3, <2>4, <2>5, <2>6 DEF Final
<1>8. CASE Batch
  BY <1>8 DEF Batch, ime_batch_cancelled, ime_batch_hotkey, ime_batch_transcribed,
     transcribe_batch_inner, transcribed, Ignore, commit_ime, Usable
<1>9. CASE Quiet \/ UNCHANGED vars
  BY <1>9 DEF Quiet, vars
<1> QED
  BY <1>1, <1>2, <1>3, <1>4, <1>5, <1>6, <1>7, <1>8, <1>9 DEF Next, Daemon

\* The marker.
LEMMA MarkerInvStep ==
    ASSUME StageType, FlagType, MarkerInv, ClosedInv, HeldInv, ReleaseInv, HistoryType,
           [Next]_vars
    PROVE  MarkerInv'
<1> USE DEF StageType, FlagType, PCs, MarkerInv, ShowMarker, ClosedInv, HeldInv, AtRest,
       ReleaseInv, UsesIme, Deliverers
<1>1. CASE Environment
  BY <1>1 DEF Environment, HkPress, HkReleaseCompleted, HkReleaseStarted, HkStop,
     ImeInvalidated, Signal, HkSend
<1>2. CASE MainLoop
  BY <1>2, RecordingAssumption DEF MainLoop, main_closed, main_press, main_shutdown,
     main_stray, Unwoken
<1>3. CASE Begin
  <2>1. CASE begin_recording
    BY <2>1, RecordingAssumption DEF begin_recording
  <2>2. CASE start_recording
    BY <2>2 DEF start_recording
  <2> QED
    BY <1>3, <2>1, <2>2 DEF Begin
<1>4. CASE Release
  BY <1>4 DEF Release, batch_closed, batch_released, batch_timeout, no_session_released,
     no_session_timeout, no_session_unsafe, release_seen, release_unseen,
     wait_for_release_completion, wait_for_release_started, Ignore
<1>5. CASE Capture
  <2>1. CASE capture_cancelled
    BY <2>1 DEF capture_cancelled, ImeCancelled
  <2>2. CASE capture_hotkey
    BY <2>2 DEF capture_hotkey, ImeCancelled
  <2>3. CASE capture_event
    <3>1. TextType /\ process_realtime_event(TRUE)
      BY <2>3 DEF capture_event, TextType, HistoryType
    <3>2. TextType' /\ EventKeys
      BY <3>1, EventType
    <3> QED
      BY <2>3, <3>2 DEF capture_event, TextType, EventKeys
  <2>4. CASE capture_ime_failed
    BY <2>4 DEF capture_ime_failed, ime_request_failed, Fail
  <2>5. CASE capture_session_ended
    BY <2>5 DEF capture_session_ended, ImeCancelled
  <2>6. CASE capture_timeout
    BY <2>6 DEF capture_timeout, ImeCancelled
  <2>7. CASE capture_abort
    BY <2>7 DEF capture_abort
  <2> QED
    BY <1>5, <2>1, <2>2, <2>3, <2>4, <2>5, <2>6, <2>7 DEF Capture
<1>6. CASE Finish
  <2>1. CASE stop_recording
    BY <2>1 DEF stop_recording, wait_for_delivery_safety
  <2>2. CASE finish_realtime_without_session
    BY <2>2 DEF finish_realtime_without_session
  <2>3. CASE audio_error
    BY <2>3 DEF audio_error, TailKeys, cleanup_live_tail, cleanup_live_tail_failed
  <2>4. CASE audio_ok_batch
    BY <2>4 DEF audio_ok_batch
  <2>5. CASE send_finalize
    BY <2>5 DEF send_finalize
  <2>6. CASE finish_delivered
    BY <2>6 DEF finish_delivered, TailKeys, Usable, cleanup_live_tail,
       cleanup_live_tail_failed, realtime_next_step
  <2>7. CASE finish_fallback
    BY <2>7 DEF finish_fallback, TailKeys, Usable, cleanup_live_tail,
       cleanup_live_tail_failed, realtime_next_step
  <2>8. CASE finish_ime_result
    BY <2>8 DEF finish_ime_result, Usable, commit_ime
  <2> QED
    BY <1>6, <2>1, <2>2, <2>3, <2>4, <2>5, <2>6, <2>7, <2>8 DEF Finish
<1>7. CASE Final
  <2>1. CASE final_cancelled
    BY <2>1 DEF final_cancelled, ImeCancelled
  <2>2. CASE final_hotkey
    BY <2>2 DEF final_hotkey, Ignore, ImeCancelled
  <2>3. CASE final_event
    <3>1. TextType /\ process_realtime_event(FALSE)
      BY <2>3 DEF final_event, TextType, HistoryType
    <3>2. TextType' /\ EventKeys
      BY <3>1, EventType
    <3> QED
      BY <2>3, <3>2 DEF final_event, TextType, EventKeys
  <2>4. CASE final_ime_failed
    BY <2>4 DEF final_ime_failed, ime_request_failed, Fail
  <2>5. CASE final_session_ended
    BY <2>5 DEF final_session_ended, ImeCancelled
  <2>6. CASE final_abort
    BY <2>6 DEF final_abort
  <2> QED
    BY <1>7, <2>1, <2>2, <2>3, <2>4, <2>5, <2>6 DEF Final
<1>8. CASE Batch
  BY <1>8 DEF Batch, ime_batch_cancelled, ime_batch_hotkey, ime_batch_transcribed,
     transcribe_batch_inner, transcribed, Ignore, commit_ime, Usable
<1>9. CASE Quiet \/ UNCHANGED vars
  BY <1>9 DEF Quiet, vars
<1> QED
  BY <1>1, <1>2, <1>3, <1>4, <1>5, <1>6, <1>7, <1>8, <1>9 DEF Next, Daemon

\* How much of the release was taken, at each await.
LEMMA ReleaseInvStep ==
    ASSUME StageType, ReleaseInv, ClosedInv, HeldInv, MarkerInv, [Next]_vars
    PROVE  ReleaseInv'
<1> USE DEF StageType, PCs, ReleaseInv, Deliverers, UsesIme, ClosedInv, HeldInv, AtRest,
       MarkerInv, ShowMarker
<1>1. CASE Environment
  BY <1>1 DEF Environment, HkPress, HkReleaseCompleted, HkReleaseStarted, HkStop,
     ImeInvalidated, Signal, HkSend
<1>2. CASE MainLoop
  BY <1>2, RecordingAssumption DEF MainLoop, main_closed, main_press, main_shutdown,
     main_stray, Unwoken
<1>3. CASE Begin
  BY <1>3, RecordingAssumption DEF Begin, begin_recording, start_recording
<1>4. CASE Release
  BY <1>4 DEF Release, batch_closed, batch_released, batch_timeout, no_session_released,
     no_session_timeout, no_session_unsafe, release_seen, release_unseen,
     wait_for_release_completion, wait_for_release_started, Ignore
<1>5. CASE Capture
  BY <1>5 DEF Capture, capture_abort, capture_cancelled, capture_event, capture_hotkey,
     capture_ime_failed, capture_session_ended, capture_timeout, ImeCancelled,
     process_realtime_event, ime_request_failed, ApplyText, Fail, ApplyIme, ApplyLive
<1>6. CASE Finish
  <2>1. CASE stop_recording
    <3>1. CASE mode = "Batch"
      BY <2>1, <3>1 DEF stop_recording
    <3>2. CASE mode = "Realtime"
      <4>1. pc' = wait_for_delivery_safety
        BY <2>1, <3>2 DEF stop_recording
      <4>2. /\ pc' \in {"audio", "w_started", "w_completed"}
            /\ pc' = "audio" => delivery = "Ime" \/ (delivery = "Live" /\ why = "timeout")
            /\ pc' = "w_started" => delivery = "Deferred" /\ why = "timeout"
            /\ pc' = "w_completed" => why = "released"
        BY <2>1, <4>1 DEF wait_for_delivery_safety, stop_recording
      <4> QED
        BY <2>1, <3>2, <4>2 DEF stop_recording
    <3> QED
      BY <3>1, <3>2, RecordingAssumption
  <2>2. CASE finish_realtime_without_session
    BY <2>2 DEF finish_realtime_without_session
  <2>3. CASE audio_error
    BY <2>3 DEF audio_error, TailKeys, cleanup_live_tail, cleanup_live_tail_failed
  <2>4. CASE audio_ok_batch
    BY <2>4 DEF audio_ok_batch
  <2>5. CASE send_finalize
    BY <2>5 DEF send_finalize
  <2>6. CASE finish_delivered
    BY <2>6 DEF finish_delivered, TailKeys, Usable, cleanup_live_tail,
       cleanup_live_tail_failed, realtime_next_step
  <2>7. CASE finish_fallback
    BY <2>7 DEF finish_fallback, TailKeys, Usable, cleanup_live_tail,
       cleanup_live_tail_failed, realtime_next_step
  <2>8. CASE finish_ime_result
    BY <2>8 DEF finish_ime_result, Usable, commit_ime
  <2> QED
    BY <1>6, <2>1, <2>2, <2>3, <2>4, <2>5, <2>6, <2>7, <2>8 DEF Finish
<1>7. CASE Final
  BY <1>7 DEF Final, final_abort, final_cancelled, final_event, final_hotkey,
     final_ime_failed, final_session_ended, ImeCancelled, process_realtime_event, Ignore,
     ime_request_failed, ApplyText, Fail, ApplyIme, ApplyLive
<1>8. CASE Batch
  BY <1>8 DEF Batch, ime_batch_cancelled, ime_batch_hotkey, ime_batch_transcribed,
     transcribe_batch_inner, transcribed, Ignore, commit_ime, Usable
<1>9. CASE Quiet \/ UNCHANGED vars
  BY <1>9 DEF Quiet, vars
<1> QED
  BY <1>1, <1>2, <1>3, <1>4, <1>5, <1>6, <1>7, <1>8, <1>9 DEF Next, Daemon

\* No key after the end of the channel.
LEMMA NoKeysAfterCloseStep ==
    ASSUME NoKeysAfterClose, ClosedInv, ReleaseInv, HeldInv, MarkerInv, StageType,
           [Next]_vars
    PROVE  NoKeysAfterClose'
<1> USE DEF NoKeysAfterClose, ClosedInv, ReleaseInv, HeldInv, MarkerInv, UsesIme, AtRest,
       Deliverers, ShowMarker, StageType, PCs
<1>1. CASE Environment
  BY <1>1 DEF Environment, HkPress, HkReleaseCompleted, HkReleaseStarted, HkStop,
     ImeInvalidated, Signal, HkSend
<1>2. CASE MainLoop
  BY <1>2, RecordingAssumption DEF MainLoop, main_closed, main_press, main_shutdown,
     main_stray, Unwoken
<1>3. CASE Begin
  BY <1>3, RecordingAssumption DEF Begin, begin_recording, start_recording
<1>4. CASE Release
  BY <1>4 DEF Release, batch_closed, batch_released, batch_timeout, no_session_released,
     no_session_timeout, no_session_unsafe, release_seen, release_unseen,
     wait_for_release_completion, wait_for_release_started, Ignore
<1>5. CASE Capture
  <2>1. CASE capture_cancelled
    BY <2>1 DEF capture_cancelled, ImeCancelled
  <2>2. CASE capture_hotkey
    BY <2>2 DEF capture_hotkey, ImeCancelled
  <2>3. CASE capture_event
    BY <2>3 DEF capture_event, ImeCancelled, process_realtime_event, ApplyText, ApplyIme,
       ApplyLive, Fail
  <2>4. CASE capture_ime_failed
    BY <2>4 DEF capture_ime_failed, ime_request_failed, Fail
  <2>5. CASE capture_session_ended
    BY <2>5 DEF capture_session_ended, ImeCancelled
  <2>6. CASE capture_timeout
    BY <2>6 DEF capture_timeout, ImeCancelled
  <2>7. CASE capture_abort
    BY <2>7 DEF capture_abort
  <2> QED
    BY <1>5, <2>1, <2>2, <2>3, <2>4, <2>5, <2>6, <2>7 DEF Capture
<1>6. CASE Finish
  <2>1. CASE stop_recording
    BY <2>1 DEF stop_recording, wait_for_delivery_safety
  <2>2. CASE finish_realtime_without_session
    BY <2>2 DEF finish_realtime_without_session
  <2>3. CASE audio_error
    BY <2>3 DEF audio_error, TailKeys, cleanup_live_tail, cleanup_live_tail_failed
  <2>4. CASE audio_ok_batch
    BY <2>4 DEF audio_ok_batch
  <2>5. CASE send_finalize
    BY <2>5 DEF send_finalize
  <2>6. CASE finish_delivered
    BY <2>6 DEF finish_delivered, TailKeys, Usable, cleanup_live_tail,
       cleanup_live_tail_failed, realtime_next_step
  <2>7. CASE finish_fallback
    BY <2>7 DEF finish_fallback, TailKeys, Usable, cleanup_live_tail,
       cleanup_live_tail_failed, realtime_next_step
  <2>8. CASE finish_ime_result
    BY <2>8 DEF finish_ime_result, Usable, commit_ime
  <2> QED
    BY <1>6, <2>1, <2>2, <2>3, <2>4, <2>5, <2>6, <2>7, <2>8 DEF Finish
<1>7. CASE Final
  BY <1>7 DEF Final, final_abort, final_cancelled, final_event, final_hotkey,
     final_ime_failed, final_session_ended, ImeCancelled, process_realtime_event, Ignore,
     ime_request_failed, ApplyText, Fail, ApplyIme, ApplyLive
<1>8. CASE Batch
  BY <1>8 DEF Batch, ime_batch_cancelled, ime_batch_hotkey, ime_batch_transcribed,
     transcribe_batch_inner, transcribed, Ignore, commit_ime, Usable
<1>9. CASE Quiet \/ UNCHANGED vars
  BY <1>9 DEF Quiet, vars
<1> QED
  BY <1>1, <1>2, <1>3, <1>4, <1>5, <1>6, <1>7, <1>8, <1>9 DEF Next, Daemon

\* Deferred delivery waits for the end of the release.
LEMMA DeferredKeysWaitStep ==
    ASSUME DeferredKeysWait, ClosedInv, ReleaseInv, HeldInv, MarkerInv, StageType,
           [Next]_vars
    PROVE  DeferredKeysWait'
<1> USE DEF DeferredKeysWait, ClosedInv, ReleaseInv, HeldInv, MarkerInv, UsesIme, AtRest,
       Deliverers, ShowMarker, StageType, PCs
<1>1. CASE Environment
  BY <1>1 DEF Environment, HkPress, HkReleaseCompleted, HkReleaseStarted, HkStop,
     ImeInvalidated, Signal, HkSend
<1>2. CASE MainLoop
  BY <1>2, RecordingAssumption DEF MainLoop, main_closed, main_press, main_shutdown,
     main_stray, Unwoken
<1>3. CASE Begin
  BY <1>3, RecordingAssumption DEF Begin, begin_recording, start_recording
<1>4. CASE Release
  BY <1>4 DEF Release, batch_closed, batch_released, batch_timeout, no_session_released,
     no_session_timeout, no_session_unsafe, release_seen, release_unseen,
     wait_for_release_completion, wait_for_release_started, Ignore
<1>5. CASE Capture
  BY <1>5 DEF Capture, capture_abort, capture_cancelled, capture_event, capture_hotkey,
     capture_ime_failed, capture_session_ended, capture_timeout, ImeCancelled,
     process_realtime_event, ime_request_failed, ApplyText, Fail, ApplyIme, ApplyLive
<1>6. CASE Finish
  BY <1>6 DEF Finish, audio_error, audio_ok_batch, finish_delivered, finish_fallback,
     finish_ime_result, finish_realtime_without_session, send_finalize, stop_recording,
     TailKeys, cleanup_live_tail, cleanup_live_tail_failed, Usable, realtime_next_step,
     commit_ime, wait_for_delivery_safety
<1>7. CASE Final
  BY <1>7 DEF Final, final_abort, final_cancelled, final_event, final_hotkey,
     final_ime_failed, final_session_ended, ImeCancelled, process_realtime_event, Ignore,
     ime_request_failed, ApplyText, Fail, ApplyIme, ApplyLive
<1>8. CASE Batch
  BY <1>8 DEF Batch, ime_batch_cancelled, ime_batch_hotkey, ime_batch_transcribed,
     transcribe_batch_inner, transcribed, Ignore, commit_ime, Usable
<1>9. CASE Quiet \/ UNCHANGED vars
  BY <1>9 DEF Quiet, vars
<1> QED
  BY <1>1, <1>2, <1>3, <1>4, <1>5, <1>6, <1>7, <1>8, <1>9 DEF Next, Daemon

\* Keys wait for Alt, unless the time limit ended the recording.
LEMMA KeysWaitForAltStep ==
    ASSUME KeysWaitForAlt, ClosedInv, ReleaseInv, HeldInv, MarkerInv, StageType,
           FlagType, HistoryType, [Next]_vars
    PROVE  KeysWaitForAlt'
<1> USE DEF KeysWaitForAlt, ClosedInv, ReleaseInv, HeldInv, MarkerInv, UsesIme, AtRest,
       Deliverers, ShowMarker, StageType, PCs
<1>1. CASE Environment
  BY <1>1 DEF Environment, HkPress, HkReleaseCompleted, HkReleaseStarted, HkStop,
     ImeInvalidated, Signal, HkSend
<1>2. CASE MainLoop
  BY <1>2, RecordingAssumption DEF MainLoop, main_closed, main_press, main_shutdown,
     main_stray, Unwoken
<1>3. CASE Begin
  BY <1>3, RecordingAssumption DEF Begin, begin_recording, start_recording
<1>4. CASE Release
  BY <1>4 DEF Release, batch_closed, batch_released, batch_timeout, no_session_released,
     no_session_timeout, no_session_unsafe, release_seen, release_unseen,
     wait_for_release_completion, wait_for_release_started, Ignore
<1>5. CASE Capture
  <2>1. CASE capture_cancelled
    BY <2>1 DEF capture_cancelled, ImeCancelled
  <2>2. CASE capture_hotkey
    BY <2>2 DEF capture_hotkey, ImeCancelled
  <2>3. CASE capture_event
    <3>1. TextType /\ process_realtime_event(TRUE)
      BY <2>3 DEF capture_event, TextType, FlagType, HistoryType
    <3>2. TextType' /\ EventKeys
      BY <3>1, EventType
    <3> QED
      BY <2>3, <3>2 DEF capture_event, TextType, EventKeys
  <2>4. CASE capture_ime_failed
    BY <2>4 DEF capture_ime_failed, ime_request_failed, Fail
  <2>5. CASE capture_session_ended
    BY <2>5 DEF capture_session_ended, ImeCancelled
  <2>6. CASE capture_timeout
    BY <2>6 DEF capture_timeout, ImeCancelled
  <2>7. CASE capture_abort
    BY <2>7 DEF capture_abort
  <2> QED
    BY <1>5, <2>1, <2>2, <2>3, <2>4, <2>5, <2>6, <2>7 DEF Capture
<1>6. CASE Finish
  <2>1. CASE stop_recording
    BY <2>1 DEF stop_recording, wait_for_delivery_safety
  <2>2. CASE finish_realtime_without_session
    BY <2>2 DEF finish_realtime_without_session
  <2>3. CASE audio_error
    BY <2>3 DEF audio_error, TailKeys, cleanup_live_tail, cleanup_live_tail_failed
  <2>4. CASE audio_ok_batch
    BY <2>4 DEF audio_ok_batch
  <2>5. CASE send_finalize
    BY <2>5 DEF send_finalize
  <2>6. CASE finish_delivered
    BY <2>6 DEF finish_delivered, TailKeys, Usable, cleanup_live_tail,
       cleanup_live_tail_failed, realtime_next_step
  <2>7. CASE finish_fallback
    BY <2>7 DEF finish_fallback, TailKeys, Usable, cleanup_live_tail,
       cleanup_live_tail_failed, realtime_next_step
  <2>8. CASE finish_ime_result
    BY <2>8 DEF finish_ime_result, Usable, commit_ime
  <2> QED
    BY <1>6, <2>1, <2>2, <2>3, <2>4, <2>5, <2>6, <2>7, <2>8 DEF Finish
<1>7. CASE Final
  <2>1. CASE final_cancelled
    BY <2>1 DEF final_cancelled, ImeCancelled
  <2>2. CASE final_hotkey
    BY <2>2 DEF final_hotkey, Ignore, ImeCancelled
  <2>3. CASE final_event
    <3>1. TextType /\ process_realtime_event(FALSE)
      BY <2>3 DEF final_event, TextType, FlagType, HistoryType
    <3>2. TextType' /\ EventKeys
      BY <3>1, EventType
    <3> QED
      BY <2>3, <3>2 DEF final_event, TextType, EventKeys
  <2>4. CASE final_ime_failed
    BY <2>4 DEF final_ime_failed, ime_request_failed, Fail
  <2>5. CASE final_session_ended
    BY <2>5 DEF final_session_ended, ImeCancelled
  <2>6. CASE final_abort
    BY <2>6 DEF final_abort
  <2> QED
    BY <1>7, <2>1, <2>2, <2>3, <2>4, <2>5, <2>6 DEF Final
<1>8. CASE Batch
  BY <1>8 DEF Batch, ime_batch_cancelled, ime_batch_hotkey, ime_batch_transcribed,
     transcribe_batch_inner, transcribed, Ignore, commit_ime, Usable
<1>9. CASE Quiet \/ UNCHANGED vars
  BY <1>9 DEF Quiet, vars
<1> QED
  BY <1>1, <1>2, <1>3, <1>4, <1>5, <1>6, <1>7, <1>8, <1>9 DEF Next, Daemon

-----------------------------------------------------------------------------
(* What becomes of the text.                                                *)

\* While a session is heard, text reaches the user in one way only and shows
\* in the flags.
LiveText ==
    /\ delivered \subseteq {"live"}
    /\ "live" \in delivered => delivery = "Live" /\ (committed \/ ~tail_safe)
    /\ delivery = "Deferred" => ~tail

\* A transcript keeps that, applied whole, in part or not at all.
LEMMA ApplyTextLive ==
    ASSUME TextType, LiveText, NEW commits \in BOOLEAN, ApplyText(commits),
           delivery' = delivery
    PROVE  LiveText'
<1> USE DEF TextType, LiveText
<1>1. CASE failed /\ UNCHANGED <<failed, textVars, keyVars>>
  BY <1>1
<1>2. CASE /\ delivery = "Deferred"
           /\ UNCHANGED <<tail_safe, tail, delivered>>
  BY <1>2
<1>3. CASE delivery = "Live" /\ ApplyLive(commits)
  <2>1. /\ delivered' \subseteq delivered \cup {"live"}
        /\ committed => committed'
        /\ tail_safe' => tail_safe
    BY <1>3 DEF ApplyLive, Fail
  <2>2. delivered' = delivered \/ committed' \/ ~tail_safe'
    BY <1>3 DEF ApplyLive, Fail
  <2> QED
    BY <1>3, <2>1, <2>2
<1>4. CASE delivery = "Ime" /\ ApplyIme(commits)
  BY <1>4 DEF ApplyIme
<1> QED
  BY <1>1, <1>2, <1>3, <1>4 DEF ApplyText

\* So does every event of the session.
LEMMA EventLive ==
    ASSUME TextType, LiveText, NEW partials \in BOOLEAN, process_realtime_event(partials),
           delivery' = delivery
    PROVE  LiveText'
<1>1. CASE ApplyText(TRUE)
  BY <1>1, ApplyTextLive
<1>2. CASE ApplyText(FALSE)
  BY <1>2, ApplyTextLive
<1>3. CASE UNCHANGED textVars
  BY <1>3 DEF LiveText
<1> QED
  BY <1>1, <1>2, <1>3 DEF process_realtime_event

\* The text of a recording, at each await and once it is over.
DeliveryInv == TextInv /\ DeliveredOnce /\ BatchOnCleanLine

\* A step that leaves the text alone keeps it, unless it goes on to an await
\* where there must be none.
LEMMA TextKept ==
    ASSUME DeliveryInv, UNCHANGED <<mode, delivery, textVars>>,
           AtRest => AtRest',
           pc' \in Textless => pc \in Textless \/ (mode = "Batch" /\ ~AtRest)
    PROVE  DeliveryInv'
BY DEF DeliveryInv, TextInv, DeliveredOnce, BatchOnCleanLine, CleanLine

\* The text of a recording reaches the user once.
LEMMA DeliveryInvStep ==
    ASSUME StageType, FlagType, HistoryType, HeldInv, DeliveryInv, [Next]_vars
    PROVE  DeliveryInv'
<1> USE DEF Textless, AtRest
<1>1. CASE Environment
  <2>1. UNCHANGED <<mode, pc, delivery, textVars>>
    BY <1>1 DEF Environment, HkPress, HkReleaseCompleted, HkReleaseStarted, HkStop,
       ImeInvalidated, Signal, HkSend
  <2> QED
    BY <2>1, TextKept
<1>2. CASE MainLoop
  <2>1. CASE main_press
    BY <2>1 DEF main_press, DeliveryInv, TextInv, DeliveredOnce, BatchOnCleanLine, CleanLine
  <2>2. CASE main_stray \/ main_closed \/ main_shutdown
    <3>1. UNCHANGED <<mode, delivery, textVars>> /\ pc' \in {"main", "exited"}
      BY <2>2 DEF main_stray, main_closed, main_shutdown
    <3> QED
      BY <3>1, TextKept
  <2> QED
    BY <1>2, <2>1, <2>2 DEF MainLoop
<1>3. CASE Begin
  <2>1. /\ UNCHANGED <<mode, delivery, textVars>>
        /\ pc \in {"begin", "start"}
    BY <1>3 DEF Begin, begin_recording, start_recording
  <2> QED
    BY <2>1, TextKept
<1>4. CASE Release
  <2>1. /\ UNCHANGED <<mode, delivery, textVars>> /\ ~AtRest
        /\ pc' \in Textless => pc \in Textless
    BY <1>4 DEF Release, batch_closed, batch_released, batch_timeout, no_session_released,
       no_session_timeout, no_session_unsafe, release_seen, release_unseen,
       wait_for_release_completion, wait_for_release_started, Ignore
  <2> QED
    BY <2>1, TextKept
<1>5. CASE Capture
  <2>1. CASE capture_event
    <3>1. /\ TextType /\ LiveText /\ process_realtime_event(TRUE)
          /\ mode = "Realtime" /\ pc = "capture" /\ UNCHANGED <<mode, pc, delivery>>
      BY <2>1 DEF capture_event, TextType, FlagType, HistoryType, DeliveryInv, TextInv,
         LiveText, HeldInv
    <3>2. LiveText'
      BY <3>1, EventLive
    <3> QED
      BY <3>1, <3>2 DEF LiveText, DeliveryInv, TextInv, DeliveredOnce, BatchOnCleanLine
  <2>2. CASE capture_ime_failed
    BY <2>2 DEF capture_ime_failed, ime_request_failed, Fail, DeliveryInv, TextInv, DeliveredOnce,
       BatchOnCleanLine, HeldInv
  <2>3. CASE ~(capture_event \/ capture_ime_failed)
    <3>1. /\ UNCHANGED <<mode, delivery, textVars>> /\ ~AtRest
          /\ pc' \notin Textless
      BY <1>5, <2>3 DEF Capture, capture_abort, capture_cancelled, capture_hotkey,
         capture_session_ended, capture_timeout
    <3> QED
      BY <3>1, TextKept
  <2> QED
    BY <2>1, <2>2, <2>3
<1>6. CASE Finish
  <2>1. CASE \/ stop_recording \/ finish_realtime_without_session
             \/ audio_ok_batch \/ send_finalize
    <3>1. /\ UNCHANGED <<mode, delivery, textVars>> /\ ~AtRest
          /\ pc' \in Textless => mode = "Batch"
      BY <2>1 DEF stop_recording, finish_realtime_without_session, audio_ok_batch,
         send_finalize, wait_for_delivery_safety, StageType
    <3> QED
      BY <3>1, TextKept
  <2>2. CASE audio_error
    BY <2>2 DEF audio_error, cleanup_live_tail, cleanup_live_tail_failed, DeliveryInv, TextInv,
       DeliveredOnce, BatchOnCleanLine, CleanLine, FlagType
  <2>3. CASE finish_delivered
    BY <2>3 DEF finish_delivered, cleanup_live_tail, cleanup_live_tail_failed, DeliveryInv,
       TextInv, DeliveredOnce, BatchOnCleanLine, CleanLine, FlagType, HeldInv
  <2>4. CASE finish_fallback
    <3>1. /\ ~committed /\ tail_safe /\ ~AtRest
          /\ mode = "Realtime"
          /\ UNCHANGED <<mode, delivery, tail_safe, committed, delivered>>
      BY <2>4 DEF finish_fallback, realtime_next_step, HeldInv, FlagType
    <3>2. delivered = {}
      BY <3>1 DEF DeliveryInv, TextInv
    <3>3. \/ pc' = "batch" /\ tail' = (tail /\ delivery = "Deferred")
          \/ pc' = "main" /\ UNCHANGED tail
      BY <2>4 DEF finish_fallback, cleanup_live_tail, cleanup_live_tail_failed
    <3> QED
      BY <3>1, <3>2, <3>3 DEF DeliveryInv, TextInv, DeliveredOnce, BatchOnCleanLine, CleanLine,
         FlagType
  <2>5. CASE finish_ime_result
    <3>1. /\ delivery = "Ime" /\ ~AtRest /\ mode = "Realtime"
          /\ UNCHANGED <<mode, delivery, tail_safe, committed>>
          /\ \/ pc' = "main" /\ UNCHANGED tail /\ delivered' \subseteq delivered \cup {"ime"}
             \/ /\ pc' \in {"batch", "main"} /\ ~committed /\ tail_safe
                /\ ~tail' /\ UNCHANGED delivered
      BY <2>5 DEF finish_ime_result, commit_ime, HeldInv, FlagType
    <3>2. delivered = {}
      BY <3>1 DEF DeliveryInv, TextInv
    <3> QED
      BY <3>1, <3>2 DEF DeliveryInv, TextInv, DeliveredOnce, BatchOnCleanLine, CleanLine
  <2> QED
    BY <1>6, <2>1, <2>2, <2>3, <2>4, <2>5 DEF Finish
<1>7. CASE Final
  <2>1. CASE final_event
    <3>1. /\ TextType /\ LiveText /\ process_realtime_event(FALSE)
          /\ mode = "Realtime" /\ pc = "final" /\ UNCHANGED <<mode, pc, delivery>>
      BY <2>1 DEF final_event, TextType, FlagType, HistoryType, DeliveryInv, TextInv,
         LiveText, HeldInv
    <3>2. LiveText'
      BY <3>1, EventLive
    <3> QED
      BY <3>1, <3>2 DEF LiveText, DeliveryInv, TextInv, DeliveredOnce, BatchOnCleanLine
  <2>2. CASE final_ime_failed
    BY <2>2 DEF final_ime_failed, ime_request_failed, Fail, DeliveryInv, TextInv, DeliveredOnce,
       BatchOnCleanLine, HeldInv
  <2>3. CASE ~(final_event \/ final_ime_failed)
    <3>1. /\ UNCHANGED <<mode, delivery, textVars>> /\ ~AtRest
          /\ pc' \notin Textless
      BY <1>7, <2>3 DEF Final, final_cancelled, final_hotkey, final_session_ended, final_abort,
         Ignore
    <3> QED
      BY <3>1, TextKept
  <2> QED
    BY <2>1, <2>2, <2>3
<1>8. CASE Batch
  <2>1. CASE transcribe_batch_inner \/ ime_batch_cancelled \/ ime_batch_hotkey
    <3>1. /\ UNCHANGED <<mode, delivery, textVars>> /\ ~AtRest
          /\ pc \in Textless
      BY <2>1 DEF transcribe_batch_inner, ime_batch_cancelled, ime_batch_hotkey, Ignore
    <3> QED
      BY <3>1, TextKept
  <2>2. CASE transcribed \/ ime_batch_transcribed
    <3>1. /\ pc \in Textless /\ ~AtRest /\ pc' = "main"
          /\ UNCHANGED <<mode, delivery, tail_safe, committed, tail>>
          /\ \E way \in {"batch", "ime_batch"} : delivered' \subseteq delivered \cup {way}
      BY <2>2 DEF transcribed, ime_batch_transcribed, commit_ime
    <3>2. delivered = {} /\ CleanLine
      BY <3>1 DEF DeliveryInv, TextInv
    <3>3. PICK way \in {"batch", "ime_batch"} : delivered' \subseteq {way}
      BY <3>1, <3>2
    <3> QED
      BY <3>1, <3>2, <3>3 DEF DeliveryInv, TextInv, DeliveredOnce, BatchOnCleanLine, CleanLine
  <2> QED
    BY <1>8, <2>1, <2>2 DEF Batch
<1>9. CASE Quiet \/ UNCHANGED vars
  <2>1. UNCHANGED <<mode, pc, delivery, textVars>>
    BY <1>9 DEF Quiet, vars
  <2> QED
    BY <2>1, TextKept
<1> QED
  BY <1>1, <1>2, <1>3, <1>4, <1>5, <1>6, <1>7, <1>8, <1>9 DEF Next, Daemon

-----------------------------------------------------------------------------
(* The theorems.                                                            *)

\* The daemon starts in IInv.
LEMMA InitInv == Init => IInv
<1> SUFFICES ASSUME Init PROVE IInv
  OBVIOUS
<1> USE DEF Init
<1>1. TypeOK
  <2>1. StageType
    BY RecordingAssumption DEF StageType, PCs
  <2>2. FlagType /\ HotkeyType
    BY DEF FlagType, HotkeyType
  <2>3. chan \in Seq(HotkeyEvents)
    BY DEF HotkeyEvents
  <2>4. ChannelType
    BY <2>3, RecordingAssumption DEF ChannelType
  <2>5. HistoryType
    BY DEF HistoryType, Heard
  <2> QED
    BY <2>1, <2>2, <2>4, <2>5 DEF TypeOK
<1>2. HeldInv /\ ClosedInv /\ MarkerInv /\ ReleaseInv
  BY DEF HeldInv, ClosedInv, MarkerInv, ReleaseInv, Recorders, Deliverers, AtRest
<1>3. NoKeysAfterClose /\ DeferredKeysWait /\ KeysWaitForAlt
  BY DEF NoKeysAfterClose, DeferredKeysWait, KeysWaitForAlt
<1>4. TextInv /\ DeliveredOnce /\ BatchOnCleanLine
  BY DEF TextInv, DeliveredOnce, BatchOnCleanLine, CleanLine, Textless, AtRest
<1> QED
  BY <1>1, <1>2, <1>3, <1>4 DEF IInv

\* Every step of the daemon and of its environment keeps it.
LEMMA NextInv == IInv /\ [Next]_vars => IInv'
BY StageTypeStep, FlagTypeStep, HotkeyTypeStep, ChannelTypeStep, HistoryTypeStep,
   HeldInvStep, ClosedInvStep, MarkerInvStep, ReleaseInvStep,
   NoKeysAfterCloseStep, DeferredKeysWaitStep, KeysWaitForAltStep, DeliveryInvStep
   DEF IInv, TypeOK, DeliveryInv

\* IInv is an invariant of the daemon's main task.
THEOREM Invariance == Spec => []IInv
BY InitInv, NextInv, PTL DEF Spec

\* Each variable keeps the values of its type through every recording.
THEOREM TypeCorrect == Spec => []TypeOK
<1>1. IInv => TypeOK
  BY DEF IInv
<1> QED
  BY <1>1, Invariance, PTL

\* main.rs and realtime_mode.rs: whichever of their many exits a recording
\* takes, sound and microphones are restored, pw-record is stopped and the IME
\* session is gone when the event loop runs again.
THEOREM AudioRestored == Spec => []RestoredAtRest
<1>1. IInv => RestoredAtRest
  BY DEF IInv, HeldInv, RestoredAtRest, AtRest, Recorders
<1> QED
  BY <1>1, Invariance, PTL

\* RecordingState.marker_active: a marker is left behind only when the hotkey
\* channel closed.
THEOREM MarkerGone == Spec => []MarkerGoneAtRest
<1>1. IInv => MarkerGoneAtRest
  BY DEF IInv, MarkerInv, MarkerGoneAtRest
<1> QED
  BY <1>1, Invariance, PTL

\* wait_for_release_completion's rule, for every recording.
THEOREM ClosedIsUnsafe == Spec => []NoKeysAfterClose
<1>1. IInv => NoKeysAfterClose
  BY DEF IInv
<1> QED
  BY <1>1, Invariance, PTL

\* deferred.rs: nothing is typed into a window that needs deferred delivery
\* before the release is complete.
THEOREM DeferredIsDeferred == Spec => []DeferredKeysWait
<1>1. IInv => DeferredKeysWait
  BY DEF IInv
<1> QED
  BY <1>1, Invariance, PTL

\* hotkey.rs and main.rs: a release that was seen to start is seen to complete
\* before a key is typed, unless the time limit ended a live recording.
THEOREM KeysAfterRelease == Spec => []KeysWaitForAlt
<1>1. IInv => KeysWaitForAlt
  BY DEF IInv
<1> QED
  BY <1>1, Invariance, PTL

\* realtime_mode.rs: what was typed live, committed to the IME or typed on
\* release is not transcribed and typed again by the batch fallback.
THEOREM TextDeliveredOnce == Spec => []DeliveredOnce
<1>1. IInv => DeliveredOnce
  BY DEF IInv
<1> QED
  BY <1>1, Invariance, PTL

\* realtime_next_step: the batch fallback types only when the live text has
\* left nothing before the cursor.
THEOREM FallbackIsClean == Spec => []BatchOnCleanLine
<1>1. IInv => BatchOnCleanLine
  BY DEF IInv
<1> QED
  BY <1>1, Invariance, PTL
=============================================================================

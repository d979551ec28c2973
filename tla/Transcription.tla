---------------------------- MODULE Transcription ----------------------------
(***************************************************************************)
(* From the end of a batch recording to its text: the recording (Capture),  *)
(* the checks of src/src/main.rs lines 386-420 that keep noise and silence  *)
(* from the provider, and the requests with their retries                   *)
(* (src/src/transcribe.rs).  The provider answers, fails, or does not        *)
(* answer in time.                                                          *)
(***************************************************************************)
EXTENDS Capture

CONSTANTS
    MinFrames,    \* a shorter recording is discarded (800 bytes of WAV)
    MAX_RETRIES,  \* 2 in the code
    None

ASSUME TranscriptionAssumption ==
    /\ MinFrames \in Nat /\ MAX_RETRIES \in Nat
    /\ None \notin {"short", "silent", "text", "error"}

\* What a request comes to.  "slow": no answer within the client's 30 seconds.
Answers == {"text", "slow", "unreachable", "broken", "server", "limited", "refused", "garbled"}

VARIABLES
    at,        \* "idle", "checking", "keyterms", "requesting", "sleeping" or "done"
    attempt,
    answers,   \* history: what each request came to
    outcome    \* None, "short", "silent", "text" or "error"

requestVars == <<at, attempt, answers, outcome>>
vars == <<captureVars, requestVars>>

Init ==
    /\ CaptureInit
    /\ at = "idle" /\ attempt = 0 /\ answers = <<>> /\ outcome = None

Returns(what) == at' = "done" /\ outcome' = what /\ UNCHANGED <<captureVars, attempt, answers>>

\* The recording is there, or failed.
audio_result ==
    /\ at = "idle"
    /\ \/ stop = "error" /\ Returns("error")
       \/ /\ stop = "done"
          /\ at' = "checking"
          /\ UNCHANGED <<captureVars, attempt, answers, outcome>>

transcribe_batch_inner ==
    /\ at = "checking"
    /\ CASE Len(data) < MinFrames -> Returns("short")
         [] is_silence(compute_peak_amplitude(data)) -> Returns("silent")
         [] OTHER ->
              at' = "keyterms" /\ UNCHANGED <<captureVars, attempt, answers, outcome>>

\* A keyterms file that cannot be loaded fails the transcription (Stores).
load_keyterms ==
    /\ at = "keyterms"
    /\ \/ Returns("error")
       \/ at' = "requesting" /\ UNCHANGED <<captureVars, attempt, answers, outcome>>

is_transient_Any(answer) == answer # "text"                          \* faulty
is_transient(answer) == answer \in {"slow", "unreachable", "server"}

retries(answer) == is_transient(answer) /\ attempt < MAX_RETRIES

try_transcribe ==
    /\ at = "requesting"
    /\ \E answer \in Answers :
        /\ answers' = Append(answers, answer)
        /\ IF retries(answer) THEN at' = "sleeping" /\ UNCHANGED outcome
           ELSE at' = "done" /\ outcome' = IF answer = "text" THEN "text" ELSE "error"
    /\ UNCHANGED <<captureVars, attempt>>

backoff ==
    /\ at = "sleeping"
    /\ at' = "requesting" /\ attempt' = attempt + 1
    /\ UNCHANGED <<captureVars, answers, outcome>>

Transcribe ==
    audio_result \/ transcribe_batch_inner \/ load_keyterms \/ try_transcribe \/ backoff

Next == (CaptureNext /\ UNCHANGED requestVars) \/ Transcribe

\* A request is answered or given up after 30 seconds.
Fairness == CaptureFairness /\ WF_vars(Transcribe)

Spec == Init /\ [][Next]_vars /\ Fairness

-----------------------------------------------------------------------------
(* Properties.                                                              *)

\* A recording in which somebody can be heard, as opposed to one whose only loud
\* samples are the smallest value, whose absolute value does not fit.
Audible(pcm) ==
    \E i \in DOMAIN pcm :
        pcm[i] # Smallest /\ (pcm[i] >= SILENCE_THRESHOLD \/ -pcm[i] >= SILENCE_THRESHOLD)

\* The provider gets every recording that is long enough and audible and no other,
\* unless the keyterms cannot be loaded; and gets it again only after a failure that
\* may pass, MAX_RETRIES times at most (main.rs:392-420, audio.rs:288-303,
\* transcribe.rs:57-108 and 165-184).
RequestsJustified ==
    /\ answers # <<>> => Audible(data) /\ Len(data) >= MinFrames
    /\ outcome \in {"short", "silent"} => ~(Audible(data) /\ Len(data) >= MinFrames)
    /\ Len(answers) <= MAX_RETRIES + 1
    /\ \A i \in 1 .. Len(answers) - 1 : answers[i] \in {"slow", "unreachable", "server"}
    /\ outcome = "text" <=> answers # <<>> /\ answers[Len(answers)] = "text"

\* A recording that is stopped comes to an end, whether or not pw-record obeys, the
\* drain task keeps up or the provider answers (audio.rs:57-104).
BatchEnds == stop # "none" ~> outcome # None
=============================================================================

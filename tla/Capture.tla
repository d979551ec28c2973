------------------------------- MODULE Capture -------------------------------
(***************************************************************************)
(* Recording (src/src/audio.rs): pw-record writes samples into a pipe of    *)
(* limited size, a task drains it into a buffer and hands each chunk on to  *)
(* the realtime session, and stop() ends the process -- SIGTERM, then       *)
(* SIGKILL -- and waits for the rest.  A frame is one sample.               *)
(*                                                                          *)
(* A definition marked faulty stands beside the one it is a variant of; it   *)
(* is used by no specification, only to see a property fail.                *)
(***************************************************************************)
EXTENDS Integers, Sequences, SequencesExt

CONSTANTS
    Smallest,           \* of the samples a frame can hold (i16::MIN)
    Levels,             \* the samples that occur
    SILENCE_THRESHOLD,  \* 50 in the code
    PipeCap,            \* bound: frames in the pipe
    MaxFrames           \* bound: frames recorded

\* Two's complement: the absolute value of Smallest is no sample.
ASSUME CaptureAssumption ==
    /\ Smallest \in Int /\ Smallest < 0
    /\ PipeCap \in Nat \ {0} /\ MaxFrames \in Nat
    /\ Levels \subseteq Smallest .. -Smallest - 1
    /\ SILENCE_THRESHOLD \in 1 .. -Smallest - 1

VARIABLES
    pw,         \* pw-record: "running", "exited" (not waited for) or "reaped"
    pipe,       \* its standard output
    drain,      \* drain task: "reading", "ended" or "failed"
    raw_pcm,    \* the shared buffer
    sender,     \* pcm_sender is Some
    listening,  \* the session holds the receiver
    stop,       \* "none", "waiting", "killed", "draining", "done" or "error"
    partial,    \* waiting for the drain task timed out
    data,       \* the recording stop() returns
    \* history
    written,    \* everything pw-record wrote
    fanned      \* everything the session was sent

childVars == <<pw, pipe, written>>
drainVars == <<drain, raw_pcm, sender, listening, fanned>>
stopVars == <<stop, partial, data>>
captureVars == <<childVars, drainVars, stopVars>>

CaptureInit ==
    /\ pw = "running" /\ pipe = <<>> /\ written = <<>>
    /\ drain = "reading" /\ raw_pcm = <<>>
    /\ sender \in BOOLEAN /\ listening = sender /\ fanned = <<>>
    /\ stop = "none" /\ partial = FALSE /\ data = <<>>

-----------------------------------------------------------------------------
(* pw-record, and the session at the other end.                             *)

\* With the pipe full pw-record blocks.
Write ==
    /\ pw = "running" /\ Len(pipe) < PipeCap /\ Len(written) < MaxFrames
    /\ \E s \in Levels : pipe' = Append(pipe, s) /\ written' = Append(written, s)
    /\ UNCHANGED <<pw, drainVars, stopVars>>

\* By itself, or on SIGTERM, which it may ignore.
Exit ==
    /\ pw = "running" /\ stop # "killed"
    /\ pw' = "exited"
    /\ UNCHANGED <<pipe, written, drainVars, stopVars>>

Killed ==
    /\ pw = "running" /\ stop = "killed"
    /\ pw' = "exited"
    /\ UNCHANGED <<pipe, written, drainVars, stopVars>>

SessionEnds ==
    /\ listening
    /\ listening' = FALSE
    /\ UNCHANGED <<childVars, drain, raw_pcm, sender, fanned, stopVars>>

-----------------------------------------------------------------------------
(* The drain task.                                                          *)

fan_out_pcm_chunk(chunk) ==
    /\ raw_pcm' = raw_pcm \o chunk
    /\ sender' = (sender /\ listening)
    /\ fanned' = IF sender' THEN fanned \o chunk ELSE fanned

drain_read ==
    /\ drain = "reading" /\ pipe # <<>>
    /\ \E n \in 1 .. Len(pipe) :
        /\ fan_out_pcm_chunk(SubSeq(pipe, 1, n))
        /\ pipe' = SubSeq(pipe, n + 1, Len(pipe))
    /\ UNCHANGED <<pw, written, drain, listening, stopVars>>

drain_ends ==
    /\ drain = "reading" /\ pipe = <<>> /\ pw # "running"
    /\ drain' = "ended" /\ sender' = FALSE
    /\ UNCHANGED <<childVars, raw_pcm, listening, fanned, stopVars>>

drain_error ==
    /\ drain = "reading"
    /\ drain' = "failed" /\ sender' = FALSE
    /\ UNCHANGED <<childVars, raw_pcm, listening, fanned, stopVars>>

-----------------------------------------------------------------------------
(* RecordingHandle::stop.                                                   *)

\* SIGTERM to a child that was not waited for: the pid is its own.
stop_begins ==
    /\ stop = "none"
    /\ stop' = "waiting"
    /\ UNCHANGED <<childVars, drainVars, partial, data>>

wait ==
    /\ stop \in {"waiting", "killed"} /\ pw = "exited"
    /\ pw' = "reaped" /\ stop' = "draining"
    /\ UNCHANGED <<pipe, written, drainVars, partial, data>>

\* The handle is dropped, which kills the child.
wait_error ==
    /\ stop \in {"waiting", "killed"}
    /\ stop' = "error" /\ pw' = "exited"
    /\ UNCHANGED <<pipe, written, drainVars, partial, data>>

wait_timeout_Again ==                                                \* faulty
    /\ stop = "waiting" /\ pw # "reaped"
    /\ UNCHANGED captureVars

\* 500 ms: SIGKILL.
wait_timeout ==
    /\ stop = "waiting" /\ pw # "reaped"
    /\ stop' = "killed"
    /\ UNCHANGED <<childVars, drainVars, partial, data>>

drained_Early ==                                                     \* faulty
    /\ stop = "draining"
    /\ stop' = "done" /\ data' = raw_pcm
    /\ UNCHANGED <<childVars, drainVars, partial>>

drained ==
    /\ stop = "draining" /\ drain # "reading"
    /\ stop' = "done" /\ data' = raw_pcm
    /\ UNCHANGED <<childVars, drainVars, partial>>

\* Two seconds: the task goes on without its handle.
drain_timeout ==
    /\ stop = "draining" /\ drain = "reading"
    /\ stop' = "done" /\ data' = raw_pcm /\ partial' = TRUE
    /\ UNCHANGED <<childVars, drainVars>>

CaptureNext ==
    \/ Write \/ Exit \/ Killed \/ SessionEnds
    \/ drain_read \/ drain_ends \/ drain_error
    \/ stop_begins \/ wait \/ wait_error \/ wait_timeout \/ drained \/ drain_timeout

\* The process a SIGKILL was sent to ends, and stop() goes on when what it awaits or
\* its timer is ready.  Nothing is assumed of the drain task.
CaptureFairness ==
    /\ WF_captureVars(Killed)
    /\ WF_captureVars(wait) /\ WF_captureVars(wait_timeout)
    /\ WF_captureVars(drained \/ drain_timeout)

-----------------------------------------------------------------------------
(* Loudness.                                                                *)

\* i16::abs of a release build: the smallest value stays what it is.  (A debug
\* build panics, and the daemon ends.)
abs(s) == IF s < 0 /\ s # Smallest THEN -s ELSE s

compute_peak_Signed(pcm) ==                                          \* faulty
    LET max[n \in 0 .. Len(pcm)] ==
            IF n = 0 THEN 0 ELSE IF pcm[n] > max[n - 1] THEN pcm[n] ELSE max[n - 1]
    IN  max[Len(pcm)]

compute_peak_amplitude(pcm) ==
    LET max[n \in 0 .. Len(pcm)] ==
            IF n = 0 THEN 0 ELSE IF abs(pcm[n]) > max[n - 1] THEN abs(pcm[n]) ELSE max[n - 1]
    IN  max[Len(pcm)]

is_silence(peak) == peak < SILENCE_THRESHOLD

-----------------------------------------------------------------------------
(* Properties.                                                              *)

\* stop() returns all that pw-record wrote, in order, or the beginning of it if the
\* drain task was too slow or could not read; and the session was sent the same for
\* as long as it listened (audio.rs:88-104, 201-242).
AllAudioCollected ==
    /\ IsPrefix(data, written)
    /\ stop = "done" /\ drain = "ended" /\ ~partial => data = written
    /\ sender /\ listening => fanned = raw_pcm
=============================================================================

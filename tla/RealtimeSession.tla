--------------------------- MODULE RealtimeSession ---------------------------
(***************************************************************************)
(* src/src/realtime.rs: the task of one realtime transcription session,     *)
(* between the recorder (a queue of PCM frames), the main task (Finalize    *)
(* in, events out) and the provider (a socket).  `pc' names its await:      *)
(*                                                                          *)
(*   connect     connect_async                                              *)
(*   loop        the select over control, audio and socket                  *)
(*   drain       Finalize taken, queued frames are being sent               *)
(*   send        a frame is in hand (from loop or drain, see `back')        *)
(*   ack         waiting for the provider to answer an explicit commit      *)
(*   completing  the last explicit commit was answered                      *)
(*   vad         VAD commits: the bounded wait after the final commit       *)
(*   done        the task returned                                          *)
(*                                                                          *)
(* Audio is counted in bytes.  The provider keeps the bytes it received     *)
(* since its last commit; with VAD commits it commits when it likes, with   *)
(* manual commits only when asked or when it holds more than ProviderMax.   *)
(*                                                                          *)
(* A definition marked faulty stands beside the one it is a variant of; it   *)
(* is used by no specification, only to see a property fail.                *)
(***************************************************************************)
EXTENDS Naturals, Sequences

CONSTANTS
    SegmentMax,    \* MANUAL_SEGMENT_BYTES
    ProviderMax,   \* bytes after which the provider commits by itself
    FrameSizes,    \* sizes of the recorder's frames
    MaxFrames,     \* bound: frames the recorder produces
    MaxMessages    \* bound: messages the provider sends unasked

ASSUME SessionAssumption ==
    /\ SegmentMax \in Nat \ {0}
    /\ ProviderMax \in Nat /\ SegmentMax <= ProviderMax
    /\ FrameSizes \subseteq Nat \ {0}
    /\ MaxFrames \in Nat
    /\ MaxMessages \in Nat

VARIABLES
    manual,          \* config.manual_commits
    pc, back,
    finalize,        \* Finalize was sent, or the session handle was dropped
    recorder,        \* the recorder still holds its sender
    audio_open,      \* the receiver accepts frames
    audio_closed,    \* the loop saw the end of the frames
    queue,           \* frames in the channel
    current,         \* bytes of the frame in hand not sent yet
    segment_bytes,
    serverUp,        \* the provider has not closed the socket
    uncommitted,     \* provider: bytes received since its last commit
    owed,            \* provider: explicit commits it has not answered
    inbox,           \* messages on their way to the session
    events,          \* every event the session emitted
    frames, messages,
    accepted, sent, transcribed,  \* history, in bytes: queued, sent, covered by a commit
    closed           \* history: the session took the provider's close

audioVars == <<recorder, queue, frames, accepted>>
serverVars == <<serverUp, uncommitted, owed, inbox, messages>>
vars == <<manual, pc, back, finalize, audio_open, audio_closed, audioVars, current,
          segment_bytes, serverVars, events, sent, transcribed, closed>>

Init ==
    /\ manual \in BOOLEAN
    /\ pc = "connect" /\ back = "loop"
    /\ finalize = FALSE
    /\ recorder = TRUE /\ audio_open = TRUE /\ audio_closed = FALSE
    /\ queue = << >> /\ current = 0 /\ segment_bytes = 0
    /\ serverUp = TRUE /\ uncommitted = 0 /\ owed = 0 /\ inbox = << >>
    /\ events = << >>
    /\ frames = 0 /\ messages = 0
    /\ accepted = 0 /\ sent = 0 /\ transcribed = 0 /\ closed = FALSE

-----------------------------------------------------------------------------
(* Recorder, main task and provider.                                        *)

\* fan_out_pcm_chunk: a frame for a closed receiver is dropped.
RecordFrame ==
    /\ recorder /\ frames < MaxFrames
    /\ frames' = frames + 1
    /\ \E size \in FrameSizes :
         IF audio_open /\ pc # "done"
         THEN queue' = Append(queue, size) /\ accepted' = accepted + size
         ELSE UNCHANGED <<queue, accepted>>
    /\ UNCHANGED <<manual, pc, back, finalize, recorder, audio_open, audio_closed, current,
                   segment_bytes, serverVars, events, sent, transcribed, closed>>

RecorderStops ==
    /\ recorder
    /\ recorder' = FALSE
    /\ UNCHANGED <<manual, pc, back, finalize, audio_open, audio_closed, queue, frames,
                   accepted, current, segment_bytes, serverVars, events, sent, transcribed, closed>>

\* The main task stops waiting for the recorder after a while, so frames may
\* still arrive when it finalizes.
send_control ==
    /\ ~finalize
    /\ finalize' = TRUE
    /\ UNCHANGED <<manual, pc, back, audio_open, audio_closed, audioVars, current,
                   segment_bytes, serverVars, events, sent, transcribed, closed>>

Deliver(message) == inbox' = Append(inbox, message)

ServerCommits == Deliver([kind |-> "committed", bytes |-> uncommitted]) /\ uncommitted' = 0

\* An explicit commit is answered, possibly with empty text.
Answer ==
    /\ serverUp /\ pc # "connect" /\ owed > 0
    /\ ServerCommits
    /\ owed' = owed - 1
    /\ UNCHANGED <<manual, pc, back, finalize, audio_open, audio_closed, audioVars, current,
                   segment_bytes, serverUp, messages, events, sent, transcribed, closed>>

\* Anything the provider sends unasked.
Unasked ==
    /\ serverUp /\ pc # "connect" /\ messages < MaxMessages
    /\ messages' = messages + 1
    /\ \/ /\ \E kind \in {"partial", "other"} : Deliver([kind |-> kind, bytes |-> 0])
          /\ UNCHANGED <<uncommitted, serverUp>>
       \/ /\ IF manual THEN uncommitted > ProviderMax ELSE uncommitted > 0
          /\ ServerCommits
          /\ UNCHANGED serverUp
       \/ /\ \E kind \in {"close", "error"} : Deliver([kind |-> kind, bytes |-> 0])
          /\ serverUp' = FALSE
          /\ UNCHANGED uncommitted
    /\ UNCHANGED <<manual, pc, back, finalize, audio_open, audio_closed, audioVars, current,
                   segment_bytes, owed, events, sent, transcribed, closed>>

-----------------------------------------------------------------------------
(* Events and messages.                                                     *)

emit(event) == events' = Append(events, event)
emit_completed == emit("Completed")
emit_error_Silent == emit("Error")                          \* faulty
emit_error == events' = events \o <<"Error", "Completed">>

\* An error of the task itself: it emits it and returns.
Abort ==
    /\ emit_error
    /\ pc' = "done"
    /\ UNCHANGED <<manual, back, finalize, audioVars, segment_bytes, serverVars, transcribed>>

Acknowledges_Partial(kind) == kind \in {"committed", "partial"}   \* faulty
Acknowledges(kind) == kind = "committed"
Ends(kind) == kind \in {"close", "error"}

\* handle_socket_message on the next message.  A close ends the session with
\* Completed, an error (provider, protocol or transport) with Error first; a
\* committed transcript is emitted only if it has text.
handle_socket_message ==
    /\ inbox # << >>
    /\ inbox' = Tail(inbox)
    /\ transcribed' = transcribed + Head(inbox).bytes
    /\ closed' = (closed \/ Head(inbox).kind = "close")
    /\ CASE Head(inbox).kind = "partial"   -> emit("partial")
         [] Head(inbox).kind = "other"     -> UNCHANGED events
         [] Head(inbox).kind = "committed" -> emit("committed") \/ UNCHANGED events
         [] Head(inbox).kind = "close"     -> emit_completed
         [] Head(inbox).kind = "error"     -> emit_error
    /\ UNCHANGED <<manual, finalize, audio_open, audio_closed, audioVars, serverUp,
                   uncommitted, owed, messages, sent>>

-----------------------------------------------------------------------------
(* run_session.                                                             *)

connect_async ==
    /\ pc = "connect"
    /\ \/ pc' = "loop" /\ UNCHANGED events
       \/ pc' = "done" /\ emit_error
    /\ UNCHANGED <<manual, back, finalize, audio_open, audio_closed, audioVars, current,
                   segment_bytes, serverVars, sent, transcribed, closed>>

\* Finalize, or no one left to send it.  Frames already queued stay.
loop_control ==
    /\ pc = "loop" /\ finalize
    /\ audio_open' = FALSE
    /\ pc' = "drain"
    /\ UNCHANGED <<manual, back, finalize, audio_closed, audioVars, current, segment_bytes,
                   serverVars, events, sent, transcribed, closed>>

next_frame ==
    /\ pc = "drain" \/ (pc = "loop" /\ ~audio_closed)
    /\ queue # << >>
    /\ current' = Head(queue) /\ queue' = Tail(queue)
    /\ back' = pc /\ pc' = "send"
    /\ UNCHANGED <<manual, finalize, recorder, audio_open, audio_closed, frames, accepted,
                   segment_bytes, serverVars, events, sent, transcribed, closed>>

loop_audio_ended ==
    /\ pc = "loop" /\ ~audio_closed
    /\ queue = << >> /\ ~recorder
    /\ audio_closed' = TRUE
    /\ UNCHANGED <<manual, pc, back, finalize, audio_open, audioVars, current, segment_bytes,
                   serverVars, events, sent, transcribed, closed>>

loop_message ==
    /\ pc = "loop"
    /\ handle_socket_message
    /\ pc' = IF Ends(Head(inbox).kind) THEN "done" ELSE pc
    /\ UNCHANGED <<back, current, segment_bytes>>

-----------------------------------------------------------------------------
(* send_audio: with manual commits a frame is cut at the segment boundary,  *)
(* and a full segment is committed and acknowledged before the next byte.   *)

ChunkSize ==
    IF ~manual \/ current < SegmentMax - segment_bytes THEN current ELSE SegmentMax - segment_bytes

\* socket.send of `bytes' audio bytes; with `commit' the provider owes an answer.
Receives(bytes, commit) ==
    /\ uncommitted' = uncommitted + bytes
    /\ owed' = owed + (IF commit THEN 1 ELSE 0)
    /\ UNCHANGED <<serverUp, inbox, messages>>

send_audio ==
    /\ pc = "send" /\ current > 0
    /\ \/ /\ current' = current - ChunkSize
          /\ sent' = sent + ChunkSize
          /\ segment_bytes' = IF manual THEN segment_bytes + ChunkSize ELSE 0
          /\ LET commit == manual /\ segment_bytes' = SegmentMax
             IN  /\ Receives(ChunkSize, commit)
                 /\ pc' = IF commit THEN "ack" ELSE pc
          /\ UNCHANGED <<manual, back, finalize, audio_open, audio_closed, audioVars, events,
                         transcribed, closed>>
       \/ /\ Abort
          /\ UNCHANGED <<audio_open, audio_closed, current, sent, closed>>

send_audio_returns ==
    /\ pc = "send" /\ current = 0
    /\ pc' = back
    /\ UNCHANGED <<manual, back, finalize, audio_open, audio_closed, audioVars, current,
                   segment_bytes, serverVars, events, sent, transcribed, closed>>

\* wait_for_manual_commit; `back' is "final" for the commit that ends the session.
wait_for_manual_commit ==
    /\ pc = "ack"
    /\ handle_socket_message
    /\ \/ /\ Acknowledges(Head(inbox).kind) /\ back # "final"
          /\ segment_bytes' = 0
          /\ pc' = "send"
       \/ /\ Acknowledges(Head(inbox).kind) /\ back = "final"
          /\ pc' = "completing"
          /\ UNCHANGED segment_bytes
       \/ /\ ~Acknowledges(Head(inbox).kind)
          /\ pc' = IF Ends(Head(inbox).kind) THEN "done" ELSE pc
          /\ UNCHANGED segment_bytes
    /\ UNCHANGED <<back, current>>

ack_timeout ==
    /\ pc = "ack"
    /\ Abort
    /\ UNCHANGED <<audio_open, audio_closed, current, sent, closed>>

-----------------------------------------------------------------------------
(* Finalization.                                                            *)

Drained_Ignored == pc = "drain"                             \* faulty
Drained == pc = "drain" /\ queue = << >>

\* Manual commits: an open segment is committed and acknowledged.
finalize_manual ==
    /\ Drained /\ manual
    /\ \/ segment_bytes > 0 /\ Receives(0, TRUE) /\ pc' = "ack" /\ back' = "final" /\ UNCHANGED events
       \/ segment_bytes > 0 /\ emit_error /\ pc' = "done" /\ UNCHANGED <<back, serverVars>>
       \/ segment_bytes = 0 /\ emit_completed /\ pc' = "done" /\ UNCHANGED <<back, serverVars>>
    /\ UNCHANGED <<manual, finalize, audio_open, audio_closed, audioVars, current,
                   segment_bytes, sent, transcribed, closed>>

completing ==
    /\ pc = "completing"
    /\ emit_completed
    /\ pc' = "done"
    /\ UNCHANGED <<manual, back, finalize, audio_open, audio_closed, audioVars, current,
                   segment_bytes, serverVars, sent, transcribed, closed>>

\* VAD commits: the final commit is sent; a send that takes too long completes.
finalize_socket ==
    /\ Drained /\ ~manual
    /\ \/ Receives(0, TRUE) /\ pc' = "vad" /\ UNCHANGED events
       \/ emit_error /\ pc' = "done" /\ UNCHANGED serverVars
       \/ emit_completed /\ pc' = "done" /\ UNCHANGED serverVars
    /\ UNCHANGED <<manual, back, finalize, audio_open, audio_closed, audioVars, current,
                   segment_bytes, sent, transcribed, closed>>

\* A commit does not end this wait: a VAD commit may be queued before the
\* answer to the final one.
vad_message ==
    /\ pc = "vad"
    /\ handle_socket_message
    /\ pc' = IF Ends(Head(inbox).kind) THEN "done" ELSE pc
    /\ UNCHANGED <<back, current, segment_bytes>>

vad_timeout ==
    /\ pc = "vad"
    /\ emit_completed
    /\ pc' = "done"
    /\ UNCHANGED <<manual, back, finalize, audio_open, audio_closed, audioVars, current,
                   segment_bytes, serverVars, sent, transcribed, closed>>

-----------------------------------------------------------------------------
Environment == RecordFrame \/ RecorderStops \/ send_control \/ Answer \/ Unasked

Loop == loop_control \/ next_frame \/ loop_audio_ended \/ loop_message

Sending == send_audio \/ send_audio_returns \/ wait_for_manual_commit \/ ack_timeout

Finalizing ==
    finalize_manual \/ completing \/ finalize_socket \/ vad_message \/ vad_timeout

Task == connect_async \/ Loop \/ Sending \/ Finalizing

Returned == pc = "done" /\ UNCHANGED vars

Next == Task \/ Environment \/ Returned

Spec == Init /\ [][Next]_vars

(* The task is scheduled; select! polls its branches in random order, so a  *)
(* control that stays ready is taken; deadlines pass.  Nothing is assumed   *)
(* of connect_async, which has no deadline (realtime.rs:312), nor of what   *)
(* the provider sends.                                                      *)
Fairness ==
    /\ SF_vars(loop_control)
    /\ WF_vars(next_frame) /\ WF_vars(send_audio) /\ WF_vars(send_audio_returns)
    /\ WF_vars(ack_timeout) /\ WF_vars(vad_timeout)
    /\ WF_vars(finalize_manual) /\ WF_vars(completing) /\ WF_vars(finalize_socket)

FairSpec == Spec /\ Fairness

-----------------------------------------------------------------------------
(* Properties.                                                              *)

Kinds == {"partial", "other", "committed", "close", "error"}
PCs == {"connect", "loop", "drain", "send", "ack", "completing", "vad", "done"}

\* Every variable keeps the values the code's types give it; in particular a
\* segment never grows past MANUAL_SEGMENT_BYTES (the subtraction in
\* send_audio cannot wrap).
TypeOK ==
    /\ manual \in BOOLEAN /\ pc \in PCs /\ back \in {"loop", "drain", "final"}
    /\ finalize \in BOOLEAN /\ recorder \in BOOLEAN
    /\ audio_open \in BOOLEAN /\ audio_closed \in BOOLEAN
    /\ queue \in Seq(FrameSizes) /\ current \in Nat
    /\ segment_bytes \in 0 .. SegmentMax
    /\ serverUp \in BOOLEAN /\ uncommitted \in Nat /\ owed \in Nat
    /\ inbox \in Seq([kind : Kinds, bytes : Nat])
    /\ events \in Seq({"partial", "committed", "Error", "Completed"})
    /\ frames \in 0 .. MaxFrames /\ messages \in 0 .. MaxMessages
    /\ accepted \in Nat /\ sent \in Nat /\ transcribed \in Nat /\ closed \in BOOLEAN

Answers == {i \in DOMAIN inbox : inbox[i].kind = "committed"}

\* Manual commits.  The task's count of the open segment is what the provider
\* holds uncommitted and stays below the size at which the provider would commit
\* by itself; no answer is under way unless one commit is awaited, and then one
\* only.  So an answer is never taken for another commit's (realtime.rs:383-445:
\* "Only one explicit commit may be awaiting acknowledgement at a time").
SegmentAgrees ==
    /\ manual /\ pc \in {"loop", "drain", "send"} =>
        /\ uncommitted = segment_bytes /\ segment_bytes <= SegmentMax
        /\ owed = 0 /\ Answers = {}
    /\ manual /\ pc = "ack" => owed \in {0, 1} /\ (owed = 1 <=> Answers = {})

\* Finalize loses nothing: a session that completes without an error and was
\* not closed by the provider has sent every frame queued before the receiver
\* was closed, and with manual commits had all of it committed.
NothingLost ==
    pc = "done" /\ ~closed /\ ~(\E i \in DOMAIN events : events[i] = "Error") =>
        /\ sent = accepted
        /\ manual => transcribed = accepted

\* The events are the stream Recording reads: an Error is followed by
\* Completed at once, and nothing follows Completed.
Stream == INSTANCE SessionEvents
ImplementsStream == Stream!Spec

\* Once finalized and through with connecting, the session ends whatever the
\* provider does, and its last event is Completed: the draining loop of the main
\* task comes to an end.  While it connects nothing ends it: connect_async has no
\* deadline, and Finalize is not read before it returns (realtime.rs:312).
SessionEnds == (finalize /\ pc # "connect") ~> Stream!Ended
=============================================================================

----------------------- MODULE RealtimeSessionProofs -----------------------
(***************************************************************************)
(* Proofs about RealtimeSession, for every segment size, every size of      *)
(* frames and any number of them: commits and answers stay paired           *)
(* (SegmentAgrees), a session that completes has lost no audio              *)
(* (NothingLost), and its events are the stream that SessionEvents promises *)
(* Recording.                                                               *)
(***************************************************************************)
EXTENDS RealtimeSession, SequenceTheorems, TLAPS

-----------------------------------------------------------------------------
(* The sum of the frames of a queue, without recursion: n is the last of    *)
(* the partial sums.                                                        *)

HasTotal(q, n) ==
    \E total \in [0 .. Len(q) -> Int] :
        /\ total[0] = 0
        /\ \A i \in 1 .. Len(q) : total[i] = total[i - 1] + q[i]
        /\ total[Len(q)] = n

\* An empty queue holds nothing.
LEMMA TotalOfEmpty == \A n : HasTotal(<< >>, n) <=> n = 0
  <1>1. ASSUME NEW n, HasTotal(<< >>, n)
        PROVE  n = 0
    BY <1>1 DEF HasTotal
  <1>2. HasTotal(<< >>, 0)
    <2> DEFINE total == [i \in 0 .. 0 |-> 0]
    <2>1. total \in [0 .. 0 -> Int] /\ total[0] = 0 /\ Len(<< >>) = 0
      OBVIOUS
    <2> HIDE DEF total
    <2> QED BY <2>1 DEF HasTotal
  <1> QED BY <1>1, <1>2

\* A frame queued adds its size.
LEMMA TotalOfAppend ==
  ASSUME NEW S \in SUBSET Nat, NEW q \in Seq(S), NEW x \in S, NEW n, HasTotal(q, n)
  PROVE  HasTotal(Append(q, x), n + x)
  <1>1. PICK total \in [0 .. Len(q) -> Int] :
            /\ total[0] = 0
            /\ \A i \in 1 .. Len(q) : total[i] = total[i - 1] + q[i]
            /\ total[Len(q)] = n
    BY DEF HasTotal
  <1> DEFINE r == Append(q, x)
             more == [i \in 0 .. Len(r) |-> IF i <= Len(q) THEN total[i] ELSE n + x]
  <1>2. /\ Len(q) \in Nat /\ Len(r) = Len(q) + 1
        /\ \A i \in 1 .. Len(q) : r[i] = q[i]
        /\ r[Len(q) + 1] = x
    BY AppendProperties
  <1>3. n \in Int /\ x \in Int
    BY <1>1, <1>2
  <1> HIDE DEF r
  <1>4. more \in [0 .. Len(r) -> Int]
    BY <1>1, <1>2, <1>3
  <1>5. more[0] = 0 /\ more[Len(r)] = n + x
    BY <1>1, <1>2, <1>3
  <1>6. ASSUME NEW i \in 1 .. Len(r)
        PROVE  more[i] = more[i - 1] + r[i]
    <2>1. CASE i <= Len(q)
      BY <1>1, <1>2, <2>1
    <2>2. CASE i = Len(q) + 1
      BY <1>1, <1>2, <1>3, <2>2
    <2> QED BY <1>2, <2>1, <2>2
  <1>7. HasTotal(r, n + x)
    <2> HIDE DEF more
    <2> QED BY <1>4, <1>5, <1>6 DEF HasTotal
  <1> QED BY <1>7 DEF r

\* A frame taken subtracts its size.
LEMMA TotalOfTail ==
  ASSUME NEW S \in SUBSET Nat, NEW q \in Seq(S), q # << >>, NEW n, HasTotal(q, n)
  PROVE  HasTotal(Tail(q), n - Head(q))
  <1>1. PICK total \in [0 .. Len(q) -> Int] :
            /\ total[0] = 0
            /\ \A i \in 1 .. Len(q) : total[i] = total[i - 1] + q[i]
            /\ total[Len(q)] = n
    BY DEF HasTotal
  <1> DEFINE r == Tail(q)
             x == Head(q)
  <1>2. /\ Len(q) \in Nat /\ Len(q) > 0 /\ Len(r) = Len(q) - 1
        /\ \A i \in 1 .. Len(r) : r[i] = q[i + 1]
        /\ x = q[1] /\ x \in Int
        /\ \A i \in 1 .. Len(q) : q[i] \in Int
    BY HeadTailProperties, EmptySeq, ElementOfSeq
  <1>9. HasTotal(r, n - x) => HasTotal(Tail(q), n - Head(q))
    OBVIOUS
  <1> HIDE DEF r, x
  <1>3. \A i \in 0 .. Len(r) : i + 1 \in 0 .. Len(q) /\ total[i + 1] \in Int
    <2>1. Len(r) + 1 = Len(q)
      BY <1>2
    <2>2. \A j \in 0 .. Len(q) : total[j] \in Int
      BY <1>1
    <2>3. \A i \in 0 .. Len(r) : i + 1 \in 0 .. Len(q)
      BY <1>2, <2>1
    <2> QED BY <2>2, <2>3
  <1> DEFINE less == [i \in 0 .. Len(r) |-> total[i + 1] - x]
  <1>4. less \in [0 .. Len(r) -> Int]
    BY <1>2, <1>3
  <1>5. less[0] = 0
    BY <1>1, <1>2
  <1>6. less[Len(r)] = n - x
    BY <1>1, <1>2
  <1>7. ASSUME NEW i \in 1 .. Len(r)
        PROVE  less[i] = less[i - 1] + r[i]
    <2>1. total[i + 1] = total[i] + q[i + 1]
      BY <1>1, <1>2
    <2>2. less[i] = total[i + 1] - x /\ less[i - 1] = total[i] - x
      BY <1>2
    <2>3. q[i + 1] \in Int /\ r[i] = q[i + 1]
      BY <1>2
    <2>4. total[i] \in Int
      BY <1>2, <1>3
    <2> QED BY <1>2, <2>1, <2>2, <2>3, <2>4
  <1>8. HasTotal(r, n - x)
    <2> HIDE DEF less
    <2> QED BY <1>4, <1>5, <1>6, <1>7 DEF HasTotal
  <1> QED BY <1>8, <1>9

-----------------------------------------------------------------------------
(* The inductive invariant.                                                 *)

\* Where the task is tells what it has in hand and how far it has drained.
StageInv ==
    /\ current > 0 => pc = "send" \/ (pc = "ack" /\ back # "final") \/ pc = "done"
    /\ pc \in {"connect", "loop", "drain", "send"} => segment_bytes < SegmentMax
    /\ pc = "send" => back # "final"
    /\ ~manual => segment_bytes = 0 /\ pc \notin {"ack", "completing"}
    /\ manual => pc # "vad"
    /\ pc = "drain" \/ (pc \in {"send", "ack"} /\ back # "loop") => ~audio_open
    /\ pc \in {"vad", "completing"} \/ (pc = "ack" /\ back = "final") =>
          ~audio_open /\ queue = << >> /\ current = 0

\* Manual commits.  What was sent is what commits covered, what an answer under
\* way covers, and what the provider still holds; and at most one answer is.
Paired ==
    /\ owed = 0 /\ Answers = {}
    /\ uncommitted = IF pc = "completing" THEN 0 ELSE segment_bytes
    /\ sent = transcribed + uncommitted

Awaited ==
    \/ owed = 1 /\ Answers = {} /\ uncommitted = segment_bytes /\ sent = transcribed + uncommitted
    \/ /\ owed = 0 /\ uncommitted = 0
       /\ \E i \in DOMAIN inbox : Answers = {i} /\ sent = transcribed + inbox[i].bytes

BytesInv == \A i \in DOMAIN inbox : inbox[i].kind # "committed" => inbox[i].bytes = 0

CommitInv ==
    manual =>
        /\ BytesInv
        /\ pc \in {"connect", "loop", "drain", "send", "completing"} => Paired
        /\ pc = "ack" => Awaited

\* Every frame accepted is sent, in hand or queued.
AudioInv ==
    pc # "done" => /\ sent + current \in Nat
                   /\ HasTotal(queue, accepted - sent - current)

\* The stream has ended iff the task has returned.
StreamInv == Stream!Ended <=> pc = "done"

IInv == TypeOK /\ StageInv /\ CommitInv /\ AudioInv /\ StreamInv /\ NothingLost

\* A session starts in the inductive invariant.
LEMMA InitIInv == Init => IInv
  <1> SUFFICES ASSUME Init
               PROVE  IInv
    OBVIOUS
  <1>1. TypeOK
    <2>1. /\ queue \in Seq(FrameSizes) /\ inbox \in Seq([kind : Kinds, bytes : Nat])
          /\ events \in Seq({"partial", "committed", "Error", "Completed"})
      BY DEF Init
    <2>2. /\ segment_bytes \in 0 .. SegmentMax /\ frames \in 0 .. MaxFrames
          /\ messages \in 0 .. MaxMessages
      BY SessionAssumption DEF Init
    <2> QED BY <2>1, <2>2 DEF Init, TypeOK, PCs
  <1>2. StageInv
    BY SessionAssumption DEF Init, StageInv
  <1>3. CommitInv
    BY DEF Init, CommitInv, BytesInv, Paired, Answers
  <1>4. AudioInv
    BY TotalOfEmpty DEF Init, AudioInv
  <1>5. StreamInv /\ NothingLost
    BY DEF Init, StreamInv, Stream!Ended, NothingLost
  <1> QED BY <1>1, <1>2, <1>3, <1>4, <1>5 DEF IInv

-----------------------------------------------------------------------------
(* Types.                                                                   *)

\* What a message taken from the socket is, and what is left.
LEMMA MessageType ==
  ASSUME TypeOK, inbox # << >>
  PROVE  /\ Head(inbox) \in [kind : Kinds, bytes : Nat]
         /\ Tail(inbox) \in Seq([kind : Kinds, bytes : Nat])
  BY HeadTailProperties DEF TypeOK

Event == {"partial", "committed", "Error", "Completed"}

\* Whatever is emitted, the events stay a sequence of events.
LEMMA EmitType ==
  ASSUME TypeOK
  PROVE  /\ \A e \in Event : emit(e) => events' \in Seq(Event)
         /\ emit_error => events' \in Seq(Event)
         /\ emit_completed => events' \in Seq(Event)
  <1>1. events \in Seq(Event)
    BY DEF TypeOK, Event
  <1>2. \A e \in Event : Append(events, e) \in Seq(Event)
    BY <1>1, AppendProperties
  <1>3. <<"Error", "Completed">> \in Seq(Event)
    BY DEF Event
  <1>4. events \o <<"Error", "Completed">> \in Seq(Event)
    BY <1>1, <1>3, ConcatProperties
  <1> QED BY <1>2, <1>4 DEF emit, emit_error, emit_completed, Event

\* Handling a message keeps the types of what it changes.
LEMMA HandleType ==
  ASSUME TypeOK, handle_socket_message
  PROVE  /\ events' \in Seq(Event) /\ inbox' \in Seq([kind : Kinds, bytes : Nat])
         /\ transcribed' \in Nat /\ closed' \in BOOLEAN
  <1>1. /\ Head(inbox).kind \in Kinds /\ Head(inbox).bytes \in Nat
        /\ inbox' \in Seq([kind : Kinds, bytes : Nat])
    BY MessageType DEF handle_socket_message
  <1>2. transcribed' \in Nat /\ closed' \in BOOLEAN
    <2>1. transcribed' = transcribed + Head(inbox).bytes /\ transcribed \in Nat
      BY DEF handle_socket_message, TypeOK
    <2>2. transcribed' \in Nat
      BY <1>1, <2>1
    <2>3. closed' \in BOOLEAN
      BY Zenon DEF handle_socket_message
    <2> QED BY <2>2, <2>3
  <1>3. events' \in Seq(Event)
    <2>1. events \in Seq(Event)
      BY DEF TypeOK, Event
    <2> QED BY <1>1, <2>1, EmitType DEF handle_socket_message, Event, Kinds
  <1> QED BY <1>1, <1>2, <1>3

\* No step leaves the types; send_audio cuts a frame so that a segment never
\* grows past MANUAL_SEGMENT_BYTES.
LEMMA TypeStep == TypeOK /\ StageInv /\ [Next]_vars => TypeOK'
  <1> SUFFICES ASSUME TypeOK, StageInv, [Next]_vars
               PROVE  TypeOK'
    OBVIOUS
  <1> DEFINE Message == [kind : Kinds, bytes : Nat]
  <1> USE SessionAssumption DEF TypeOK, audioVars, serverVars
  <1>1. CASE RecordFrame
    <2>1. PICK size \in FrameSizes :
              \/ queue' = Append(queue, size) /\ accepted' = accepted + size
              \/ UNCHANGED <<queue, accepted>>
      BY <1>1 DEF RecordFrame
    <2>2. queue' \in Seq(FrameSizes)
      <3>1. \A x \in FrameSizes : Append(queue, x) \in Seq(FrameSizes)
        BY AppendProperties
      <3> QED BY <2>1, <3>1
    <2>3. accepted' \in Nat
      BY <2>1
    <2>4. frames' \in 0 .. MaxFrames
      BY <1>1 DEF RecordFrame
    <2> QED BY <1>1, <2>2, <2>3, <2>4 DEF RecordFrame
  <1>2. CASE RecorderStops
    BY <1>2 DEF RecorderStops
  <1>3. CASE send_control
    BY <1>3 DEF send_control
  <1>4. CASE Answer
    <2>1. inbox' \in Seq(Message)
      BY <1>4, AppendProperties DEF Answer, ServerCommits, Deliver, Kinds
    <2>2. owed' \in Nat /\ uncommitted' \in Nat
      BY <1>4 DEF Answer, ServerCommits
    <2> QED BY <1>4, <2>1, <2>2 DEF Answer
  <1>5. CASE Unasked
    <2>1. \A k \in Kinds, b \in Nat : Deliver([kind |-> k, bytes |-> b]) => inbox' \in Seq(Message)
      BY AppendProperties DEF Deliver
    <2>2. /\ inbox' \in Seq(Message) /\ uncommitted' \in Nat
          /\ serverUp' \in {serverUp, FALSE}
      <3>1. CASE \E k \in {"partial", "other"} : Deliver([kind |-> k, bytes |-> 0]) /\ UNCHANGED <<uncommitted, serverUp>>
        BY <2>1, <3>1 DEF Kinds
      <3>2. CASE ServerCommits /\ UNCHANGED serverUp
        BY <2>1, <3>2 DEF Kinds, ServerCommits
      <3>3. CASE /\ \E k \in {"close", "error"} : Deliver([kind |-> k, bytes |-> 0])
                 /\ serverUp' = FALSE /\ UNCHANGED uncommitted
        BY <2>1, <3>3 DEF Kinds
      <3> QED BY <1>5, <3>1, <3>2, <3>3 DEF Unasked
    <2>3. serverUp' \in BOOLEAN
      BY <2>2
    <2>4. messages' \in 0 .. MaxMessages
      BY <1>5 DEF Unasked
    <2> QED BY <1>5, <2>2, <2>3, <2>4 DEF Unasked
  <1>6. CASE connect_async
    BY <1>6, EmitType DEF connect_async, PCs, Event
  <1>7. CASE loop_control
    BY <1>7 DEF loop_control, PCs
  <1>8. CASE next_frame
    <2>1. Head(queue) \in FrameSizes /\ Tail(queue) \in Seq(FrameSizes)
      BY <1>8, HeadTailProperties DEF next_frame
    <2> QED BY <1>8, <2>1 DEF next_frame, PCs
  <1>9. CASE loop_audio_ended
    BY <1>9 DEF loop_audio_ended
  <1>10. CASE loop_message
    BY <1>10, HandleType DEF loop_message, handle_socket_message, PCs, Event
  <1>11. CASE send_audio
    <2>1. CASE Abort /\ UNCHANGED <<audio_open, audio_closed, current, sent, closed>>
      BY <2>1, EmitType DEF Abort, PCs, Event
    <2>2. CASE ~(Abort /\ UNCHANGED <<audio_open, audio_closed, current, sent, closed>>)
      <3>1. ChunkSize \in 0 .. current /\ (manual => segment_bytes + ChunkSize <= SegmentMax)
        BY DEF ChunkSize
      <3>2. /\ pc = "send" /\ current' = current - ChunkSize /\ sent' = sent + ChunkSize
            /\ segment_bytes' = IF manual THEN segment_bytes + ChunkSize ELSE 0
            /\ \E commit \in BOOLEAN : Receives(ChunkSize, commit) /\ pc' \in {"ack", pc}
            /\ UNCHANGED <<manual, back, finalize, audio_open, audio_closed, audioVars, events,
                          transcribed, closed>>
        BY <1>11, <2>2 DEF send_audio
      <3>3. current' \in Nat /\ sent' \in Nat /\ segment_bytes' \in 0 .. SegmentMax
        BY <3>1, <3>2
      <3>4. uncommitted' \in Nat /\ owed' \in Nat
        BY <3>1, <3>2 DEF Receives
      <3>5. serverUp' = serverUp /\ inbox' = inbox /\ messages' = messages /\ pc' \in PCs
        BY <3>2 DEF Receives, PCs
      <3> QED BY <3>2, <3>3, <3>4, <3>5
    <2> QED BY <2>1, <2>2
  <1>12. CASE send_audio_returns
    BY <1>12 DEF send_audio_returns, StageInv, PCs
  <1>13. CASE wait_for_manual_commit
    <2>1. pc' \in PCs /\ segment_bytes' \in 0 .. SegmentMax
      BY <1>13 DEF wait_for_manual_commit, PCs
    <2>2. /\ events' \in Seq(Event) /\ inbox' \in Seq(Message)
          /\ transcribed' \in Nat /\ closed' \in BOOLEAN
      BY <1>13, HandleType DEF wait_for_manual_commit
    <2>3. UNCHANGED <<manual, finalize, audio_open, audio_closed, audioVars, serverUp,
                      uncommitted, owed, messages, sent, back, current>>
      BY <1>13 DEF wait_for_manual_commit, handle_socket_message
    <2> QED BY <2>1, <2>2, <2>3 DEF Event
  <1>14. CASE ack_timeout
    <2>1. events' \in Seq(Event) /\ pc' \in PCs
      BY <1>14, EmitType DEF ack_timeout, Abort, PCs
    <2> QED BY <1>14, <2>1 DEF ack_timeout, Abort, Event
  <1>15. CASE finalize_manual
    BY <1>15, EmitType DEF finalize_manual, Receives, PCs, Event
  <1>16. CASE completing
    BY <1>16, EmitType DEF completing, PCs, Event
  <1>17. CASE finalize_socket
    BY <1>17, EmitType DEF finalize_socket, Receives, PCs, Event
  <1>18. CASE vad_message
    BY <1>18, HandleType DEF vad_message, handle_socket_message, PCs, Event
  <1>19. CASE vad_timeout
    BY <1>19, EmitType DEF vad_timeout, PCs, Event
  <1>20. CASE UNCHANGED vars
    BY <1>20 DEF vars
  <1> QED
    BY <1>1, <1>2, <1>3, <1>4, <1>5, <1>6, <1>7, <1>8, <1>9, <1>10, <1>11, <1>12, <1>13, <1>14,
       <1>15, <1>16, <1>17, <1>18, <1>19, <1>20
       DEF Next, Task, Loop, Sending, Finalizing, Environment, Returned

-----------------------------------------------------------------------------
(* Where the task is.                                                       *)

\* A frame is left in hand only by an acknowledgement awaited or an error, and the
\* final commit is awaited only once the queue is drained.
LEMMA StageStep == TypeOK /\ StageInv /\ [Next]_vars => StageInv'
  <1> SUFFICES ASSUME TypeOK, StageInv, [Next]_vars
               PROVE  StageInv'
    OBVIOUS
  <1> USE SessionAssumption DEF StageInv, audioVars
  <1>1. CASE Environment
    <2>1. UNCHANGED <<manual, pc, back, audio_open, current, segment_bytes>>
      BY <1>1 DEF Environment, RecordFrame, RecorderStops, send_control, Answer, Unasked
    <2>2. queue' = queue \/ audio_open
      BY <1>1 DEF Environment, RecordFrame, RecorderStops, send_control, Answer, Unasked
    <2> QED BY <2>1, <2>2
  <1>2. CASE connect_async
    BY <1>2 DEF connect_async, TypeOK
  <1>3. CASE Loop
    <2>1. CASE next_frame
      BY <2>1 DEF next_frame
    <2>2. CASE loop_control
      BY <2>2 DEF loop_control
    <2>3. CASE loop_audio_ended
      BY <2>3 DEF loop_audio_ended
    <2>4. CASE loop_message
      <3>1. /\ pc = "loop" /\ pc' \in {"loop", "done"}
            /\ UNCHANGED <<manual, back, audio_open, queue, current, segment_bytes>>
        BY <2>4 DEF loop_message, handle_socket_message
      <3> QED BY <3>1
    <2> QED BY <1>3, <2>1, <2>2, <2>3, <2>4 DEF Loop
  <1>4. CASE send_audio
    <2>1. CASE Abort /\ UNCHANGED <<audio_open, audio_closed, current, sent, closed>>
      BY <1>4, <2>1 DEF Abort, send_audio
    <2>2. CASE ~(Abort /\ UNCHANGED <<audio_open, audio_closed, current, sent, closed>>)
      <3>1. ChunkSize \in 0 .. current /\ (manual => segment_bytes + ChunkSize <= SegmentMax)
        BY DEF ChunkSize, TypeOK
      <3>2. /\ pc = "send" /\ current' = current - ChunkSize
            /\ segment_bytes' = IF manual THEN segment_bytes + ChunkSize ELSE 0
            /\ pc' = IF manual /\ segment_bytes' = SegmentMax THEN "ack" ELSE pc
            /\ UNCHANGED <<manual, back, audio_open, audioVars>>
        BY <1>4, <2>2 DEF send_audio
      <3>3. segment_bytes' # SegmentMax \/ ~manual => segment_bytes' < SegmentMax
        BY <3>1, <3>2 DEF TypeOK
      <3> QED BY <3>1, <3>2, <3>3 DEF TypeOK
    <2> QED BY <2>1, <2>2
  <1>5. CASE send_audio_returns
    BY <1>5 DEF send_audio_returns, TypeOK
  <1>6. CASE wait_for_manual_commit
    <2>1. UNCHANGED <<manual, back, audio_open, queue, current>>
      BY <1>6 DEF wait_for_manual_commit, handle_socket_message
    <2>2. /\ pc = "ack"
          /\ \/ back # "final" /\ segment_bytes' = 0 /\ pc' = "send"
             \/ back = "final" /\ pc' = "completing" /\ UNCHANGED segment_bytes
             \/ pc' \in {"done", pc} /\ UNCHANGED segment_bytes
      BY <1>6 DEF wait_for_manual_commit
    <2>3. manual
      BY <2>2
    <2> QED BY <2>1, <2>2, <2>3
  <1>7. CASE ack_timeout
    BY <1>7 DEF ack_timeout, Abort
  <1>8. CASE finalize_manual
    <2>1. /\ pc = "drain" /\ queue = << >> /\ manual
          /\ (pc' = "ack" /\ back' = "final") \/ pc' = "done"
          /\ UNCHANGED <<manual, audio_open, queue, current, segment_bytes>>
      BY <1>8 DEF finalize_manual, Drained
    <2> QED BY <2>1, <1>8 DEF TypeOK
  <1>9. CASE finalize_socket
    <2>1. /\ pc = "drain" /\ queue = << >> /\ ~manual /\ pc' \in {"vad", "done"}
          /\ UNCHANGED <<manual, back, audio_open, queue, current, segment_bytes>>
      BY <1>9 DEF finalize_socket, Drained
    <2> QED BY <2>1 DEF TypeOK
  <1>10. CASE completing \/ vad_message \/ vad_timeout
    <2>1. /\ pc \in {"completing", "vad"} /\ pc' \in {"done", pc}
          /\ UNCHANGED <<manual, back, audio_open, queue, current, segment_bytes>>
      BY <1>10 DEF completing, vad_message, vad_timeout, handle_socket_message
    <2> QED BY <2>1
  <1>11. CASE UNCHANGED vars
    BY <1>11 DEF vars
  <1> QED
    BY <1>1, <1>2, <1>3, <1>4, <1>5, <1>6, <1>7, <1>8, <1>9, <1>10, <1>11
       DEF Next, Task, Sending, Finalizing, Returned

-----------------------------------------------------------------------------
(* Commits and answers.                                                     *)

\* A message sent.
LEMMA AnswersWithMessage ==
  ASSUME TypeOK, NEW k \in Kinds, NEW b \in Nat, Deliver([kind |-> k, bytes |-> b])
  PROVE  /\ Answers' = IF k = "committed" THEN Answers \cup {Len(inbox) + 1} ELSE Answers
         /\ Len(inbox) + 1 \notin Answers
         /\ DOMAIN inbox' = DOMAIN inbox \cup {Len(inbox) + 1}
         /\ \A i \in DOMAIN inbox : inbox'[i] = inbox[i]
         /\ inbox'[Len(inbox) + 1] = [kind |-> k, bytes |-> b]
  <1> DEFINE Message == [kind : Kinds, bytes : Nat]
             m == [kind |-> k, bytes |-> b]
  <1>1. inbox \in Seq(Message) /\ m \in Message /\ m.kind = k
    BY DEF TypeOK
  <1>2. /\ Len(inbox) \in Nat /\ DOMAIN inbox = 1 .. Len(inbox)
        /\ DOMAIN inbox' = 1 .. Len(inbox) + 1
        /\ \A i \in 1 .. Len(inbox) : inbox'[i] = inbox[i]
        /\ inbox'[Len(inbox) + 1] = m
    BY <1>1, AppendProperties, LenProperties DEF Deliver
  <1> HIDE DEF m
  <1> QED BY <1>1, <1>2 DEF Answers, m

\* A message taken.
LEMMA AnswersWithoutHead ==
  ASSUME TypeOK, inbox # << >>, inbox' = Tail(inbox)
  PROVE  /\ 1 \in DOMAIN inbox /\ Head(inbox) = inbox[1]
         /\ \A i : i \in DOMAIN inbox' <=> i + 1 \in DOMAIN inbox \ {1} /\ i \in Nat
         /\ \A i \in DOMAIN inbox' : inbox'[i] = inbox[i + 1]
  <1>1. inbox \in Seq([kind : Kinds, bytes : Nat])
    BY DEF TypeOK
  <1>2. /\ Len(inbox) \in Nat /\ DOMAIN inbox = 1 .. Len(inbox) /\ Len(inbox) > 0
        /\ DOMAIN inbox' = 1 .. Len(inbox) - 1
        /\ \A i \in 1 .. Len(inbox) - 1 : inbox'[i] = inbox[i + 1]
    BY <1>1, HeadTailProperties, LenProperties, EmptySeq
  <1>3. Head(inbox) = inbox[1]
    BY <1>1
  <1> QED BY <1>2, <1>3

\* The session takes a message while it awaits an answer.
LEMMA MessageWhileAwaiting ==
  ASSUME TypeOK, BytesInv, Awaited, handle_socket_message
  PROVE  IF Head(inbox).kind = "committed"
         THEN owed' = 0 /\ uncommitted' = 0 /\ Answers' = {} /\ sent' = transcribed'
         ELSE owed' = owed /\ (UNCHANGED segment_bytes => Awaited')
  <1>1. /\ inbox # << >> /\ inbox' = Tail(inbox)
        /\ transcribed' = transcribed + Head(inbox).bytes
        /\ UNCHANGED <<uncommitted, owed, sent>>
    BY DEF handle_socket_message
  <1>2. /\ 1 \in DOMAIN inbox /\ Head(inbox) = inbox[1]
        /\ \A i : i \in DOMAIN inbox' <=> i + 1 \in DOMAIN inbox \ {1} /\ i \in Nat
        /\ \A i \in DOMAIN inbox' : inbox'[i] = inbox[i + 1]
    BY <1>1, AnswersWithoutHead
  <1>3. \A i : i \in Answers' <=> i + 1 \in Answers \ {1} /\ i \in Nat
    BY <1>2 DEF Answers
  <1>4. transcribed \in Nat /\ \A i \in DOMAIN inbox : i \in Nat
    BY LenProperties DEF TypeOK
  <1>5. CASE Head(inbox).kind = "committed"
    <2>1. 1 \in Answers
      BY <1>2, <1>5 DEF Answers
    <2>2. /\ owed = 0 /\ uncommitted = 0
          /\ Answers = {1} /\ sent = transcribed + Head(inbox).bytes
      BY <1>2, <2>1 DEF Awaited
    <2>3. Answers' = {}
      BY <1>3, <2>2
    <2> QED BY <1>1, <1>5, <2>2, <2>3
  <1>6. CASE Head(inbox).kind # "committed"
    <2>1. 1 \notin Answers /\ transcribed' = transcribed
      BY <1>1, <1>2, <1>4, <1>6 DEF Answers, BytesInv
    <2>2. ASSUME UNCHANGED segment_bytes
          PROVE  Awaited'
      <3>1. CASE owed = 1
        <4>1. Answers' = {}
          BY <1>3, <3>1 DEF Awaited
        <4> QED BY <1>1, <2>1, <2>2, <3>1, <4>1 DEF Awaited
      <3>2. CASE owed # 1
        <4>1. PICK i \in DOMAIN inbox : Answers = {i} /\ sent = transcribed + inbox[i].bytes
          BY <3>2 DEF Awaited
        <4>2. i # 1 /\ i \in Nat /\ i - 1 + 1 = i
          BY <1>4, <2>1, <4>1
        <4>3. i - 1 \in DOMAIN inbox' /\ inbox'[i - 1] = inbox[i]
          <5>1. i - 1 \in Nat
            BY <1>4, <4>2, LenProperties DEF TypeOK
          <5>2. i - 1 \in DOMAIN inbox'
            BY <1>2, <4>2, <5>1
          <5> QED BY <1>2, <4>2, <5>2
        <4>4. Answers' = {i - 1}
          BY <1>3, <1>4, <4>1, <4>2, <4>3 DEF Answers
        <4> QED BY <1>1, <2>1, <3>2, <4>1, <4>3, <4>4 DEF Awaited
      <3> QED BY <3>1, <3>2
    <2> QED BY <1>1, <1>6, <2>2
  <1> QED BY <1>5, <1>6

\* It takes one while it awaits none.
LEMMA MessageWhileNotAwaiting ==
  ASSUME TypeOK, BytesInv, Paired, handle_socket_message,
         UNCHANGED <<pc, segment_bytes>>
  PROVE  Paired'
  <1>1. /\ inbox # << >> /\ inbox' = Tail(inbox)
        /\ transcribed' = transcribed + Head(inbox).bytes
        /\ UNCHANGED <<uncommitted, owed, sent>>
    BY DEF handle_socket_message
  <1>2. /\ 1 \in DOMAIN inbox /\ Head(inbox) = inbox[1]
        /\ \A i : i \in DOMAIN inbox' <=> i + 1 \in DOMAIN inbox \ {1} /\ i \in Nat
        /\ \A i \in DOMAIN inbox' : inbox'[i] = inbox[i + 1]
    BY <1>1, AnswersWithoutHead
  <1>3. Answers' = {}
    BY <1>2 DEF Paired, Answers
  <1>4. Head(inbox).bytes = 0
    BY <1>2 DEF Paired, Answers, BytesInv
  <1>5. transcribed' = transcribed
    BY <1>1, <1>4 DEF TypeOK
  <1> QED BY <1>1, <1>3, <1>5 DEF Paired

\* Messages of another kind carry no audio, whatever is sent or taken.
LEMMA BytesStep ==
  ASSUME TypeOK, BytesInv, [Next]_vars
  PROVE  BytesInv'
  <1>1. CASE inbox' = inbox
    BY <1>1 DEF BytesInv
  <1>2. CASE handle_socket_message
    <2>1. \A i \in DOMAIN inbox' : i + 1 \in DOMAIN inbox /\ inbox'[i] = inbox[i + 1]
      BY <1>2, AnswersWithoutHead DEF handle_socket_message
    <2> QED BY <2>1 DEF BytesInv
  <1>3. ASSUME NEW k \in Kinds, NEW b \in Nat, Deliver([kind |-> k, bytes |-> b]),
               k = "committed" \/ b = 0
        PROVE  BytesInv'
    <2>1. /\ DOMAIN inbox' = DOMAIN inbox \cup {Len(inbox) + 1}
          /\ \A i \in DOMAIN inbox : inbox'[i] = inbox[i]
          /\ inbox'[Len(inbox) + 1] = [kind |-> k, bytes |-> b]
      BY <1>3, AnswersWithMessage
    <2> QED BY <1>3, <2>1 DEF BytesInv
  <1>4. CASE Answer \/ Unasked
    <2>1. \E k \in Kinds, b \in Nat :
             Deliver([kind |-> k, bytes |-> b]) /\ (k = "committed" \/ b = 0)
      BY <1>4 DEF Answer, Unasked, ServerCommits, Kinds, TypeOK
    <2> QED BY <1>3, <2>1
  <1>5. CASE ~(Answer \/ Unasked) /\ ~handle_socket_message
    <2>1. inbox' = inbox
      BY <1>5 DEF Next, vars, Task, Loop, Sending, Finalizing, Environment, Returned, serverVars,
         RecordFrame, RecorderStops, send_control, connect_async, loop_control, next_frame,
         loop_audio_ended, loop_message, send_audio, Receives, Abort, send_audio_returns,
         wait_for_manual_commit, ack_timeout, finalize_manual, completing, finalize_socket,
         vad_message, vad_timeout
    <2> QED BY <1>1, <2>1
  <1> QED BY <1>2, <1>4, <1>5

\* With manual commits, what was sent is covered by commits or still held by the
\* provider, and at most one answer is under way.
LEMMA CommitStep == TypeOK /\ StageInv /\ CommitInv /\ [Next]_vars => CommitInv'
  <1> SUFFICES ASSUME TypeOK, StageInv, CommitInv, [Next]_vars
               PROVE  CommitInv'
    OBVIOUS
  <1>0. UNCHANGED manual
    <2>0. handle_socket_message \/ Abort => UNCHANGED manual
      BY DEF handle_socket_message, Abort
    <2>1. Environment => UNCHANGED manual
      BY DEF Environment, RecordFrame, RecorderStops, send_control, Answer, Unasked
    <2>2. connect_async \/ Loop => UNCHANGED manual
      BY <2>0 DEF connect_async, Loop, loop_control, next_frame, loop_audio_ended, loop_message
    <2>3. Sending => UNCHANGED manual
      BY <2>0 DEF Sending, send_audio, send_audio_returns, wait_for_manual_commit, ack_timeout
    <2>4. Finalizing => UNCHANGED manual
      BY <2>0 DEF Finalizing, finalize_manual, completing, finalize_socket, vad_message, vad_timeout
    <2> QED BY <2>1, <2>2, <2>3, <2>4 DEF Next, Task, Returned, vars
  <1> SUFFICES ASSUME manual
               PROVE  /\ pc' \in {"connect", "loop", "drain", "send", "completing"} => Paired'
                      /\ pc' = "ack" => Awaited'
    BY <1>0, BytesStep DEF CommitInv
  <1> USE SessionAssumption DEF serverVars, audioVars
  <1>1. CASE UNCHANGED <<pc, segment_bytes, uncommitted, owed, inbox, sent, transcribed>>
    BY <1>1 DEF CommitInv, Paired, Awaited, Answers
  <1>2. CASE RecordFrame \/ RecorderStops \/ send_control \/ loop_audio_ended \/ UNCHANGED vars
    BY <1>1, <1>2 DEF RecordFrame, RecorderStops, send_control, loop_audio_ended, vars
  <1>3. CASE Answer
    <2>1. pc \in {"ack", "done"} /\ UNCHANGED <<pc, segment_bytes, sent, transcribed>>
      BY <1>3 DEF Answer, CommitInv, Paired, StageInv, TypeOK, PCs
    <2>2. CASE pc = "ack"
      <3>1. /\ owed = 1 /\ Answers = {} /\ uncommitted = segment_bytes
            /\ sent = transcribed + uncommitted
        BY <1>3, <2>2 DEF Answer, CommitInv, Awaited
      <3>2. owed' = 0 /\ uncommitted' = 0
        BY <1>3, <3>1 DEF Answer, ServerCommits
      <3>3. /\ Answers' = {Len(inbox) + 1} /\ Len(inbox) + 1 \in DOMAIN inbox'
            /\ inbox'[Len(inbox) + 1].bytes = uncommitted
        <4>1. "committed" \in Kinds /\ uncommitted \in Nat
              /\ Deliver([kind |-> "committed", bytes |-> uncommitted])
          BY <1>3 DEF Answer, ServerCommits, Kinds, TypeOK
        <4>2. inbox'[Len(inbox) + 1] = [kind |-> "committed", bytes |-> uncommitted]
          BY <4>1, AnswersWithMessage
        <4> QED BY <3>1, <4>1, <4>2, AnswersWithMessage
      <3> QED BY <2>1, <2>2, <3>1, <3>2, <3>3 DEF Awaited
    <2> QED BY <2>1, <2>2
  <1>4. CASE Unasked
    <2>1. UNCHANGED <<pc, segment_bytes, sent, transcribed, owed>>
      BY <1>4 DEF Unasked
    <2>2. CASE pc = "done" \/ pc = "vad"
      BY <2>1, <2>2
    <2>3. CASE pc \notin {"done", "vad"}
      <3>1. uncommitted <= ProviderMax
        BY <2>3 DEF CommitInv, Paired, Awaited, TypeOK, PCs
      <3>2. /\ uncommitted' = uncommitted
            /\ \E k \in {"partial", "other", "close", "error"} : Deliver([kind |-> k, bytes |-> 0])
        <4>1. uncommitted \in Nat /\ ProviderMax \in Nat /\ ~(uncommitted > ProviderMax)
          BY <3>1 DEF TypeOK
        <4> QED BY <1>4, <4>1 DEF Unasked
      <3>3. /\ Answers' = Answers
            /\ \A i \in DOMAIN inbox : i \in DOMAIN inbox' /\ inbox'[i] = inbox[i]
        BY <3>2, AnswersWithMessage DEF Kinds
      <3> QED BY <2>1, <3>2, <3>3 DEF CommitInv, Paired, Awaited
    <2> QED BY <2>2, <2>3
  <1>5. CASE connect_async \/ loop_control \/ next_frame
    BY <1>5 DEF connect_async, loop_control, next_frame, CommitInv, Paired, Answers
  <1>6. CASE loop_message
    <2>1. /\ pc = "loop" /\ handle_socket_message /\ pc' \in {"done", "loop"}
          /\ UNCHANGED segment_bytes
      BY <1>6 DEF loop_message
    <2> QED BY <2>1, MessageWhileNotAwaiting DEF CommitInv
  <1>7. CASE send_audio
    <2>1. CASE pc' = "done"
      BY <2>1
    <2>2. CASE pc' # "done"
      <3>1. /\ pc = "send" /\ sent' = sent + ChunkSize
            /\ segment_bytes' = segment_bytes + ChunkSize
            /\ Receives(ChunkSize, segment_bytes' = SegmentMax)
            /\ pc' = IF segment_bytes' = SegmentMax THEN "ack" ELSE pc
            /\ UNCHANGED transcribed
        BY <1>7, <2>2 DEF send_audio, Abort
      <3>2. ChunkSize \in Nat
        BY DEF ChunkSize, TypeOK
      <3>3. /\ uncommitted' = uncommitted + ChunkSize /\ inbox' = inbox
            /\ owed' = IF segment_bytes' = SegmentMax THEN owed + 1 ELSE owed + 0
        BY <3>1 DEF Receives
      <3>4. /\ owed = 0 /\ Answers = {} /\ uncommitted = segment_bytes
            /\ sent = transcribed + uncommitted
        BY <3>1 DEF CommitInv, Paired
      <3>5. /\ Answers' = {} /\ uncommitted' = segment_bytes'
            /\ sent' = transcribed' + uncommitted'
        BY <3>1, <3>2, <3>3, <3>4 DEF Answers, TypeOK
      <3> QED BY <3>1, <3>3, <3>4, <3>5 DEF Paired, Awaited
    <2> QED BY <2>1, <2>2
  <1>8. CASE send_audio_returns
    BY <1>8 DEF send_audio_returns, StageInv, CommitInv, Paired, Answers, TypeOK
  <1>9. CASE wait_for_manual_commit
    <2>1. /\ pc = "ack" /\ handle_socket_message
          /\ IF Head(inbox).kind = "committed"
             THEN \/ pc' = "send" /\ segment_bytes' = 0
                  \/ pc' = "completing" /\ UNCHANGED segment_bytes
             ELSE pc' \in {"done", "ack"} /\ UNCHANGED segment_bytes
      BY <1>9 DEF wait_for_manual_commit, Acknowledges
    <2>2. IF Head(inbox).kind = "committed"
          THEN owed' = 0 /\ uncommitted' = 0 /\ Answers' = {} /\ sent' = transcribed'
          ELSE owed' = owed /\ (UNCHANGED segment_bytes => Awaited')
      BY <2>1, MessageWhileAwaiting DEF CommitInv
    <2>3. transcribed' \in Nat
      BY <2>1, HandleType
    <2> QED BY <2>1, <2>2, <2>3 DEF Paired
  <1>10. CASE ack_timeout \/ completing \/ finalize_socket \/ vad_message \/ vad_timeout
    BY <1>10 DEF ack_timeout, Abort, completing, finalize_socket, Drained, vad_message,
                 vad_timeout, StageInv
  <1>11. CASE finalize_manual
    <2>1. CASE pc' = "done"
      BY <2>1
    <2>2. CASE pc' # "done"
      <3>1. /\ pc = "drain" /\ pc' = "ack" /\ Receives(0, TRUE)
            /\ UNCHANGED <<segment_bytes, sent, transcribed>>
        BY <1>11, <2>2 DEF finalize_manual, Drained
      <3>2. uncommitted' = uncommitted /\ owed' = owed + 1 /\ inbox' = inbox
        BY <3>1 DEF Receives, TypeOK
      <3> QED BY <3>1, <3>2 DEF CommitInv, Paired, Awaited, Answers
    <2> QED BY <2>1, <2>2
  <1> QED
    BY <1>2, <1>3, <1>4, <1>5, <1>6, <1>7, <1>8, <1>9, <1>10, <1>11
       DEF Next, Task, Loop, Sending, Finalizing, Environment, Returned

-----------------------------------------------------------------------------
(* Audio.                                                                   *)

\* Every frame accepted is sent, in hand or queued until the task returns.
LEMMA AudioStep == TypeOK /\ StageInv /\ AudioInv /\ [Next]_vars => AudioInv'
  <1> SUFFICES ASSUME TypeOK, StageInv, AudioInv, [Next]_vars, pc' # "done"
               PROVE  /\ (sent + current)' \in Nat
                      /\ HasTotal(queue, accepted - sent - current)'
    BY DEF AudioInv
  <1> USE SessionAssumption DEF audioVars
  <1>1. CASE UNCHANGED <<queue, accepted, sent, current>> /\ pc # "done"
    BY <1>1 DEF AudioInv
  <1>2. CASE RecordFrame
    <2>1. CASE UNCHANGED <<queue, accepted>>
      BY <1>1, <1>2, <2>1 DEF RecordFrame
    <2>2. CASE ~UNCHANGED <<queue, accepted>>
      <3>1. PICK size \in FrameSizes : queue' = Append(queue, size) /\ accepted' = accepted + size
        BY <1>2, <2>2 DEF RecordFrame
      <3>2. pc # "done" /\ UNCHANGED <<sent, current>>
        BY <1>2 DEF RecordFrame
      <3>3. HasTotal(queue', accepted - sent - current + size)
        BY <3>1, <3>2, TotalOfAppend DEF AudioInv, TypeOK
      <3>4. accepted' - sent' - current' = accepted - sent - current + size
        BY <3>1, <3>2 DEF TypeOK
      <3> QED BY <3>2, <3>3, <3>4 DEF AudioInv
    <2> QED BY <2>1, <2>2
  <1>3. CASE next_frame
    <2>1. /\ queue # << >> /\ queue' = Tail(queue) /\ current' = Head(queue)
          /\ pc \in {"loop", "drain"} /\ UNCHANGED <<accepted, sent>>
      BY <1>3 DEF next_frame
    <2>2. current = 0
      BY <2>1 DEF StageInv, TypeOK
    <2>3. current' \in Nat
      BY <2>1, HeadTailProperties DEF TypeOK
    <2>4. HasTotal(queue', accepted - sent - current - current')
      BY <2>1, TotalOfTail DEF AudioInv, TypeOK
    <2>5. accepted' - sent' - current' = accepted - sent - current - current'
      BY <2>1, <2>2, <2>3 DEF TypeOK
    <2> QED BY <2>1, <2>3, <2>4, <2>5 DEF TypeOK
  <1>4. CASE send_audio
    <2>1. /\ pc = "send" /\ current' = current - ChunkSize /\ sent' = sent + ChunkSize
          /\ UNCHANGED <<queue, accepted>>
      BY <1>4 DEF send_audio, Abort
    <2>2. ChunkSize \in 0 .. current
      BY DEF ChunkSize, TypeOK
    <2>3. /\ accepted' - sent' - current' = accepted - sent - current
          /\ sent' + current' = sent + current
      BY <2>1, <2>2 DEF TypeOK
    <2> QED BY <2>1, <2>3 DEF AudioInv
  <1>5. CASE ~RecordFrame /\ ~next_frame /\ ~send_audio
    <2>1. CASE Environment \/ UNCHANGED vars \/ Returned
      BY <1>1, <1>5, <2>1 DEF Environment, RecorderStops, send_control, Answer, Unasked, vars, Returned
    <2>2. CASE connect_async \/ Loop
      BY <1>1, <1>5, <2>2 DEF connect_async, Loop, loop_control, loop_audio_ended, loop_message,
                              handle_socket_message
    <2>3. CASE send_audio_returns \/ wait_for_manual_commit \/ ack_timeout
      BY <1>1, <2>3 DEF send_audio_returns, wait_for_manual_commit, ack_timeout, Abort,
                              handle_socket_message
    <2>4. CASE Finalizing
      BY <1>1, <2>4 DEF Finalizing, finalize_manual, completing, finalize_socket, vad_message,
                        vad_timeout, handle_socket_message, Drained
    <2> QED BY <1>5, <2>1, <2>2, <2>3, <2>4 DEF Next, Task, Sending
  <1> QED BY <1>2, <1>3, <1>4, <1>5

-----------------------------------------------------------------------------
(* The stream of events.                                                    *)

\* Completed ends the stream, an error of the task included; a text does not.
LEMMA EndedAfter ==
  ASSUME TypeOK
  PROVE  /\ \A e \in Event : emit(e) => (Stream!Ended' <=> e = "Completed")
         /\ emit_completed => Stream!Ended'
         /\ emit_error => Stream!Ended'
  <1>1. events \in Seq(Event) /\ Len(events) \in Nat
    BY DEF TypeOK, Event
  <1>2. ASSUME NEW e \in Event, emit(e)
        PROVE  events' # << >> /\ events'[Len(events')] = e
    BY <1>1, <1>2, AppendProperties DEF emit
  <1>3. ASSUME emit_error
        PROVE  events' # << >> /\ events'[Len(events')] = "Completed"
    <2> DEFINE ending == <<"Error", "Completed">>
    <2>1. ending \in Seq(Event) /\ Len(ending) = 2 /\ ending[2] = "Completed"
      BY DEF Event
    <2> HIDE DEF ending
    <2>2. /\ events' \in Seq(Event) /\ Len(events') = Len(events) + 2
          /\ events'[Len(events) + 2] = ending[2]
      BY <1>1, <1>3, <2>1, ConcatProperties DEF emit_error, ending
    <2> QED BY <1>1, <2>1, <2>2, EmptySeq
  <1> QED BY <1>2, <1>3 DEF Stream!Ended, emit_completed, Event

\* A step of the session is a step of the stream or leaves it alone.
LEMMA StreamStep == TypeOK /\ StreamInv /\ [Next]_vars => StreamInv' /\ [Stream!Next]_events
  <1> SUFFICES ASSUME TypeOK, StreamInv, [Next]_vars
               PROVE  StreamInv' /\ [Stream!Next]_events
    OBVIOUS
  <1>1. CASE UNCHANGED events /\ (pc' = "done" <=> pc = "done")
    BY <1>1 DEF StreamInv, Stream!Ended
  <1>2. CASE emit_error /\ pc # "done" /\ pc' = "done"
    BY <1>2, EndedAfter DEF StreamInv, Stream!Next, Stream!Fail, emit_error
  <1>3. CASE emit_completed /\ pc # "done" /\ pc' = "done"
    BY <1>3, EndedAfter DEF StreamInv, Stream!Next, Stream!Complete, emit_completed, emit
  <1>4. CASE \E e \in {"partial", "committed"} : emit(e) /\ pc # "done" /\ pc' # "done"
    BY <1>4, EndedAfter DEF StreamInv, Stream!Next, Stream!Text, Stream!TextEvents, emit, Event
  <1>5. ASSUME handle_socket_message, pc # "done",
               Ends(Head(inbox).kind) => pc' = "done",
               ~Ends(Head(inbox).kind) => pc' # "done"
        PROVE  StreamInv' /\ [Stream!Next]_events
    <2>1. Head(inbox).kind \in Kinds
      BY <1>5, MessageType DEF handle_socket_message
    <2>2. CASE Head(inbox).kind = "close"
      BY <1>3, <1>5, <2>2 DEF handle_socket_message, Ends
    <2>3. CASE Head(inbox).kind = "error"
      BY <1>2, <1>5, <2>3 DEF handle_socket_message, Ends
    <2>4. CASE Head(inbox).kind = "partial"
      BY <1>4, <1>5, <2>4 DEF handle_socket_message, Ends
    <2>5. CASE Head(inbox).kind = "other"
      BY <1>1, <1>5, <2>5 DEF handle_socket_message, Ends
    <2>6. CASE Head(inbox).kind = "committed"
      BY <1>1, <1>4, <1>5, <2>6 DEF handle_socket_message, Ends
    <2> QED BY <2>1, <2>2, <2>3, <2>4, <2>5, <2>6 DEF Kinds
  <1>6. CASE Environment \/ UNCHANGED vars \/ Returned
    BY <1>1, <1>6 DEF Environment, RecordFrame, RecorderStops, send_control, Answer, Unasked, vars,
                      Returned
  <1>7. CASE connect_async
    BY <1>1, <1>2, <1>7 DEF connect_async
  <1>8. CASE loop_message \/ vad_message
    BY <1>5, <1>8 DEF loop_message, vad_message
  <1>9. CASE loop_control \/ next_frame \/ loop_audio_ended \/ send_audio_returns
    <2>1. pc # "done" /\ UNCHANGED events
      BY <1>9 DEF loop_control, next_frame, loop_audio_ended, send_audio_returns
    <2>2. pc' # "done"
      BY <1>9, <2>1 DEF loop_control, next_frame, loop_audio_ended, send_audio_returns, TypeOK
    <2> QED BY <1>1, <2>1, <2>2
  <1>10. CASE send_audio
    <2>1. CASE Abort
      BY <1>2, <1>10, <2>1 DEF send_audio, Abort
    <2>2. CASE ~Abort
      BY <1>1, <1>10, <2>2 DEF send_audio
    <2> QED BY <2>1, <2>2
  <1>11. CASE wait_for_manual_commit
    BY <1>5, <1>11 DEF wait_for_manual_commit, Acknowledges, Ends
  <1>12. CASE ack_timeout
    BY <1>2, <1>12 DEF ack_timeout, Abort
  <1>13. CASE finalize_manual
    BY <1>1, <1>2, <1>3, <1>13 DEF finalize_manual, Drained
  <1>14. CASE completing \/ vad_timeout
    BY <1>3, <1>14 DEF completing, vad_timeout
  <1>15. CASE finalize_socket
    BY <1>1, <1>2, <1>3, <1>15 DEF finalize_socket, Drained
  <1> QED
    BY <1>6, <1>7, <1>8, <1>9, <1>10, <1>11, <1>12, <1>13, <1>14, <1>15
       DEF Next, Task, Loop, Sending, Finalizing

-----------------------------------------------------------------------------
(* Nothing is lost.                                                         *)

Failed == \E i \in DOMAIN events : events[i] = "Error"

\* An error emitted is among the events.
LEMMA ErrorEmitted == TypeOK /\ emit_error => Failed'
  <1> SUFFICES ASSUME TypeOK, emit_error
               PROVE  Failed'
    OBVIOUS
  <1> DEFINE ending == <<"Error", "Completed">>
  <1>1. events \in Seq(Event) /\ Len(events) \in Nat
    BY DEF TypeOK, Event
  <1>2. ending \in Seq(Event) /\ Len(ending) = 2 /\ ending[1] = "Error"
    BY DEF Event
  <1> HIDE DEF ending
  <1>3. /\ events' \in Seq(Event) /\ Len(events') = Len(events) + 2
        /\ events'[Len(events) + 1] = ending[1]
    BY <1>1, <1>2, ConcatProperties DEF emit_error, ending
  <1>4. Len(events) + 1 \in DOMAIN events'
    BY <1>1, <1>3
  <1> QED BY <1>2, <1>3, <1>4 DEF Failed

\* Once everything queued was sent and nothing is in hand, all that was accepted
\* was sent; without a commit awaited, all of it was transcribed.
LEMMA AllSent ==
  ASSUME TypeOK, AudioInv, pc # "done", queue = << >>, current = 0
  PROVE  sent = accepted
  BY TotalOfEmpty DEF TypeOK, AudioInv

\* The task returns with an error, after the provider's close, or with all the
\* audio sent and, with manual commits, committed.
LEMMA NothingLostStep == IInv /\ [Next]_vars => NothingLost'
  <1> SUFFICES ASSUME IInv, [Next]_vars
               PROVE  NothingLost'
    OBVIOUS
  <1> DEFINE Whole == sent = accepted /\ (manual => transcribed = accepted)
  <1> USE SessionAssumption DEF IInv, audioVars
  <1>1. CASE pc' # "done"
    BY <1>1 DEF NothingLost
  <1>2. CASE Failed' \/ closed'
    BY <1>2 DEF NothingLost, Failed
  <1>3. CASE pc = "done" /\ UNCHANGED <<pc, manual, events, closed, accepted, sent, transcribed>>
    BY <1>3 DEF NothingLost
  <1>4. CASE Whole /\ UNCHANGED <<manual, accepted, sent, transcribed>>
    BY <1>4 DEF NothingLost
  <1>5. ASSUME pc \in {"drain", "completing", "vad"},
               pc = "drain" => queue = << >> /\ (manual => segment_bytes = 0),
               UNCHANGED <<manual, accepted, sent, transcribed>>
        PROVE  NothingLost'
    <2>1. queue = << >> /\ current = 0
      BY <1>5 DEF StageInv, TypeOK
    <2>2. sent = accepted
      BY <1>5, <2>1, AllSent
    <2>3. manual => transcribed = accepted
      BY <1>5, <2>2 DEF CommitInv, Paired, StageInv, TypeOK
    <2> QED BY <1>4, <1>5, <2>2, <2>3
  <1>6. ASSUME handle_socket_message, Ends(Head(inbox).kind)
        PROVE  NothingLost'
    <2>1. CASE Head(inbox).kind = "close"
      BY <1>2, <1>6, <2>1, Zenon DEF handle_socket_message
    <2>2. CASE Head(inbox).kind = "error"
      <3>1. emit_error
        BY <1>6, <2>2 DEF handle_socket_message
      <3> QED BY <1>2, <3>1, ErrorEmitted
    <2> QED BY <1>6, <2>1, <2>2 DEF Ends
  <1>7. CASE emit_error
    BY <1>2, <1>7, ErrorEmitted
  <1>8. CASE Environment \/ UNCHANGED vars \/ Returned
    BY <1>1, <1>3, <1>8 DEF Environment, RecordFrame, RecorderStops, send_control, Answer, Unasked,
                            vars, Returned
  <1>9. CASE connect_async \/ Loop
    BY <1>1, <1>6, <1>7, <1>9 DEF connect_async, Loop, loop_control, next_frame, loop_audio_ended,
                                  loop_message
  <1>10. CASE Sending
    <2>1. CASE send_audio
      BY <1>1, <1>7, <2>1 DEF send_audio, Abort
    <2>2. CASE send_audio_returns
      BY <1>1, <2>2 DEF send_audio_returns, TypeOK
    <2>3. CASE wait_for_manual_commit
      BY <1>1, <1>6, <2>3 DEF wait_for_manual_commit
    <2>4. CASE ack_timeout
      BY <1>7, <2>4 DEF ack_timeout, Abort
    <2> QED BY <1>10, <2>1, <2>2, <2>3, <2>4 DEF Sending
  <1>11. CASE finalize_manual
    <2>1. CASE segment_bytes = 0
      BY <1>5, <1>11, <2>1 DEF finalize_manual, Drained
    <2>2. CASE segment_bytes # 0
      BY <1>1, <1>7, <1>11, <2>2 DEF finalize_manual
    <2> QED BY <2>1, <2>2
  <1>12. CASE finalize_socket
    BY <1>5, <1>12 DEF finalize_socket, Drained
  <1>13. CASE completing \/ vad_timeout
    BY <1>5, <1>13 DEF completing, vad_timeout
  <1>14. CASE vad_message
    BY <1>1, <1>6, <1>14 DEF vad_message
  <1> QED
    BY <1>8, <1>9, <1>10, <1>11, <1>12, <1>13, <1>14 DEF Next, Task, Finalizing

-----------------------------------------------------------------------------
(* The theorems.                                                            *)

\* The invariant is inductive.
LEMMA NextIInv == IInv /\ [Next]_vars => IInv'
  BY TypeStep, StageStep, CommitStep, AudioStep, StreamStep, NothingLostStep DEF IInv

\* Every reachable state satisfies the inductive invariant.
THEOREM Invariance == Spec => []IInv
  <1> QED BY InitIInv, NextIInv, PTL DEF Spec

\* The variables keep their types; no segment grows past MANUAL_SEGMENT_BYTES.
THEOREM TypeCorrect == Spec => []TypeOK
  <1>1. IInv => TypeOK
    BY DEF IInv
  <1> QED BY <1>1, Invariance, PTL

\* The task's count of the open segment is the provider's, and no answer is ever
\* taken for another commit's.
THEOREM SegmentsAgree == Spec => []SegmentAgrees
  <1>1. IInv => SegmentAgrees
    <2> SUFFICES ASSUME IInv, manual
                 PROVE  SegmentAgrees
      BY DEF SegmentAgrees
    <2>1. CASE pc \in {"loop", "drain", "send"}
      BY <2>1 DEF IInv, CommitInv, Paired, SegmentAgrees, TypeOK
    <2>2. CASE pc = "ack"
      BY <2>2 DEF IInv, CommitInv, Awaited, SegmentAgrees
    <2>3. CASE pc \notin {"loop", "drain", "send", "ack"}
      BY <2>3 DEF SegmentAgrees
    <2> QED BY <2>1, <2>2, <2>3
  <1> QED BY <1>1, Invariance, PTL

\* A session that completes without an error and was not closed by the provider
\* has sent, and with manual commits had transcribed, every frame it accepted.
THEOREM NoAudioLost == Spec => []NothingLost
  <1>1. IInv => NothingLost
    BY DEF IInv
  <1> QED BY <1>1, Invariance, PTL

\* The events of a session are the stream that Recording reads: an Error is
\* followed by Completed at once and nothing follows Completed.
THEOREM StreamImplemented == Spec => ImplementsStream
  <1>1. Init => Stream!Init
    BY DEF Init, Stream!Init
  <1>2. IInv /\ [Next]_vars => [Stream!Next]_events
    BY StreamStep DEF IInv
  <1> QED BY <1>1, <1>2, Invariance, PTL DEF Spec, ImplementsStream, Stream!Spec
=============================================================================

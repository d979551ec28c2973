------------------------------ MODULE AudioProofs ------------------------------
(***************************************************************************)
(* Proofs about the audio side of a recording.  Capture and Transcription,  *)
(* for recordings of any length and a pipe of any size: stop() returns what *)
(* pw-record wrote or the beginning of it, the peak tells exactly whether   *)
(* somebody can be heard, and the provider gets the recordings it should    *)
(* and gets them again only when that may help.  Mute, for all sets of      *)
(* sinks and streams and any number of changes by their owners: whatever a  *)
(* recording mutes is given back, nothing its owner muted is touched, and a *)
(* recording is private.                                                    *)
(***************************************************************************)
EXTENDS Transcription, Mute, FiniteSetTheorems, SequenceTheorems, TLAPS

-----------------------------------------------------------------------------
(* Induction.  The theorem of NaturalsInduction takes an operator; stated   *)
(* with a set it follows from the cardinality of finite sets.               *)

\* A set of numbers that has zero and every successor is the set of them all.
LEMMA Induction ==
  ASSUME NEW A \in SUBSET Nat, 0 \in A, \A n \in A : n + 1 \in A
  PROVE  A = Nat
  <1> SUFFICES ASSUME NEW m \in Nat, m \notin A
               PROVE  FALSE
    OBVIOUS
  <1> DEFINE Below == {n \in A : n <= m}
             next == [n \in Below |-> n + 1]
  <1>1. /\ Below \in SUBSET Nat /\ 0 \in Below
        /\ \A n \in Below : n <= m /\ n + 1 \in Below \ {0}
    <2>1. ASSUME NEW n \in Below
          PROVE  n \in Nat /\ n <= m /\ n # m /\ n + 1 \in A
      OBVIOUS
    <2>2. \A n \in Below : n + 1 <= m /\ n + 1 # 0
      BY <2>1
    <2>3. 0 <= m
      OBVIOUS
    <2> QED BY <2>1, <2>2, <2>3
  <1>2. IsFiniteSet(Below) /\ Cardinality(Below) \in Nat
    <2> HIDE DEF Below
    <2> QED BY <1>1, FS_BoundedSetOfNaturals, FS_CardinalityType
  <1>3. IsFiniteSet(Below \ {0}) /\ Cardinality(Below \ {0}) = Cardinality(Below) - 1
    <2> HIDE DEF Below
    <2> QED BY <1>1, <1>2, FS_RemoveElement
  <1>4. next \in Injection(Below, Below \ {0})
    <2>1. next \in [Below -> Below \ {0}]
      BY <1>1
    <2>2. \A a, b \in Below : next[a] = next[b] => a = b
      BY <1>1
    <2> QED BY <2>1, <2>2 DEF Injection, IsInjective
  <1>5. Cardinality(Below) <= Cardinality(Below \ {0})
    <2> HIDE DEF Below, next
    <2> QED BY <1>3, <1>4, FS_Injection
  <1> QED BY <1>2, <1>3, <1>5

-----------------------------------------------------------------------------
(* The peak.                                                                *)

Samples == Smallest .. -Smallest - 1

\* What one turn of the loop makes of the peak so far, and the peaks it has after
\* each of the first k samples.
Louder(pcm, max, n) == IF abs(pcm[n]) > max[n - 1] THEN abs(pcm[n]) ELSE max[n - 1]

IsPeak(pcm, k, max) ==
    max = [n \in 0 .. k |-> IF n = 0 THEN 0 ELSE Louder(pcm, max, n)]

\* The absolute value of a sample is a number, the smallest sample's its own.
LEMMA AbsType == \A s \in Samples : abs(s) \in Int
  BY CaptureAssumption DEF Samples, abs

\* The loop of compute_peak_amplitude has a result for every recording.
LEMMA PeakExists ==
  ASSUME NEW pcm \in Seq(Samples), NEW size \in Nat, size <= Len(pcm)
  PROVE  \E max : IsPeak(pcm, size, max)
  <1> DEFINE Good(k, max) ==
                /\ max \in [0 .. k -> Int]
                /\ max[0] = 0 /\ \A n \in 1 .. k : max[n] = Louder(pcm, max, n)
             A == {k \in Nat : k <= Len(pcm) => \E max : Good(k, max)}
  <1>1. Len(pcm) \in Nat /\ \A i \in 1 .. Len(pcm) : abs(pcm[i]) \in Int
    BY ElementOfSeq, AbsType
  <1>2. 0 \in A
    <2> DEFINE max == [n \in 0 .. 0 |-> 0]
    <2>1. Good(0, max)
      OBVIOUS
    <2> HIDE DEF Good
    <2> QED BY <2>1
  <1>3. ASSUME NEW k \in A, k + 1 <= Len(pcm)
        PROVE  \E max : Good(k + 1, max)
    <2>1. PICK max : Good(k, max)
      <3>1. k <= Len(pcm)
        BY <1>1, <1>3
      <3> HIDE DEF Good
      <3> QED BY <3>1
    <2> DEFINE a == abs(pcm[k + 1])
               more == [n \in 0 .. k + 1 |-> IF n <= k THEN max[n]
                                             ELSE IF a > max[k] THEN a ELSE max[k]]
    <2>2. a \in Int /\ k \in Nat
      BY <1>1, <1>3
    <2>3. max[k] \in Int
      BY <2>1, <2>2
    <2>4. more \in [0 .. k + 1 -> Int] /\ more[0] = 0
      BY <2>1, <2>2, <2>3
    <2>5. ASSUME NEW n \in 1 .. k
          PROVE  more[n] = Louder(pcm, more, n)
      <3>1. more[n] = max[n] /\ more[n - 1] = max[n - 1] /\ max[n] = Louder(pcm, max, n)
        BY <2>1, <2>2
      <3> QED BY <3>1 DEF Louder
    <2>6. more[k + 1] = Louder(pcm, more, k + 1)
      BY <2>2 DEF Louder
    <2>7. Good(k + 1, more)
      BY <2>2, <2>4, <2>5, <2>6, SMTT(40)
    <2> HIDE DEF Good
    <2> QED BY <2>7
  <1>4. A = Nat
    <2>1. \A n \in A : n + 1 \in A
      <3> HIDE DEF Good
      <3> QED BY <1>3
    <2> HIDE DEF A
    <2>2. A \in SUBSET Nat
      BY DEF A
    <2> QED BY <1>2, <2>1, <2>2, Induction
  <1>5. PICK max : Good(size, max)
    <2> HIDE DEF Good
    <2> QED BY <1>4
  <1> DEFINE loop == [n \in 0 .. size |-> IF n = 0 THEN 0 ELSE Louder(pcm, max, n)]
  <1>6. \A n \in 0 .. size : max[n] = loop[n]
    BY <1>5
  <1>7. max = loop
    BY <1>5, <1>6
  <1> QED BY <1>7 DEF IsPeak

\* The peak after m samples reaches the threshold exactly if one of them does.
LEMMA PeakIsLoudest ==
  ASSUME NEW pcm \in Seq(Samples), NEW max, IsPeak(pcm, Len(pcm), max)
  PROVE  \A m \in 0 .. Len(pcm) :
            /\ max[m] \in Int
            /\ max[m] >= SILENCE_THRESHOLD
                  <=> \E i \in 1 .. m : abs(pcm[i]) >= SILENCE_THRESHOLD
  <1> DEFINE Loud(m) == \E i \in 1 .. m : abs(pcm[i]) >= SILENCE_THRESHOLD
             Good(m) == max[m] \in Int /\ (max[m] >= SILENCE_THRESHOLD <=> Loud(m))
             A == {m \in Nat : m <= Len(pcm) => Good(m)}
  <1>1. Len(pcm) \in Nat /\ \A i \in 1 .. Len(pcm) : abs(pcm[i]) \in Int
    BY ElementOfSeq, AbsType
  <1>2. SILENCE_THRESHOLD \in Int /\ SILENCE_THRESHOLD > 0
    BY CaptureAssumption
  <1>3. max[0] = 0 /\ \A n \in 1 .. Len(pcm) : max[n] = Louder(pcm, max, n)
    BY <1>1 DEF IsPeak
  <1>4. 0 \in A
    BY <1>2, <1>3
  <1>5. ASSUME NEW m \in A, m + 1 <= Len(pcm)
        PROVE  Good(m + 1)
    <2> DEFINE a == abs(pcm[m + 1])
    <2>1. Good(m) /\ m \in Nat /\ a \in Int
      BY <1>1, <1>5
    <2>2. max[m + 1] = IF a > max[m] THEN a ELSE max[m]
      BY <1>1, <1>3, <1>5, <2>1 DEF Louder
    <2>3. Loud(m + 1) <=> Loud(m) \/ a >= SILENCE_THRESHOLD
      <3>1. \A i : i \in 1 .. m + 1 <=> i \in 1 .. m \/ i = m + 1
        BY <2>1
      <3> QED BY <3>1
    <2> HIDE DEF Loud, a
    <2> QED BY <1>2, <2>1, <2>2, <2>3
  <1>6. A = Nat
    <2>1. \A n \in A : n + 1 \in A
      <3> HIDE DEF Good
      <3> QED BY <1>5
    <2> HIDE DEF A
    <2>2. A \in SUBSET Nat
      BY DEF A
    <2> QED BY <1>4, <2>1, <2>2, Induction
  <1> QED BY <1>1, <1>6

\* The check of the daemon is exact: a recording is taken for silence exactly if
\* nobody can be heard in it, the smallest sample apart, whose absolute value
\* overflows (audio.rs:288-303).
THEOREM SilenceExact ==
  ASSUME NEW pcm \in Seq(Samples)
  PROVE  is_silence(compute_peak_amplitude(pcm)) <=> ~Audible(pcm)
  <1> DEFINE max == CHOOSE m : IsPeak(pcm, Len(pcm), m)
  <1>1. Len(pcm) \in Nat /\ \A i \in 1 .. Len(pcm) : pcm[i] \in Samples
    BY ElementOfSeq
  <1>2. compute_peak_amplitude(pcm) = max[Len(pcm)]
    BY DEF compute_peak_amplitude, IsPeak, Louder
  <1>3. IsPeak(pcm, Len(pcm), max)
    BY <1>1, PeakExists
  <1> HIDE DEF max
  <1>4. max[Len(pcm)] >= SILENCE_THRESHOLD
           <=> \E i \in 1 .. Len(pcm) : abs(pcm[i]) >= SILENCE_THRESHOLD
    BY <1>1, <1>3, PeakIsLoudest
  <1>5. max[Len(pcm)] \in Int
    BY <1>1, <1>3, PeakIsLoudest
  <1>6. ASSUME NEW i \in 1 .. Len(pcm)
        PROVE  abs(pcm[i]) >= SILENCE_THRESHOLD
                  <=> /\ pcm[i] # Smallest
                      /\ pcm[i] >= SILENCE_THRESHOLD \/ -pcm[i] >= SILENCE_THRESHOLD
    BY <1>1, CaptureAssumption DEF abs, Samples
  <1> QED BY <1>1, <1>2, <1>4, <1>5, <1>6, CaptureAssumption DEF is_silence, Audible

-----------------------------------------------------------------------------
(* The recording.                                                           *)

\* Types of the recording; stop() is past its wait only once the process is not
\* running.
CaptureType ==
    /\ pw \in {"running", "exited", "reaped"}
    /\ drain \in {"reading", "ended", "failed"}
    /\ stop \in {"none", "waiting", "killed", "draining", "done", "error"}
    /\ sender \in BOOLEAN /\ listening \in BOOLEAN /\ partial \in BOOLEAN
    /\ pipe \in Seq(Levels) /\ raw_pcm \in Seq(Levels) /\ written \in Seq(Levels)
    /\ fanned \in Seq(Levels) /\ data \in Seq(Levels)

\* What was written is in the buffer or still in the pipe, in this order; what
\* stop() returned is the buffer of that moment, which only a drain task given up
\* goes on filling.
Collected ==
    /\ written = raw_pcm \o pipe
    /\ drain = "ended" => pipe = <<>> /\ pw # "running"
    /\ sender /\ listening => fanned = raw_pcm
    /\ \E rest \in Seq(Levels) : raw_pcm = data \o rest
    /\ stop = "done" /\ ~partial => data = raw_pcm /\ drain # "reading"

CaptureInv == CaptureType /\ Collected

\* A part of what is there before is the beginning of what is there now.
LEMMA PrefixOfConcat ==
  ASSUME NEW S, NEW s \in Seq(S), NEW t \in Seq(S)
  PROVE  IsPrefix(s, s \o t)
  <1>1. /\ s \o t \in Seq(S) /\ Len(s \o t) = Len(s) + Len(t)
        /\ \A i \in 1 .. Len(s) : (s \o t)[i] = s[i]
        /\ Len(s) \in Nat /\ Len(t) \in Nat
    BY ConcatProperties
  <1> DEFINE r == s \o t
  <1>2. r \in Seq(S) /\ Len(r) >= Len(s) /\ \A i \in 1 .. Len(s) : r[i] = s[i]
    BY <1>1
  <1> HIDE DEF r
  <1>3. SubSeq(s, 1, Len(s)) = SubSeq(r, 1, Len(s))
    BY <1>1, <1>2
  <1>4. IsPrefix(s, r)
    BY <1>1, <1>2, <1>3 DEF IsPrefix
  <1> QED BY <1>4 DEF r

\* The buffer and the pipe: moving a chunk from one to the other keeps both together.
LEMMA MoveChunk ==
  ASSUME NEW S, NEW s \in Seq(S), NEW t \in Seq(S), NEW n \in 1 .. Len(t)
  PROVE  /\ SubSeq(t, 1, n) \in Seq(S) /\ SubSeq(t, n + 1, Len(t)) \in Seq(S)
         /\ (s \o SubSeq(t, 1, n)) \o SubSeq(t, n + 1, Len(t)) = s \o t
  <1> DEFINE a == SubSeq(t, 1, n)
             b == SubSeq(t, n + 1, Len(t))
  <1>1. Len(t) \in Nat /\ \A i \in 1 .. Len(t) : t[i] \in S
    BY ElementOfSeq
  <1>2. /\ a \in Seq(S) /\ Len(a) = n /\ \A i \in 1 .. n : a[i] = t[i]
    BY <1>1, SubSeqProperties
  <1>3. /\ b \in Seq(S) /\ Len(b) = Len(t) - n /\ \A i \in 1 .. Len(t) - n : b[i] = t[n + i]
    BY <1>1, SubSeqProperties
  <1> HIDE DEF a, b
  <1>4. a \o b = t
    BY <1>1, ConcatAdjacentSubSeq, SubSeqFull DEF a, b
  <1>5. (s \o a) \o b = s \o (a \o b)
    <2>1. a \in Seq(S) /\ b \in Seq(S)
      BY <1>2, <1>3
    <2> QED BY <2>1
  <1> QED BY <1>2, <1>3, <1>4, <1>5 DEF a, b

\* Nothing has been recorded yet.
LEMMA CaptureStart == CaptureInit => CaptureInv
  <1> SUFFICES ASSUME CaptureInit
               PROVE  CaptureInv
    OBVIOUS
  <1>1. <<>> \in Seq(Levels) /\ <<>> \o <<>> = <<>>
    OBVIOUS
  <1> QED BY <1>1 DEF CaptureInit, CaptureInv, CaptureType, Collected

\* No step of the process, the drain task, the session or stop() loses a sample.
LEMMA CaptureStep == CaptureInv /\ CaptureNext => CaptureInv'
  <1> SUFFICES ASSUME CaptureInv, CaptureNext
               PROVE  CaptureInv'
    OBVIOUS
  <1> USE DEF CaptureInv, CaptureType, childVars, drainVars, stopVars
  <1>1. CASE Write
    <2>1. PICK s \in Levels : pipe' = Append(pipe, s) /\ written' = Append(written, s)
      BY <1>1 DEF Write
    <2>2. pipe' \in Seq(Levels) /\ written' \in Seq(Levels)
      BY <2>1, AppendProperties
    <2>3. Append(raw_pcm \o pipe, s) = raw_pcm \o Append(pipe, s)
      <3>1. <<s>> \in Seq(Levels) /\ raw_pcm \o pipe \in Seq(Levels)
        BY ConcatProperties
      <3>2. /\ Append(pipe, s) = pipe \o <<s>>
            /\ Append(raw_pcm \o pipe, s) = (raw_pcm \o pipe) \o <<s>>
        BY <3>1, AppendIsConcat
      <3>3. (raw_pcm \o pipe) \o <<s>> = raw_pcm \o (pipe \o <<s>>)
        BY <3>1
      <3> QED BY <3>2, <3>3, Zenon
    <2>4. UNCHANGED <<pw, drain, raw_pcm, sender, listening, fanned, stop, partial, data>> /\ pw = "running"
      BY <1>1 DEF Write
    <2>5. written' = raw_pcm' \o pipe'
      BY <2>1, <2>3, <2>4 DEF Collected
    <2>6. Collected'
      BY <2>4, <2>5 DEF Collected
    <2>7. CaptureType'
      <3>1. written' \in Seq(Levels) /\ pipe' \in Seq(Levels)
        BY <2>2
      <3> QED BY <2>4, <3>1
    <2> QED BY <2>6, <2>7
  <1>2. CASE Exit \/ Killed
    <2>1. /\ pw = "running" /\ pw' = "exited"
          /\ UNCHANGED <<pipe, written, drain, raw_pcm, sender, listening, fanned, stop, partial, data>>
      BY <1>2 DEF Exit, Killed
    <2>2. Collected'
      BY <2>1 DEF Collected
    <2> QED BY <2>1, <2>2
  <1>3. CASE SessionEnds
    BY <1>3 DEF SessionEnds, Collected
  <1>4. CASE drain_read
    <2>1. PICK n \in 1 .. Len(pipe) :
              /\ fan_out_pcm_chunk(SubSeq(pipe, 1, n))
              /\ pipe' = SubSeq(pipe, n + 1, Len(pipe))
      BY <1>4 DEF drain_read
    <2> DEFINE chunk == SubSeq(pipe, 1, n)
    <2>2. chunk \in Seq(Levels) /\ pipe' \in Seq(Levels)
      BY <2>1, MoveChunk
    <2>3. (raw_pcm \o chunk) \o pipe' = raw_pcm \o pipe
      <3>1. (raw_pcm \o chunk) \o SubSeq(pipe, n + 1, Len(pipe)) = raw_pcm \o pipe
        <4>1. raw_pcm \in Seq(Levels) /\ pipe \in Seq(Levels)
          OBVIOUS
        <4> HIDE DEF CaptureInv, CaptureType
        <4> QED BY <4>1, MoveChunk, ZenonT(60)
      <3> QED BY <2>1, <3>1, Zenon
    <2>4. /\ drain = "reading" /\ raw_pcm' = raw_pcm \o chunk
          /\ sender' = (sender /\ listening)
          /\ fanned' = IF sender' THEN fanned \o chunk ELSE fanned
          /\ UNCHANGED <<pw, written, drain, listening, stop, partial, data>>
      BY <1>4, <2>1 DEF drain_read, fan_out_pcm_chunk
    <2> HIDE DEF chunk
    <2>5. raw_pcm' \in Seq(Levels) /\ fanned' \in Seq(Levels)
      BY <2>2, <2>4, ConcatProperties
    <2>6. sender' \in BOOLEAN /\ (sender' /\ listening' => fanned' = raw_pcm')
      <3>1. sender' \in BOOLEAN /\ (sender' => sender /\ listening)
        BY <2>4, Zenon
      <3> QED BY <2>4, <3>1 DEF Collected
    <2>7. \E rest \in Seq(Levels) : raw_pcm' = data' \o rest
      <3>1. PICK rest \in Seq(Levels) : raw_pcm = data \o rest
        BY DEF Collected
      <3>2. rest \o chunk \in Seq(Levels)
        BY <2>2, ConcatProperties, Zenon
      <3>3. (data \o rest) \o chunk = data \o (rest \o chunk)
        <4>1. data \in Seq(Levels) /\ chunk \in Seq(Levels)
          BY <2>2
        <4> QED BY <4>1, SMTT(40)
      <3> QED BY <2>4, <3>1, <3>2, <3>3, Zenon
    <2>8. Collected'
      BY <2>3, <2>4, <2>6, <2>7 DEF Collected
    <2> QED BY <2>2, <2>4, <2>5, <2>6, <2>8
  <1>5. CASE drain_ends \/ drain_error
    BY <1>5 DEF drain_ends, drain_error, Collected
  <1>6. CASE stop_begins \/ wait_timeout
    <2>1. /\ stop' \in {"waiting", "killed"}
          /\ UNCHANGED <<pw, pipe, written, drain, raw_pcm, sender, listening, fanned, partial, data>>
      BY <1>6 DEF stop_begins, wait_timeout
    <2>2. Collected'
      BY <2>1 DEF Collected
    <2> QED BY <2>1, <2>2
  <1>7. CASE wait \/ wait_error
    <2>1. /\ stop' \in {"draining", "error"} /\ pw' \in {"reaped", "exited"}
          /\ UNCHANGED <<pipe, written, drain, raw_pcm, sender, listening, fanned, partial, data>>
      BY <1>7 DEF wait, wait_error
    <2>2. Collected'
      BY <2>1 DEF Collected
    <2> QED BY <2>1, <2>2
  <1>8. CASE drained \/ drain_timeout
    <2>1. <<>> \in Seq(Levels) /\ raw_pcm = raw_pcm \o <<>>
      BY ConcatEmptySeq
    <2>2. /\ stop' = "done" /\ data' = raw_pcm /\ partial' \in {TRUE, partial}
          /\ UNCHANGED <<pw, pipe, written, drain, raw_pcm, sender, listening, fanned>>
          /\ ~partial' => drain # "reading"
      BY <1>8 DEF drained, drain_timeout
    <2> QED BY <2>1, <2>2 DEF Collected
  <1> QED
    BY <1>1, <1>2, <1>3, <1>4, <1>5, <1>6, <1>7, <1>8 DEF CaptureNext

-----------------------------------------------------------------------------
(* The requests.                                                            *)

Transient == {"slow", "unreachable", "server"}
Final == {"short", "silent", "text", "error"}

\* The recording is settled before it is looked at, and looked at before the
\* provider sees it; every answer but the last one was worth another request.
Requested ==
    /\ at \in {"idle", "checking", "keyterms", "requesting", "sleeping", "done"}
    /\ attempt \in 0 .. MAX_RETRIES /\ answers \in Seq(Answers)
    /\ at # "done" => outcome = None
    /\ at = "done" => outcome \in Final
    /\ at # "idle" => stop \in {"done", "error"}
    /\ at \in {"idle", "checking", "keyterms"} => answers = <<>> /\ attempt = 0
    /\ at \in {"keyterms", "requesting", "sleeping"} \/ answers # <<>> =>
          Audible(data) /\ Len(data) >= MinFrames
    /\ at = "requesting" => Len(answers) = attempt
    /\ at = "sleeping" => Len(answers) = attempt + 1 /\ attempt < MAX_RETRIES
    /\ Len(answers) <= attempt + 1
    /\ \A i \in DOMAIN answers : i < Len(answers) \/ at \in {"requesting", "sleeping"} =>
          answers[i] \in Transient
    /\ outcome = "text" <=> answers # <<>> /\ answers[Len(answers)] = "text"
    /\ outcome \in {"short", "silent"} => ~(Audible(data) /\ Len(data) >= MinFrames)

IInv == CaptureInv /\ Requested

\* A recording starts in the invariant.
LEMMA InitIInv == Init => IInv
  <1> SUFFICES ASSUME Init
               PROVE  IInv
    OBVIOUS
  <1>1. <<>> \in Seq(Answers) /\ Len(<<>>) = 0 /\ DOMAIN <<>> = {}
    OBVIOUS
  <1> QED
    BY <1>1, CaptureStart, TranscriptionAssumption DEF Init, IInv, Requested, Final

\* While the recording goes on nothing is requested, and a request leaves it alone.
LEMMA RecordingStep == IInv /\ CaptureNext /\ UNCHANGED requestVars => IInv'
  <1> SUFFICES ASSUME IInv, CaptureNext, UNCHANGED requestVars
               PROVE  Requested'
    BY CaptureStep DEF IInv
  <1>1. CASE at = "idle"
    BY <1>1, TranscriptionAssumption DEF IInv, Requested, requestVars, Final
  <1>2. CASE at # "idle"
    <2>1. stop \in {"done", "error"}
      BY <1>2 DEF IInv, Requested
    <2>2. UNCHANGED <<stop, data>>
      BY <2>1 DEF CaptureNext, Write, Exit, Killed, SessionEnds, drain_read, drain_ends, drain_error,
         stop_begins, wait, wait_error, wait_timeout, drained, drain_timeout, stopVars
    <2> QED BY <1>2, <2>1, <2>2 DEF IInv, Requested, requestVars, Audible
  <1> QED BY <1>1, <1>2

\* What one more answer does to the answers.
LEMMA AnswerAppended ==
  ASSUME NEW q \in Seq(Answers), NEW a \in Answers
  PROVE  /\ Append(q, a) \in Seq(Answers) /\ Append(q, a) # <<>>
         /\ Len(Append(q, a)) = Len(q) + 1 /\ Append(q, a)[Len(q) + 1] = a
         /\ \A i \in 1 .. Len(q) : Append(q, a)[i] = q[i]
         /\ DOMAIN Append(q, a) = 1 .. Len(q) + 1
  BY AppendProperties

\* Every step of the transcription keeps the invariant.
LEMMA TranscribeStep == IInv /\ Transcribe => IInv'
  <1> SUFFICES ASSUME IInv, Transcribe
               PROVE  IInv'
    OBVIOUS
  <1>0. UNCHANGED captureVars
    BY DEF Transcribe, audio_result, Returns, transcribe_batch_inner, load_keyterms, try_transcribe,
           backoff
  <1>1. CaptureInv'
    BY <1>0 DEF captureVars, childVars, drainVars, stopVars, IInv, CaptureInv, CaptureType, Collected
  <1>2. UNCHANGED <<stop, data>> /\ (Audible(data)' <=> Audible(data))
    BY <1>0 DEF captureVars, stopVars, Audible
  <1>3. Len(answers) \in Nat /\ DOMAIN answers = 1 .. Len(answers)
    BY DEF IInv, Requested
  <1>4. Requested'
    <2> USE TranscriptionAssumption DEF IInv, Requested, Returns, Final
    <2>0. stop' = stop /\ (Audible(data)' <=> Audible(data)) /\ Len(data)' = Len(data)
      BY <1>2
    <2>1. CASE audio_result
      BY <1>2, <1>3, <2>1 DEF audio_result
    <2>2. CASE transcribe_batch_inner
      <3>1. data \in Seq(Samples)
        <4>1. Levels \subseteq Samples
          BY CaptureAssumption DEF Samples
        <4>2. data \in Seq(Levels)
          BY DEF CaptureInv, CaptureType
        <4> QED BY <4>1, <4>2
      <3>2. is_silence(compute_peak_amplitude(data)) <=> ~Audible(data)
        BY <3>1, SilenceExact
      <3>3. Len(data) \in Nat
        BY <3>1
      <3>4. /\ at = "checking" /\ UNCHANGED <<attempt, answers>>
            /\ \/ at' = "done" /\ outcome' = "short" /\ Len(data) < MinFrames
               \/ at' = "done" /\ outcome' = "silent" /\ ~Audible(data)
               \/ at' = "keyterms" /\ UNCHANGED outcome
                  /\ ~(Len(data) < MinFrames) /\ Audible(data)
        BY <2>2, <3>2 DEF transcribe_batch_inner
      <3>5. answers = <<>> /\ attempt = 0 /\ outcome = None /\ stop \in {"done", "error"}
        BY <3>4
      <3> QED BY <1>2, <3>3, <3>4, <3>5
    <2>3. CASE load_keyterms
      <3>1. /\ at = "keyterms" /\ UNCHANGED <<attempt, answers>>
            /\ \/ at' = "done" /\ outcome' = "error"
               \/ at' = "requesting" /\ UNCHANGED outcome
        BY <2>3 DEF load_keyterms
      <3>2. /\ answers = <<>> /\ attempt = 0 /\ outcome = None /\ stop \in {"done", "error"}
            /\ Audible(data) /\ Len(data) >= MinFrames
        BY <3>1
      <3> QED BY <1>2, <1>3, <2>0, <3>1, <3>2
    <2>4. CASE try_transcribe
      <3>1. PICK answer \in Answers :
                /\ answers' = Append(answers, answer)
                /\ IF retries(answer) THEN at' = "sleeping" /\ UNCHANGED outcome
                   ELSE at' = "done" /\ outcome' = IF answer = "text" THEN "text" ELSE "error"
        BY <2>4 DEF try_transcribe
      <3>2. /\ at = "requesting" /\ outcome = None /\ UNCHANGED attempt
            /\ Len(answers) = attempt /\ Audible(data) /\ Len(data) >= MinFrames
            /\ stop \in {"done", "error"}
        BY <2>4 DEF try_transcribe
      <3>3. \A i \in 1 .. Len(answers) : answers[i] \in Transient
        BY <1>3, <3>2
      <3>4. /\ answers' \in Seq(Answers) /\ answers' # <<>> /\ Len(answers') = attempt + 1
            /\ answers'[Len(answers')] = answer /\ DOMAIN answers' = 1 .. attempt + 1
            /\ \A i \in 1 .. attempt : answers'[i] \in Transient
        BY <3>1, <3>2, <3>3, AnswerAppended
      <3>5. CASE retries(answer)
        <4>1. answer \in Transient /\ attempt < MAX_RETRIES /\ at' = "sleeping" /\ outcome' = None
          BY <3>1, <3>2, <3>5 DEF retries, is_transient, Transient
        <4>2. \A i \in DOMAIN answers' : answers'[i] \in Transient
          BY <3>4, <4>1
        <4>3. answer # "text"
          BY <4>1 DEF Transient
        <4> QED BY <1>2, <3>2, <3>4, <4>1, <4>2, <4>3
      <3>6. CASE ~retries(answer)
        <4>1. at' = "done" /\ outcome' = IF answer = "text" THEN "text" ELSE "error"
          BY <3>1, <3>6
        <4>2. \A i \in DOMAIN answers' : i < Len(answers') => answers'[i] \in Transient
          BY <3>4
        <4> QED BY <1>2, <3>2, <3>4, <4>1, <4>2
      <3> QED BY <3>5, <3>6
    <2>5. CASE backoff
      BY <1>2, <1>3, <2>5 DEF backoff
    <2> QED BY <2>1, <2>2, <2>3, <2>4, <2>5 DEF Transcribe
  <1> QED BY <1>1, <1>4 DEF IInv

\* The invariant is inductive.
LEMMA NextIInv == IInv /\ [Next]_vars => IInv'
  <1>1. ASSUME IInv, UNCHANGED vars
        PROVE  IInv'
    <2>1. CaptureInv'
      BY <1>1 DEF vars, captureVars, childVars, drainVars, stopVars, IInv, CaptureInv, CaptureType,
                  Collected
    <2>2. Audible(data)' <=> Audible(data)
      BY <1>1 DEF vars, captureVars, stopVars, Audible
    <2>3. Requested'
      BY <1>1, <2>2 DEF vars, captureVars, stopVars, requestVars, IInv, Requested
    <2> QED BY <2>1, <2>3 DEF IInv
  <1> QED BY <1>1, RecordingStep, TranscribeStep DEF Next

\* Every reachable state satisfies the invariant.
THEOREM Invariance == Spec => []IInv
  <1> QED BY InitIInv, NextIInv, PTL DEF Spec

\* stop() returns all that pw-record wrote, in order, or the beginning of it if the
\* drain task was too slow or could not read; and the session was sent the same.
THEOREM AudioCollected == Spec => []AllAudioCollected
  <1>1. IInv => AllAudioCollected
    <2> SUFFICES ASSUME CaptureInv
                 PROVE  AllAudioCollected
      BY DEF IInv
    <2> USE DEF CaptureInv, CaptureType, Collected
    <2>1. PICK rest \in Seq(Levels) : raw_pcm = data \o rest
      OBVIOUS
    <2>2. rest \o pipe \in Seq(Levels) /\ written = data \o (rest \o pipe)
      <3>1. rest \o pipe \in Seq(Levels)
        BY ConcatProperties, Zenon
      <3>2. (data \o rest) \o pipe = data \o (rest \o pipe)
        <4>1. data \in Seq(Levels) /\ pipe \in Seq(Levels)
          OBVIOUS
        <4> HIDE DEF CaptureInv, CaptureType, Collected
        <4> QED BY <4>1
      <3> QED BY <2>1, <3>1, <3>2, Zenon
    <2>3. IsPrefix(data, written)
      BY <2>2, PrefixOfConcat
    <2>4. stop = "done" /\ drain = "ended" /\ ~partial => data = written
      BY ConcatEmptySeq
    <2> QED BY <2>3, <2>4 DEF AllAudioCollected
  <1> QED BY <1>1, Invariance, PTL

\* The provider gets every recording that is long enough and audible and no other,
\* and gets it again only after a failure that may pass, MAX_RETRIES times at most.
THEOREM Justified == Spec => []RequestsJustified
  <1>1. IInv => RequestsJustified
    <2> SUFFICES ASSUME Requested
                 PROVE  RequestsJustified
      BY DEF IInv
    <2>1. Len(answers) \in Nat /\ DOMAIN answers = 1 .. Len(answers)
      <3>1. answers \in Seq(Answers)
        BY DEF Requested
      <3> QED BY <3>1
    <2>2. \A i \in 1 .. Len(answers) - 1 : answers[i] \in {"slow", "unreachable", "server"}
      <3>1. \A i \in DOMAIN answers : i < Len(answers) => answers[i] \in Transient
        BY DEF Requested
      <3> QED BY <2>1, <3>1 DEF Transient
    <2>3. Len(answers) <= MAX_RETRIES + 1
      <3>1. attempt \in 0 .. MAX_RETRIES /\ Len(answers) <= attempt + 1
        BY DEF Requested
      <3> QED BY <2>1, <3>1, TranscriptionAssumption
    <2> QED BY <2>2, <2>3 DEF Requested, RequestsJustified
  <1> QED BY <1>1, Invariance, PTL

-----------------------------------------------------------------------------
(* Muting: the invariant MuteInv is inductive.                              *)

LEMMA MuteInitInv == MuteInit => MuteInv
  BY MuteAssumption DEF MuteInit, MuteInv, TypeOK, RestInv, HeldInv, ClaimInv, ChoiceKept, HushInv,
     Held, Claimed, Kinds, OfKind, Devices

-----------------------------------------------------------------------------
(* The owners.                                                              *)

LEMMA OwnersInv == MuteInv /\ Owners => MuteInv'
  <1> SUFFICES ASSUME MuteInv, NEW d \in Devices,
                      Vanish(d) \/ \E mute \in BOOLEAN : Appear(d, mute) \/ Choose(d, mute)
               PROVE  MuteInv'
    BY DEF Owners
  <1> USE MuteAssumption DEF MuteInv, historyVars
  <1>1. CASE Vanish(d)
    BY <1>1 DEF Vanish, TypeOK, RestInv, HeldInv, ClaimInv, ChoiceKept, HushInv, Held, Claimed
  <1>2. ASSUME NEW mute \in BOOLEAN, Appear(d, mute)
        PROVE  MuteInv'
    BY <1>2 DEF Appear, TypeOK, RestInv, HeldInv, ClaimInv, ChoiceKept, HushInv, Held, Claimed
  <1>3. ASSUME NEW mute \in BOOLEAN, Choose(d, mute)
        PROVE  MuteInv'
    BY <1>3 DEF Choose, TypeOK, RestInv, HeldInv, ClaimInv, ChoiceKept, HushInv, Held, Claimed
  <1> QED
    BY <1>1, <1>2, <1>3

-----------------------------------------------------------------------------
(* The daemon: one step per action.                                         *)

LEMMA DaemonInv == MuteInv /\ Daemon => MuteInv'
  <1> SUFFICES ASSUME MuteInv, Daemon
               PROVE  MuteInv'
    OBVIOUS
  <1> USE MuteAssumption
      DEF MuteInv, TypeOK, RestInv, HeldInv, ClaimInv, ChoiceKept, HushInv, Held, Claimed,
          Kinds, OfKind, Devices, deviceVars, historyVars
  <1>1. CASE press
    BY <1>1 DEF press, Take, Goto
  <1>2. CASE restore_one
    BY <1>2 DEF restore_one, Succeeds, Fails, set_mute
  <1>3. CASE list
    <2>1. /\ phase = "stale" /\ phase' = "mute" /\ todo = {} /\ todo' \subseteq present \cap OfKind(doing)
          /\ todo' \cap muted = {}
          /\ hush \subseteq hush' /\ hush' \subseteq hush \cup (present \cap OfKind(doing))
          /\ hush' \subseteq hush \cup muted \cup todo'
          /\ UNCHANGED <<enabled, present, fresh, muted, doing, snapshot, changes,
                         chosen, meddled, stuck>>
      BY <1>3 DEF list, Unmuted, TakenForMonitor
    <2>2. TypeOK' /\ RestInv' /\ HeldInv' /\ ChoiceKept'
      BY <2>1
    <2>3. ClaimInv'
      BY <2>1
    <2>4. HushInv'
      BY <2>1
    <2> QED
      BY <2>2, <2>3, <2>4
  <1>4. CASE mute_one
    BY <1>4 DEF mute_one, Succeeds, Fails, set_mute, Remember
  <1>5. CASE mute_done
    BY <1>5 DEF mute_done, Goto
  <1>6. CASE marker
    BY <1>6 DEF marker, Take, Goto
  <1>7. CASE start_recording
    BY <1>7 DEF start_recording, Take, Goto
  <1>8. CASE stop_recording
    BY <1>8 DEF stop_recording, Take
  <1>9. CASE restore_recording_audio
    BY <1>9 DEF restore_recording_audio, Take
  <1>10. CASE restore_done
    BY <1>10 DEF restore_done, Take, Goto
  <1> QED
    BY <1>1, <1>2, <1>3, <1>4, <1>5, <1>6, <1>7, <1>8, <1>9, <1>10 DEF Daemon

-----------------------------------------------------------------------------
(* The theorems about muting.                                               *)

\* The inductive invariant holds throughout (media.rs, mic.rs and the order in
\* which begin_recording and the exits of a recording call them).
THEOREM MuteInvariance == MuteSpec => []MuteInv
  <1>1. MuteInv /\ UNCHANGED muteVars => MuteInv'
    BY DEF muteVars, deviceVars, historyVars, MuteInv, TypeOK, RestInv, HeldInv, ClaimInv, ChoiceKept,
       HushInv, Held, Claimed
  <1>2. MuteInv /\ [MuteNext]_muteVars => MuteInv'
    BY <1>1, OwnersInv, DaemonInv DEF MuteNext
  <1> QED
    BY MuteInitInv, <1>2, PTL DEF MuteSpec

\* Whatever a recording mutes is given back on every way out of it.
THEOREM MutesGivenBack == MuteSpec => []MutesUndone
  <1>1. MuteInv => MutesUndone
    BY DEF MuteInv, RestInv, HeldInv, MutesUndone, Claimed
  <1> QED
    BY <1>1, MuteInvariance, PTL

\* What an owner muted while no recording was on stays muted.
THEOREM OwnersRespected == MuteSpec => []ChoiceKept
  <1>1. MuteInv => ChoiceKept
    BY DEF MuteInv
  <1> QED
    BY <1>1, MuteInvariance, PTL

\* A recording runs with everything silenced that was there to be, and with its
\* own capture stream open.
THEOREM Private == MuteSpec => []RecordingIsPrivate
  <1>1. MuteInv => RecordingIsPrivate
    BY DEF MuteInv, HushInv, RecordingIsPrivate
  <1> QED
    BY <1>1, MuteInvariance, PTL
=============================================================================

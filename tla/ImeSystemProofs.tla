--------------------------- MODULE ImeSystemProofs ---------------------------
(***************************************************************************)
(* Proofs about ImeSystem, for any fields and engine objects and any number *)
(* of dictations, requests and moves of the user: the client learns that    *)
(* its session is gone, text goes to the engine IBus listens to, the input  *)
(* method comes back, a begin never leaves the bridge busy for good, and    *)
(* client and bridge implement ImeDictation.                                *)
(***************************************************************************)
EXTENDS ImeSystem, SequenceTheorems, TLAPS

-----------------------------------------------------------------------------
(* What the invariants say of calls, messages and frames under way.         *)

\* Calls whose end the bridge will not hear of; and all but one of them.
Unheeded(calls) == \A i \in DOMAIN calls : calls[i].epoch = 0
OneHeeded(calls, e) ==
    \E i \in DOMAIN calls :
        calls[i].epoch = e /\ \A k \in DOMAIN calls : k # i => calls[k].epoch = 0

\* Messages none of which, or only one, is the end of a selection.
Untold(msgs) == \A i \in DOMAIN msgs : msgs[i].kind # "selected"
OneTold(msgs, e) ==
    \E i \in DOMAIN msgs :
        /\ msgs[i].kind = "selected" /\ msgs[i].epoch = e
        /\ \A k \in DOMAIN msgs : k # i => msgs[k].kind # "selected"
Successes(msgs) == \A i \in DOMAIN msgs : msgs[i].kind = "selected" => msgs[i].ok

\* Messages that leave the focus with e; and that bring it there.
Stays(m, e) == (m.kind = "focus_in" => m.engine = e) /\ (m.kind = "focus_out" => m.engine # e)
Settled(msgs, e) == \A i \in DOMAIN msgs : Stays(msgs[i], e)
Arrives(msgs, e) ==
    \E i \in DOMAIN msgs :
        /\ msgs[i].kind = "focus_in" /\ msgs[i].engine = e
        /\ \A k \in DOMAIN msgs : k > i => Stays(msgs[k], e)

\* Calls that all return to method m.
Returning(calls, m) == \A i \in DOMAIN calls : calls[i] = [to |-> m, epoch |-> 0]

-----------------------------------------------------------------------------
(* The inductive invariant.                                                 *)

\* What is begun or open belongs to the client that is connected, and its fate says so.
ClientInv ==
    /\ starting # None => /\ session = None /\ client # 0 /\ starting.epoch = client
                          /\ fate[client] = "unborn"
    /\ session # None => /\ client # 0 /\ fate[client] \in UnderWay
                         /\ field[client] = session.context
    /\ handling # None => session # None
    /\ \A d \in Dictations : fate[d] \in UnderWay => d = client /\ session # None
    /\ \A d \in Dictations : d > begins => fate[d] = "unborn"
    /\ toBridge # << >> /\ phase = "begin" =>
        fate[begins] = "unborn" /\ ~(client = begins /\ starting # None)

\* A dictation has more than opened exactly while the bridge is at its commit, and is
\* confirmed as long as its field keeps the focus.
HandlingInv ==
    /\ handling # None /\ handling.op = "commit" => fate[client] \in {"confirmed", "strayed"}
    /\ \A d \in Dictations :
        /\ fate[d] \in {"confirmed", "strayed"} => handling # None /\ handling.op = "commit"
        /\ fate[d] = "confirmed" => ctx = field[d]

\* While the bridge has a marker, one end of a selection is on the way, and without
\* one there is none.
MarkerInv ==
    /\ marker = None => Unheeded(switches) /\ Untold(news)
    /\ marker # None =>
        /\ session = None
        /\ starting # None => /\ starting.epoch = marker.epoch /\ ~starting.selected
                              /\ starting.previous = marker.previous
        /\ \/ OneHeeded(switches, marker.epoch) /\ Untold(news)
           \/ Unheeded(switches) /\ OneTold(news, marker.epoch)

\* The client waits for the answer to its one request.
Held == client = begins /\ session # None
Learns == Held \/ Cancelled \in ToSet(toClient) \/ shut
Answered == \E f \in ToSet(toClient) : Accepts(f)
AtHand == handling # None /\ client = begins /\ phase # "none"
Given == {"inserted", "misplaced"}

AnswerInv ==
    /\ \A f \in ToSet(toClient) : f.ok => f.id <= id
    /\ phase # "none" => begins # 0 /\ id # 0
    /\ phase = "begin" => id = 1
    /\ phase \in Operation \ {"begin"} => id > 1
    /\ toBridge # << >> => /\ phase \in Operation /\ toBridge = <<[id |-> id, op |-> phase]>>
                           /\ ~Answered
    /\ AtHand => /\ phase = handling.op /\ id = handling.id
                 /\ toBridge = << >> /\ ~Answered
    /\ phase = "ready" => Learns
    /\ phase \in {"begin", "partial"} /\ Answered => Learns
    /\ phase = "commit" /\ Answered => fate[begins] \in Given

\* The bridge knows of the engine IBus listens to, or is about to be told.
FocusInv ==
    global = "daapstt" /\ ctx # None =>
        \/ Arrives(news, live)
        \/ focused.engine = live /\ Settled(news, live)

\* Where the selection is between the method the user chose and "daapstt": back, or
\* on its way back; not away yet; away, and the bridge not told; in use.
Before(previous) == IF previous = None THEN "daapstt" ELSE previous

Back ==
    /\ marker = None /\ starting = None /\ session = None
    /\ Returning(switches, chosen)
    /\ switches = << >> => global = chosen

Leaving ==
    /\ marker # None /\ Before(marker.previous) = chosen
    /\ switches = <<[to |-> "daapstt", epoch |-> marker.epoch]>> /\ global = chosen

Away ==
    /\ marker # None /\ Before(marker.previous) = chosen
    /\ Returning(switches, chosen) /\ global \in {"daapstt", chosen}
    /\ starting # None => switches = << >> /\ global = "daapstt"

InUse ==
    /\ marker = None /\ switches = << >> /\ global = "daapstt"
    /\ \/ starting # None /\ Before(starting.previous) = chosen
       \/ session # None /\ Before(session.previous) = chosen

SelectionInv == ~astray => Successes(news) /\ (Back \/ Leaving \/ Away \/ InUse)

IInv ==
    TypeOK /\ ClientInv /\ HandlingInv /\ MarkerInv /\ AnswerInv /\ FocusInv /\ SelectionInv

USE DEF busVars, socketVars, bridgeVars, clientVars, historyVars, UnderWay, Given

-----------------------------------------------------------------------------
(* Sequences: what is taken from the front and put at the end.              *)

\* The tail of a sequence.
LEMMA TailFacts ==
  ASSUME NEW S, NEW s \in Seq(S), s # << >>
  PROVE  /\ Tail(s) \in Seq(S) /\ Head(s) \in S /\ 1 \in DOMAIN s /\ s[1] = Head(s)
         /\ \A i \in DOMAIN Tail(s) : i \in Nat /\ i + 1 \in DOMAIN s /\ Tail(s)[i] = s[i + 1]
         /\ \A i \in DOMAIN s : i # 1 => i - 1 \in DOMAIN Tail(s) /\ Tail(s)[i - 1] = s[i]
  <1>1. Len(s) \in Nat /\ Len(s) # 0 /\ DOMAIN s = 1..Len(s) /\ s[1] \in S
    BY EmptySeq, LenProperties, ElementOfSeq
  <1>2. /\ Tail(s) \in Seq(S) /\ Head(s) = s[1] /\ Len(Tail(s)) = Len(s) - 1
        /\ \A i \in 1..Len(Tail(s)) : Tail(s)[i] = s[i + 1]
    BY HeadTailProperties
  <1>3. DOMAIN Tail(s) = 1..(Len(s) - 1)
    BY <1>2, LenProperties
  <1> QED BY <1>1, <1>2, <1>3

\* A sequence with another at its end.
LEMMA ConcatFacts ==
  ASSUME NEW S, NEW s \in Seq(S), NEW t \in Seq(S)
  PROVE  /\ s \o t \in Seq(S) /\ Len(s) \in Nat
         /\ \A i \in DOMAIN s : i \in 1..Len(s) /\ i \in DOMAIN (s \o t) /\ (s \o t)[i] = s[i]
         /\ \A i \in DOMAIN t : /\ i \in Nat \ {0} /\ Len(s) + i \in DOMAIN (s \o t)
                                /\ (s \o t)[Len(s) + i] = t[i]
         /\ \A k \in DOMAIN (s \o t) : k \in DOMAIN s \/ \E i \in DOMAIN t : k = Len(s) + i
  <1>1. /\ Len(s) \in Nat /\ Len(t) \in Nat /\ DOMAIN s = 1..Len(s) /\ DOMAIN t = 1..Len(t)
    BY LenProperties
  <1>2. /\ s \o t \in Seq(S) /\ Len(s \o t) = Len(s) + Len(t)
        /\ \A i \in 1..Len(s) + Len(t) : (s \o t)[i] = IF i <= Len(s) THEN s[i] ELSE t[i - Len(s)]
    BY ConcatProperties
  <1>3. DOMAIN (s \o t) = 1..Len(s) + Len(t)
    BY <1>2, LenProperties
  <1>4. ASSUME NEW i \in DOMAIN t
        PROVE  /\ i \in Nat \ {0} /\ Len(s) + i \in DOMAIN (s \o t)
               /\ (s \o t)[Len(s) + i] = t[i]
    <2>1. i \in 1..Len(t) /\ Len(s) + i \in 1..Len(s) + Len(t) /\ ~(Len(s) + i <= Len(s))
      BY <1>1
    <2>2. (Len(s) + i) - Len(s) = i
      BY <1>1, <2>1
    <2> QED BY <1>2, <1>3, <2>1, <2>2
  <1>5. ASSUME NEW k \in DOMAIN (s \o t), k \notin DOMAIN s
        PROVE  \E i \in DOMAIN t : k = Len(s) + i
    <2>1. k - Len(s) \in DOMAIN t /\ k = Len(s) + (k - Len(s))
      BY <1>1, <1>3, <1>5
    <2> QED BY <2>1
  <1> QED BY <1>1, <1>2, <1>3, <1>4, <1>5

\* What is in a sequence, in its tail, and in one with another at its end.
LEMMA Members ==
  ASSUME NEW S, NEW s \in Seq(S)
  PROVE  /\ ToSet(<< >>) = {}
         /\ s # << >> => Head(s) \in ToSet(s) /\ ToSet(Tail(s)) \subseteq ToSet(s)
                         /\ ToSet(s) \subseteq {Head(s)} \cup ToSet(Tail(s))
         /\ \A t \in Seq(S) : ToSet(s \o t) = ToSet(s) \cup ToSet(t)
  <1>1. ToSet(<< >>) = {}
    BY DEF ToSet
  <1>2. ASSUME s # << >>
        PROVE  Head(s) \in ToSet(s) /\ ToSet(Tail(s)) \subseteq ToSet(s)
               /\ ToSet(s) \subseteq {Head(s)} \cup ToSet(Tail(s))
    <2> USE <1>2
    <2>1. Head(s) \in ToSet(s)
      BY TailFacts DEF ToSet
    <2>2. ToSet(Tail(s)) \subseteq ToSet(s)
      BY TailFacts DEF ToSet
    <2>3. ToSet(s) \subseteq {Head(s)} \cup ToSet(Tail(s))
      <3> SUFFICES ASSUME NEW i \in DOMAIN s, i # 1
                   PROVE  s[i] \in ToSet(Tail(s))
        BY TailFacts DEF ToSet
      <3> QED BY TailFacts DEF ToSet
    <2> QED BY <2>1, <2>2, <2>3
  <1>3. ASSUME NEW t \in Seq(S)
        PROVE  ToSet(s \o t) = ToSet(s) \cup ToSet(t)
    <2>1. ToSet(s \o t) \subseteq ToSet(s) \cup ToSet(t)
      <3> SUFFICES ASSUME NEW k \in DOMAIN (s \o t)
                   PROVE  (s \o t)[k] \in ToSet(s) \cup ToSet(t)
        BY DEF ToSet
      <3> QED BY ConcatFacts DEF ToSet
    <2>2. ToSet(s) \cup ToSet(t) \subseteq ToSet(s \o t)
      <3>1. \A i \in DOMAIN s : s[i] \in ToSet(s \o t)
        BY ConcatFacts DEF ToSet
      <3>2. ASSUME NEW i \in DOMAIN t
            PROVE  t[i] \in ToSet(s \o t)
        <4>1. Len(s) + i \in DOMAIN (s \o t) /\ (s \o t)[Len(s) + i] = t[i]
          BY ConcatFacts
        <4> QED BY <4>1 DEF ToSet
      <3> QED BY <3>1, <3>2 DEF ToSet
    <2> QED BY <2>1, <2>2
  <1> QED BY <1>1, <1>2, <1>3

\* The members of a pair and of a single.
LEMMA SmallSets == \A x, y : ToSet(<<x>>) = {x} /\ ToSet(<<x, y>>) = {x, y}
  <1> TAKE x, y
  <1>1. DOMAIN <<x>> = {1} /\ DOMAIN <<x, y>> = {1, 2}
    OBVIOUS
  <1> QED BY <1>1 DEF ToSet

\* Calls: none heeded, or one, after one was carried out or another was made.
LEMMA CallsAfterOne ==
  ASSUME NEW calls \in Seq(Call), calls # << >>, NEW e, e # 0
  PROVE  /\ Unheeded(calls) => Head(calls).epoch = 0 /\ Unheeded(Tail(calls))
         /\ OneHeeded(calls, e) /\ Head(calls).epoch = 0 => OneHeeded(Tail(calls), e)
         /\ OneHeeded(calls, e) /\ Head(calls).epoch # 0 => Head(calls).epoch = e /\ Unheeded(Tail(calls))
  <1>1. Unheeded(calls) => Head(calls).epoch = 0 /\ Unheeded(Tail(calls))
    BY TailFacts DEF Unheeded
  <1>2. ASSUME NEW i \in DOMAIN calls, calls[i].epoch = e,
               \A k \in DOMAIN calls : k # i => calls[k].epoch = 0
        PROVE  /\ Head(calls).epoch = 0 => OneHeeded(Tail(calls), e)
               /\ Head(calls).epoch # 0 => Head(calls).epoch = e /\ Unheeded(Tail(calls))
    <2>1. CASE i = 1
      <3>1. Head(calls).epoch = e
        BY <1>2, <2>1, TailFacts
      <3>2. \A k \in DOMAIN Tail(calls) : k + 1 # 1 /\ k + 1 \in DOMAIN calls
                                          /\ Tail(calls)[k] = calls[k + 1]
        <4>1. \A k \in DOMAIN Tail(calls) : k # 0
          BY TailFacts, LenProperties
        <4> QED BY <4>1, TailFacts
      <3> QED BY <1>2, <2>1, <3>1, <3>2 DEF Unheeded
    <2>2. CASE i # 1
      <3>1. Head(calls).epoch = 0
        BY <1>2, <2>2, TailFacts
      <3>2. i - 1 \in DOMAIN Tail(calls) /\ Tail(calls)[i - 1].epoch = e
        BY <1>2, <2>2, TailFacts
      <3>3. ASSUME NEW k \in DOMAIN Tail(calls), k # i - 1
            PROVE  Tail(calls)[k].epoch = 0
        <4>1. k \in Nat /\ k + 1 \in DOMAIN calls /\ Tail(calls)[k] = calls[k + 1]
          BY TailFacts
        <4>2. i \in Nat
          BY LenProperties
        <4>3. k + 1 # i
          BY <3>3, <4>1, <4>2
        <4> QED BY <1>2, <4>1, <4>3
      <3> QED BY <3>1, <3>2, <3>3 DEF OneHeeded
    <2> QED BY <2>1, <2>2
  <1> QED BY <1>1, <1>2 DEF OneHeeded

\* Another call.
LEMMA CallsWithOne ==
  ASSUME NEW calls \in Seq(Call), NEW call \in Call, NEW e
  PROVE  /\ Append(calls, call) \in Seq(Call)
         /\ call.epoch = 0 /\ Unheeded(calls) => Unheeded(Append(calls, call))
         /\ call.epoch = 0 /\ OneHeeded(calls, e) => OneHeeded(Append(calls, call), e)
         /\ Unheeded(calls) => OneHeeded(Append(calls, call), call.epoch)
         /\ \A m : call = [to |-> m, epoch |-> 0] /\ Returning(calls, m)
                   => Returning(Append(calls, call), m)
  <1>1. /\ Append(calls, call) \in Seq(Call) /\ Len(calls) \in Nat
        /\ DOMAIN calls = 1..Len(calls) /\ DOMAIN Append(calls, call) = 1..Len(calls) + 1
        /\ \A i \in 1..Len(calls) : Append(calls, call)[i] = calls[i]
        /\ Append(calls, call)[Len(calls) + 1] = call
    BY AppendProperties, LenProperties
  <1> DEFINE n == Len(calls) + 1
  <1>2. /\ n \in DOMAIN Append(calls, call) /\ n \notin DOMAIN calls
        /\ \A i \in DOMAIN Append(calls, call) : i = n \/ i \in DOMAIN calls
        /\ \A i \in DOMAIN calls : i \in DOMAIN Append(calls, call)
    BY <1>1
  <1>3. Append(calls, call)[n] = call /\ \A i \in DOMAIN calls : Append(calls, call)[i] = calls[i]
    BY <1>1
  <1> HIDE DEF n
  <1>4. call.epoch = 0 /\ Unheeded(calls) => Unheeded(Append(calls, call))
    BY <1>2, <1>3 DEF Unheeded
  <1>5. call.epoch = 0 /\ OneHeeded(calls, e) => OneHeeded(Append(calls, call), e)
    BY <1>2, <1>3 DEF OneHeeded
  <1>6. Unheeded(calls) => OneHeeded(Append(calls, call), call.epoch)
    BY <1>2, <1>3 DEF Unheeded, OneHeeded
  <1>7. ASSUME NEW m, call = [to |-> m, epoch |-> 0], Returning(calls, m)
        PROVE  Returning(Append(calls, call), m)
    BY <1>2, <1>3, <1>7 DEF Returning
  <1> QED BY <1>1, <1>4, <1>5, <1>6, <1>7

\* Messages after the first was heard.
LEMMA MessagesAfterOne ==
  ASSUME NEW msgs \in Seq(Message), msgs # << >>, NEW e
  PROVE  /\ Untold(msgs) => Head(msgs).kind # "selected" /\ Untold(Tail(msgs))
         /\ OneTold(msgs, e) /\ Head(msgs).kind # "selected" => OneTold(Tail(msgs), e)
         /\ OneTold(msgs, e) /\ Head(msgs).kind = "selected"
            => Head(msgs).epoch = e /\ Untold(Tail(msgs))
         /\ Successes(msgs) => Successes(Tail(msgs)) /\ (Head(msgs).kind = "selected" => Head(msgs).ok)
         /\ Settled(msgs, e) => Stays(Head(msgs), e) /\ Settled(Tail(msgs), e)
         /\ Arrives(msgs, e) =>
               \/ Arrives(Tail(msgs), e)
               \/ Head(msgs).kind = "focus_in" /\ Head(msgs).engine = e /\ Settled(Tail(msgs), e)
  <1>1. /\ 1 \in DOMAIN msgs /\ msgs[1] = Head(msgs) /\ \A i \in DOMAIN msgs : i \in Nat
        /\ \A k \in DOMAIN Tail(msgs) : /\ k \in Nat /\ k > 0 /\ k + 1 # 1 /\ k + 1 \in DOMAIN msgs
                                        /\ Tail(msgs)[k] = msgs[k + 1]
        /\ \A i \in DOMAIN msgs : i # 1 => i - 1 \in DOMAIN Tail(msgs) /\ Tail(msgs)[i - 1] = msgs[i]
    BY TailFacts, LenProperties
  <1>2. /\ Untold(msgs) => Head(msgs).kind # "selected" /\ Untold(Tail(msgs))
        /\ Successes(msgs) => Successes(Tail(msgs)) /\ (Head(msgs).kind = "selected" => Head(msgs).ok)
        /\ Settled(msgs, e) => Stays(Head(msgs), e) /\ Settled(Tail(msgs), e)
    BY <1>1 DEF Untold, Successes, Settled
  <1>3. ASSUME NEW i \in DOMAIN msgs, msgs[i].kind = "selected", msgs[i].epoch = e,
               \A k \in DOMAIN msgs : k # i => msgs[k].kind # "selected"
        PROVE  /\ Head(msgs).kind # "selected" => OneTold(Tail(msgs), e)
               /\ Head(msgs).kind = "selected" => Head(msgs).epoch = e /\ Untold(Tail(msgs))
    <2>1. CASE i = 1
      <3>1. Head(msgs).kind = "selected" /\ Head(msgs).epoch = e
        BY <1>1, <1>3, <2>1
      <3>2. Untold(Tail(msgs))
        BY <1>1, <1>3, <2>1 DEF Untold
      <3> QED BY <3>1, <3>2
    <2>2. CASE i # 1
      <3>1. Head(msgs).kind # "selected"
        BY <1>1, <1>3, <2>2
      <3>2. \A k \in DOMAIN Tail(msgs) : k # i - 1 => k + 1 # i
        BY <1>1
      <3>3. \A k \in DOMAIN Tail(msgs) : k # i - 1 => Tail(msgs)[k].kind # "selected"
        BY <1>1, <1>3, <3>2
      <3>4. i - 1 \in DOMAIN Tail(msgs) /\ Tail(msgs)[i - 1] = msgs[i]
        BY <1>1, <2>2
      <3> DEFINE before == i - 1
      <3> HIDE DEF before
      <3>5. OneTold(Tail(msgs), e)
        BY <1>3, <3>3, <3>4 DEF OneTold, before
      <3> QED BY <3>1, <3>5
    <2> QED BY <2>1, <2>2
  <1>4. ASSUME NEW i \in DOMAIN msgs, msgs[i].kind = "focus_in", msgs[i].engine = e,
               \A k \in DOMAIN msgs : k > i => Stays(msgs[k], e)
        PROVE  \/ Arrives(Tail(msgs), e)
               \/ Head(msgs).kind = "focus_in" /\ Head(msgs).engine = e /\ Settled(Tail(msgs), e)
    <2>1. CASE i = 1
      <3>1. \A k \in DOMAIN Tail(msgs) : k + 1 > 1
        BY <1>1
      <3> QED BY <1>1, <1>4, <2>1, <3>1 DEF Settled
    <2>2. CASE i # 1
      <3>1. \A k \in DOMAIN Tail(msgs) : k > i - 1 => k + 1 > i
        BY <1>1
      <3>2. \A k \in DOMAIN Tail(msgs) : k > i - 1 => Stays(Tail(msgs)[k], e)
        BY <1>1, <1>4, <3>1
      <3> QED BY <1>1, <1>4, <2>2, <3>2 DEF Arrives
    <2> QED BY <2>1, <2>2
  <1> QED BY <1>2, <1>3, <1>4 DEF OneTold, Arrives

\* Messages with others behind them.
LEMMA MessagesWithMore ==
  ASSUME NEW msgs \in Seq(Message), NEW more \in Seq(Message), NEW e
  PROVE  /\ Untold(msgs) /\ Untold(more) => Untold(msgs \o more)
         /\ Untold(msgs) /\ OneTold(more, e) => OneTold(msgs \o more, e)
         /\ OneTold(msgs, e) /\ Untold(more) => OneTold(msgs \o more, e)
         /\ Successes(msgs) /\ Successes(more) => Successes(msgs \o more)
         /\ Settled(msgs, e) /\ Settled(more, e) => Settled(msgs \o more, e)
         /\ Arrives(msgs, e) /\ Settled(more, e) => Arrives(msgs \o more, e)
         /\ Arrives(more, e) => Arrives(msgs \o more, e)
  <1> DEFINE n == Len(msgs)
             both == msgs \o more
  <1>1. /\ n \in Nat
        /\ \A i \in DOMAIN msgs : i \in 1..n /\ i \in DOMAIN both /\ both[i] = msgs[i]
        /\ \A i \in DOMAIN more : i \in Nat \ {0} /\ n + i \in DOMAIN both /\ both[n + i] = more[i]
        /\ \A k \in DOMAIN both : k \in DOMAIN msgs \/ \E i \in DOMAIN more : k = n + i
    BY ConcatFacts, SMTT(40)
  <1> HIDE DEF n, both
  <1>2. Untold(msgs) /\ Untold(more) => Untold(both)
    BY <1>1 DEF Untold
  <1>3. Successes(msgs) /\ Successes(more) => Successes(both)
    BY <1>1 DEF Successes
  <1>4. Settled(msgs, e) /\ Settled(more, e) => Settled(both, e)
    BY <1>1 DEF Settled
  <1>5. ASSUME Untold(msgs), OneTold(more, e)
        PROVE  OneTold(both, e)
    <2>1. PICK i \in DOMAIN more : /\ more[i].kind = "selected" /\ more[i].epoch = e
                                   /\ \A k \in DOMAIN more : k # i => more[k].kind # "selected"
      BY <1>5 DEF OneTold
    <2>2. ASSUME NEW k \in DOMAIN both, k # n + i
          PROVE  both[k].kind # "selected"
      <3>1. CASE k \in DOMAIN msgs
        BY <1>1, <1>5, <3>1 DEF Untold
      <3>2. CASE k \notin DOMAIN msgs
        <4>1. PICK j \in DOMAIN more : k = n + j
          BY <1>1, <3>2
        <4>2. j # i /\ both[k] = more[j]
          BY <1>1, <2>2, <4>1
        <4> QED BY <2>1, <4>2
      <3> QED BY <3>1, <3>2
    <2> QED BY <1>1, <2>1, <2>2 DEF OneTold
  <1>6. ASSUME OneTold(msgs, e), Untold(more)
        PROVE  OneTold(both, e)
    <2>1. PICK i \in DOMAIN msgs : /\ msgs[i].kind = "selected" /\ msgs[i].epoch = e
                                   /\ \A k \in DOMAIN msgs : k # i => msgs[k].kind # "selected"
      BY <1>6 DEF OneTold
    <2>2. \A k \in DOMAIN both : k # i => both[k].kind # "selected"
      BY <1>1, <1>6, <2>1 DEF Untold
    <2> QED BY <1>1, <2>1, <2>2 DEF OneTold
  <1>7. ASSUME Arrives(msgs, e), Settled(more, e)
        PROVE  Arrives(both, e)
    <2>1. PICK i \in DOMAIN msgs : /\ msgs[i].kind = "focus_in" /\ msgs[i].engine = e
                                   /\ \A k \in DOMAIN msgs : k > i => Stays(msgs[k], e)
      BY <1>7 DEF Arrives
    <2>2. \A k \in DOMAIN both : k > i => Stays(both[k], e)
      BY <1>1, <1>7, <2>1 DEF Settled
    <2> QED BY <1>1, <2>1, <2>2 DEF Arrives
  <1>8. ASSUME Arrives(more, e)
        PROVE  Arrives(both, e)
    <2>1. PICK i \in DOMAIN more : /\ more[i].kind = "focus_in" /\ more[i].engine = e
                                   /\ \A k \in DOMAIN more : k > i => Stays(more[k], e)
      BY <1>8 DEF Arrives
    <2>2. ASSUME NEW k \in DOMAIN both, k > n + i
          PROVE  Stays(both[k], e)
      <3>1. k \notin DOMAIN msgs
        BY <1>1, <2>2
      <3>2. PICK j \in DOMAIN more : k = n + j
        BY <1>1, <3>1
      <3>3. j > i
        BY <1>1, <2>2, <3>2
      <3> QED BY <1>1, <2>1, <3>2, <3>3
    <2> QED BY <1>1, <2>1, <2>2 DEF Arrives
  <1> QED BY <1>2, <1>3, <1>4, <1>5, <1>6, <1>7, <1>8 DEF both

\* The messages IBus adds.
LEMMA FocusMessages ==
  ASSUME NEW e \in Engines, NEW c \in Contexts \cup {None}
  PROVE  /\ << >> \in Seq(Message) /\ FocusIn(e, c) \in Seq(Message) /\ FocusOut(e) \in Seq(Message)
         /\ Untold(<< >>) /\ Untold(FocusIn(e, c)) /\ Untold(FocusOut(e))
         /\ Successes(<< >>) /\ Successes(FocusIn(e, c)) /\ Successes(FocusOut(e))
         /\ c # None => Arrives(FocusIn(e, c), e)
         /\ Settled(FocusIn(e, c), e) /\ \A f : Settled(<< >>, f)
  <1> DEFINE in == [kind |-> "focus_in", engine |-> e, context |-> c]
             out == [kind |-> "focus_out", engine |-> e]
  <1>1. /\ << >> \in Seq(Message) /\ FocusOut(e) = <<out>> /\ out \in Message
        /\ FocusIn(e, c) = IF c = None THEN << >> ELSE <<in>>
        /\ c # None => in \in Message
    BY DEF FocusIn, FocusOut, Message
  <1>2. /\ in.kind = "focus_in" /\ in.engine = e /\ out.kind = "focus_out"
    OBVIOUS
  <1> HIDE DEF in, out
  <1>3. /\ DOMAIN <<in>> = {1} /\ <<in>>[1] = in /\ DOMAIN <<out>> = {1} /\ <<out>>[1] = out
        /\ DOMAIN << >> = {}
    OBVIOUS
  <1>4. /\ FocusIn(e, c) \in Seq(Message) /\ FocusOut(e) \in Seq(Message)
    BY <1>1
  <1>5. /\ Untold(<< >>) /\ Untold(<<in>>) /\ Untold(<<out>>)
        /\ Successes(<< >>) /\ Successes(<<in>>) /\ Successes(<<out>>)
    BY <1>2, <1>3 DEF Untold, Successes
  <1>6. Arrives(<<in>>, e) /\ Settled(<<in>>, e) /\ \A f : Settled(<< >>, f)
    <2>1. Arrives(<<in>>, e)
      BY <1>2, <1>3 DEF Arrives
    <2>2. Settled(<<in>>, e) /\ \A f : Settled(<< >>, f)
      BY <1>2, <1>3 DEF Settled, Stays
    <2> QED BY <2>1, <2>2
  <1> QED BY <1>1, <1>4, <1>5, <1>6

\* The end of a selection, a key and a reset.
LEMMA OtherMessages ==
  ASSUME NEW m \in Message, m.kind \in {"selected", "key", "reset"}, NEW e
  PROVE  /\ <<m>> \in Seq(Message) /\ Settled(<<m>>, e)
         /\ m.kind = "selected" => OneTold(<<m>>, m.epoch) /\ (m.ok => Successes(<<m>>))
         /\ m.kind # "selected" => Untold(<<m>>) /\ Successes(<<m>>)
  <1>1. DOMAIN <<m>> = {1} /\ <<m>>[1] = m /\ <<m>> \in Seq(Message)
    OBVIOUS
  <1> QED BY <1>1 DEF Settled, Stays, OneTold, Untold, Successes

-----------------------------------------------------------------------------
(* What the helpers of the bridge do.                                       *)

\* Restored: back to the previous method, unless somebody selected another.
LEMMA RestoredFacts ==
  ASSUME BusTypes, NEW p \in Previous, NEW e
  PROVE  /\ Restored(p) \in Seq(Call)
         /\ Unheeded(switches) => Unheeded(Restored(p))
         /\ OneHeeded(switches, e) => OneHeeded(Restored(p), e)
         /\ global # "daapstt" => Restored(p) = switches
         /\ Before(p) = chosen /\ Returning(switches, chosen) /\ global \in {"daapstt", chosen}
            => /\ Returning(Restored(p), chosen)
               /\ Restored(p) = << >> => global = chosen
  <1> DEFINE call == [to |-> p, epoch |-> 0]
  <1>1. CASE p # None /\ global = "daapstt"
    <2>1. call \in Call /\ call.epoch = 0 /\ Restored(p) = Append(switches, call) /\ Before(p) = p
      BY <1>1, ImeAssumption DEF Call, Methods, Previous, Restored, Before
    <2>2. switches \in Seq(Call)
      BY DEF BusTypes
    <2>3. Append(switches, call) # << >>
      BY <2>2
    <2>4. call = [to |-> p, epoch |-> 0]
      OBVIOUS
    <2> HIDE DEF call
    <2> QED BY <1>1, <2>1, <2>2, <2>3, <2>4, CallsWithOne
  <1>2. CASE p = None \/ global # "daapstt"
    <2>1. Restored(p) = switches
      BY <1>2 DEF Restored
    <2>2. (p = "other" /\ global # "daapstt") \/ p = None
      BY <1>2, ImeAssumption DEF Previous
    <2>3. Before(p) = chosen /\ global \in {"daapstt", chosen} => global = chosen
      BY <2>2, ImeAssumption DEF Before, Methods
    <2> QED BY <2>1, <2>3 DEF BusTypes
  <1> QED BY <1>1, <1>2

\* Frames of the protocol.
LEMMA FrameFacts ==
  ASSUME NEW r \in Nat, NEW ok \in BOOLEAN
  PROVE  /\ << >> \in Seq(Frame) /\ <<Reply(r, ok)>> \in Seq(Frame) /\ <<Cancelled>> \in Seq(Frame)
         /\ <<Cancelled, Reply(r, ok)>> \in Seq(Frame)
         /\ Reply(r, ok).id = r /\ Reply(r, ok).ok = ok /\ Cancelled.ok = FALSE
  BY DEF Reply, Cancelled, Frame

\* Sent: to the client that is connected, behind what was sent before.
LEMMA SentFacts ==
  ASSUME SocketTypes, NEW frames \in Seq(Frame)
  PROVE  /\ Sent(frames) \in Seq(Frame) /\ ToSet(toClient) \subseteq ToSet(Sent(frames))
         /\ client = begins /\ phase # "none" => ToSet(Sent(frames)) = ToSet(toClient) \cup ToSet(frames)
         /\ ~(client = begins /\ phase # "none") => Sent(frames) = toClient
  BY Members, ConcatProperties DEF SocketTypes, Sent

\* ... of one frame.
LEMMA OneSent ==
  ASSUME SocketTypes, NEW f, <<f>> \in Seq(Frame)
  PROVE  /\ ToSet(toClient) \subseteq ToSet(Sent(<<f>>))
         /\ \A g \in ToSet(Sent(<<f>>)) : g \in ToSet(toClient) \/ g = f
         /\ client = begins /\ phase # "none" => f \in ToSet(Sent(<<f>>))
  <1>1. ToSet(<<f>>) = {f}
    BY SmallSets
  <1>2. ToSet(Sent(<<f>>)) = ToSet(toClient) \cup {f} \/ Sent(<<f>>) = toClient
    BY <1>1, SentFacts
  <1>3. client = begins /\ phase # "none" => ToSet(Sent(<<f>>)) = ToSet(toClient) \cup {f}
    BY <1>1, SentFacts
  <1> QED BY <1>2, <1>3

-----------------------------------------------------------------------------
(* What the bridge does with the begin under way and with its session, by   *)
(* whatever it was moved to do so.                                          *)

Stands == UNCHANGED <<switches, toClient, starting, session, fate>>

Proceeds ==
    /\ starting # None /\ starting' \in Starting
    /\ starting'.epoch = starting.epoch /\ starting'.context = starting.context
    /\ starting'.previous = starting.previous
    /\ UNCHANGED <<switches, toClient, session, fate>>

GivesUp == starting # None /\ abort_begin /\ UNCHANGED <<session, fate>>

Drops == session # None /\ invalidate(<<Cancelled>>) /\ fate' = Closed(client) /\ UNCHANGED starting

Treated ==
    Stands \/ (Proceeds /\ starting'.selected = starting.selected) \/ GivesUp \/ Drops

\* A focus-in tells of an engine; a focus-out forgets the one it is about.
FocusHeard(n) ==
    /\ focused' \in [engine : Engines \cup {None}, context : Contexts \cup {None}]
    /\ n.kind = "focus_in" => focused'.engine = n.engine
    /\ n.kind = "focus_out" => focused' = IF focused.engine = n.engine THEN Nobody ELSE focused
    /\ n.kind \notin {"focus_in", "focus_out"} => focused' = focused

\* The end of the selection that the marker tells of.
EndHeard(n) ==
    /\ marker # None /\ marker.epoch = n.epoch /\ marker' = None
    /\ UNCHANGED <<session, fate>>
    /\ \/ /\ starting = None /\ UNCHANGED <<starting, toClient>>
          /\ switches' = IF n.ok THEN Restored(marker.previous) ELSE switches
       \/ ~n.ok /\ GivesUp
       \/ n.ok /\ Proceeds

\* The kinds of messages.
LEMMA MessageKinds ==
  ASSUME NEW n \in Message
  PROVE  /\ n.kind \in {"focus_in", "focus_out", "key", "reset", "selected"}
         /\ n.kind = "focus_in" => n.engine \in Engines /\ n.context \in Contexts
         /\ n.kind \in {"focus_out", "key", "reset"} => n.engine \in Engines
         /\ n.kind = "selected" => n.epoch \in Dictations /\ n.ok \in BOOLEAN
  BY DEF Message

\* engine_invalidated either drops the session or gives the begin up, or nothing happens.
LEMMA InvalidatedCases ==
  ASSUME NEW e, Invalidated(e)
  PROVE  Treated
  BY DEF Treated, Invalidated, Stands, GivesUp, Drops, abort_begin, invalidate

LEMMA FocusInCases ==
  ASSUME BusTypes, BridgeTypes, NEW n \in Message, focus_in(n)
  PROVE  /\ marker' = marker /\ FocusHeard(n) /\ idle' \in BOOLEAN /\ generation' \in [Engines -> Nat]
         /\ Treated
  <1>1. n.kind = "focus_in" /\ n.engine \in Engines /\ n.context \in Contexts
    BY MessageKinds DEF focus_in
  <1>2. generation' = [generation EXCEPT ![n.engine] = @ + 1]
    BY DEF focus_in, Bump
  <1>3. generation' \in [Engines -> Nat]
    BY <1>1, <1>2 DEF BridgeTypes
  <1>4. PICK c \in {n.context, ctx} :
          /\ focused' = [engine |-> n.engine, context |-> c]
          /\ IF session # None \/ starting = None
             THEN /\ IF session # None THEN Invalidated(n.engine) ELSE Stands
                  /\ idle' = idle
             ELSE IF c # starting.context
             THEN abort_begin /\ UNCHANGED <<session, fate, idle>>
             ELSE /\ starting' = [starting EXCEPT !.engine = n.engine,
                                                  !.generation = generation'[n.engine]]
                  /\ idle' = TRUE
                  /\ UNCHANGED <<switches, toClient, session, fate>>
    BY DEF focus_in, Stands
  <1>5. FocusHeard(n)
    BY <1>1, <1>4 DEF FocusHeard, BusTypes
  <1>6. idle' \in BOOLEAN
    BY <1>4 DEF BridgeTypes
  <1>7. Treated
    <2>1. CASE session # None \/ starting = None
      BY <1>4, <2>1, InvalidatedCases DEF Treated
    <2>2. CASE ~(session # None \/ starting = None) /\ c # starting.context
      BY <1>4, <2>2 DEF GivesUp, Treated
    <2>3. CASE ~(session # None \/ starting = None) /\ c = starting.context
      <3>1. starting \in Starting /\ generation'[n.engine] \in Nat
        BY <1>1, <1>3, <2>3 DEF BridgeTypes
      <3>2. /\ starting' = [starting EXCEPT !.engine = n.engine, !.generation = generation'[n.engine]]
            /\ UNCHANGED <<switches, toClient, session, fate>>
        BY <1>4, <2>3
      <3> QED BY <1>1, <2>3, <3>1, <3>2 DEF Starting, Proceeds, Treated
    <2> QED BY <2>1, <2>2, <2>3
  <1> QED BY <1>3, <1>5, <1>6, <1>7 DEF focus_in

LEMMA FocusOutCases ==
  ASSUME BusTypes, BridgeTypes, NEW n \in Message, focus_out(n)
  PROVE  /\ marker' = marker /\ FocusHeard(n) /\ idle' \in BOOLEAN /\ generation' \in [Engines -> Nat]
         /\ Treated
  <1>1. n.kind = "focus_out" /\ n.engine \in Engines
    BY MessageKinds DEF focus_out
  <1>2. generation' \in [Engines -> Nat]
    BY <1>1 DEF BridgeTypes, focus_out, Bump
  <1>3. FocusHeard(n)
    BY <1>1 DEF FocusHeard, focus_out, BridgeTypes, Nobody
  <1>4. Treated
    BY InvalidatedCases DEF focus_out, Stands, Treated
  <1> QED BY <1>2, <1>3, <1>4 DEF focus_out, BridgeTypes

LEMMA EngineInvalidatedCases ==
  ASSUME BusTypes, BridgeTypes, NEW n \in Message, engine_invalidated(n)
  PROVE  /\ marker' = marker /\ FocusHeard(n) /\ idle' \in BOOLEAN /\ generation' \in [Engines -> Nat]
         /\ Treated
  <1>1. n.kind \in {"key", "reset"} /\ n.engine \in Engines
    BY MessageKinds DEF engine_invalidated
  <1>2. generation' \in [Engines -> Nat]
    BY <1>1 DEF BridgeTypes, engine_invalidated, Bump
  <1>3. FocusHeard(n)
    BY <1>1 DEF FocusHeard, engine_invalidated, BridgeTypes
  <1>4. Treated
    BY InvalidatedCases DEF engine_invalidated
  <1> QED BY <1>2, <1>3, <1>4 DEF engine_invalidated, BridgeTypes

\* selected: with the invariant, the marker and what is started are of one begin.
LEMMA SelectedCases ==
  ASSUME BusTypes, BridgeTypes, MarkerInv, NEW n \in Message, selected(n)
  PROVE  FocusHeard(n) /\ idle' \in BOOLEAN /\ generation' = generation /\ EndHeard(n)
  <1>1. n.kind = "selected" /\ n.ok \in BOOLEAN
    BY MessageKinds DEF selected
  <1>2. /\ marker # None /\ marker.epoch = n.epoch /\ marker' = None
        /\ UNCHANGED <<session, focused, generation, fate>>
    BY DEF selected
  <1>3. starting # None => starting.epoch = n.epoch
    BY <1>2 DEF MarkerInv
  <1>4. FocusHeard(n)
    BY <1>1, <1>2 DEF FocusHeard, BridgeTypes
  <1>5. idle' \in BOOLEAN
    BY DEF selected, BridgeTypes
  <1>6. ASSUME starting = None
        PROVE  EndHeard(n)
    BY <1>2, <1>6 DEF selected, EndHeard
  <1>7. ASSUME starting # None /\ ~n.ok
        PROVE  EndHeard(n)
    BY <1>2, <1>3, <1>7 DEF selected, EndHeard, GivesUp
  <1>8. ASSUME starting # None /\ n.ok
        PROVE  EndHeard(n)
    <2>1. /\ starting' = IF focused.engine # None /\ focused.context = starting.context
                         THEN [starting EXCEPT !.selected = TRUE, !.engine = focused.engine,
                                               !.generation = generation[focused.engine]]
                         ELSE [starting EXCEPT !.selected = TRUE]
          /\ UNCHANGED <<switches, toClient>>
      BY <1>2, <1>3, <1>8 DEF selected
    <2>2. starting \in Starting /\ (focused.engine # None => focused.engine \in Engines)
      BY <1>8 DEF BridgeTypes
    <2>3. focused.engine # None => generation[focused.engine] \in Nat
      BY <2>2 DEF BridgeTypes
    <2>4. /\ starting' \in Starting /\ starting'.epoch = starting.epoch
          /\ starting'.context = starting.context /\ starting'.previous = starting.previous
      BY <2>1, <2>2, <2>3 DEF Starting
    <2> QED BY <1>2, <1>8, <2>1, <2>4 DEF EndHeard, Proceeds
  <1> QED BY <1>2, <1>4, <1>5, <1>6, <1>7, <1>8

\* A callback of the bridge on news from IBus.
LEMMA NewsCases ==
  ASSUME BusTypes, BridgeTypes, MarkerInv, News
  PROVE  /\ news # << >> /\ news' = Tail(news) /\ Head(news) \in Message
         /\ FocusHeard(Head(news)) /\ idle' \in BOOLEAN /\ generation' \in [Engines -> Nat]
         /\ \/ /\ Head(news).kind # "selected" /\ marker' = marker
               /\ Treated
            \/ Head(news).kind = "selected" /\ EndHeard(Head(news))
  <1> DEFINE n == Head(news)
  <1>1. news # << >> /\ news' = Tail(news) /\ n \in Message
    BY HeadTailProperties DEF News, BusTypes
  <1>2. focus_in(n) \/ focus_out(n) \/ engine_invalidated(n) \/ selected(n)
    BY DEF News
  <1> HIDE DEF n
  <1>3. CASE focus_in(n)
    <2>1. n.kind = "focus_in"
      BY <1>3 DEF focus_in
    <2> QED BY <1>1, <1>3, <2>1, FocusInCases DEF n
  <1>4. CASE focus_out(n)
    <2>1. n.kind = "focus_out"
      BY <1>4 DEF focus_out
    <2> QED BY <1>1, <1>4, <2>1, FocusOutCases DEF n
  <1>5. CASE engine_invalidated(n)
    <2>1. n.kind \in {"key", "reset"}
      BY <1>5 DEF engine_invalidated
    <2> QED BY <1>1, <1>5, <2>1, EngineInvalidatedCases DEF n
  <1>6. CASE selected(n)
    <2>1. n.kind = "selected"
      BY <1>6 DEF selected
    <2> QED BY <1>1, <1>6, <2>1, SelectedCases DEF n, BridgeTypes
  <1> QED BY <1>2, <1>3, <1>4, <1>5, <1>6

\* complete_begin opens the session, on the engine it is to go on with.
Opens ==
    /\ starting # None /\ starting.selected /\ client # 0 /\ starting.epoch = client
    /\ ctx = starting.context
    /\ session' \in Session /\ session'.context = starting.context
    /\ session'.previous = starting.previous
    /\ starting' = None
    /\ toClient' = Sent(<<Reply(1, TRUE)>>)
    /\ fate' = [fate EXCEPT ![client] = "open"]
    /\ field' = [field EXCEPT ![client] = starting.context]
    /\ UNCHANGED switches

\* complete_begin: not yet, at last, or given up.
LEMMA CompleteCases ==
  ASSUME BridgeTypes, complete_begin
  PROVE  idle' = FALSE /\ (((Stands \/ GivesUp) /\ field' = field) \/ Opens)
  <1>1. idle' = FALSE
    BY DEF complete_begin
  <1>2. CASE starting = None \/ ~starting.selected \/ Candidate.engine = None
    BY <1>1, <1>2 DEF complete_begin, Stands
  <1>3. CASE /\ ~(starting = None \/ ~starting.selected \/ Candidate.engine = None)
             /\ StillThere(Candidate) /\ begins_session(Candidate)
    <2>1. starting \in Starting /\ Candidate.engine \in Engines /\ Candidate.generation \in Nat
      <3>1. starting \in Starting
        BY <1>3 DEF BridgeTypes
      <3>2. CASE starting.engine # None \/ focused.context # starting.context
        BY <1>3, <3>1, <3>2 DEF Candidate, Starting
      <3>3. CASE ~(starting.engine # None \/ focused.context # starting.context)
        <4>1. Candidate = [engine |-> focused.engine,
                           generation |-> IF focused.engine = None THEN 0
                                          ELSE generation[focused.engine]]
          BY <3>3 DEF Candidate
        <4>2. focused.engine \in Engines
          BY <1>3, <4>1 DEF BridgeTypes
        <4> QED BY <1>3, <3>1, <4>1, <4>2 DEF BridgeTypes
      <3> QED BY <3>2, <3>3
    <2>2. /\ session' \in Session /\ session'.context = starting.context
          /\ session'.previous = starting.previous
      BY <1>3, <2>1 DEF begins_session, Session, Starting
    <2> QED BY <1>1, <1>3, <2>2 DEF begins_session, StillThere, Opens
  <1>4. CASE /\ ~(starting = None \/ ~starting.selected \/ Candidate.engine = None)
             /\ abort_begin /\ UNCHANGED <<session, fate, field>>
    BY <1>1, <1>4 DEF GivesUp
  <1> QED BY <1>2, <1>3, <1>4 DEF complete_begin

\* The bridge ends its session without touching a begin.
Ends(frames) ==
    session # None /\ invalidate(frames) /\ UNCHANGED <<starting, marker, astray>>
Answers(r, ok) ==
    toClient' = Sent(<<Reply(r, ok)>>) /\ UNCHANGED <<switches, starting, session, marker, fate, astray>>

\* It turns a request down, for what it finds of itself or hears from IBus; or it takes it,
\* and goes on with it.
TurnsDown(r) ==
    /\ handling' = None
    /\ \/ session # None /\ Ends(<<Cancelled, Reply(r, FALSE)>>) /\ fate' = Closed(client)
       \/ session = None /\ Answers(r, FALSE)

Takes ==
    /\ session # None /\ InField
    /\ handling' = [id |-> id, op |-> phase, next |-> "ask"]
    /\ fate' = IF phase = "commit" THEN [fate EXCEPT ![client] = "confirmed"] ELSE fate
    /\ UNCHANGED <<switches, toClient, starting, session, marker, astray>>

GoesOn ==
    /\ handling' = [handling EXCEPT !.next = "act"]
    /\ UNCHANGED <<switches, toClient, starting, session, marker, fate, astray>>

\* The one request under way is read.
LEMMA ReceiveCases ==
  ASSUME AnswerInv, receive
  PROVE  /\ client # 0 /\ client = begins /\ toBridge' = << >>
         /\ toBridge = <<[id |-> id, op |-> phase]>> /\ phase \in Operation
         /\ \/ phase = "begin" /\ Answers(id, FALSE) /\ UNCHANGED handling
            \/ phase = "begin" /\ handle_begin /\ UNCHANGED handling
            \/ phase # "begin" /\ TurnsDown(id)
            \/ phase # "begin" /\ Takes
  <1>1. client # 0 /\ client = begins /\ toBridge # << >> /\ toBridge' = Tail(toBridge)
    BY DEF receive
  <1>2. toBridge = <<[id |-> id, op |-> phase]>> /\ phase \in Operation
    BY <1>1 DEF AnswerInv
  <1>3. Tail(toBridge) = << >> /\ Head(toBridge) = [id |-> id, op |-> phase]
    BY <1>2
  <1> DEFINE r == [id |-> id, op |-> phase]
  <1>4. \/ r.op = "begin" /\ (handle_begin_refused \/ handle_begin) /\ UNCHANGED handling
        \/ r.op # "begin" /\ handle_invalid(r)
        \/ r.op # "begin" /\ KnownValid /\ InField /\ handle_valid(r)
    BY <1>3 DEF receive
  <1>5. r.id = id /\ r.op = phase
    OBVIOUS
  <1> HIDE DEF r
  <1>6. CASE phase = "begin" /\ handle_begin_refused /\ UNCHANGED handling
    <2>1. id = 1
      BY <1>6 DEF AnswerInv
    <2> QED BY <1>1, <1>2, <1>3, <1>6, <2>1 DEF handle_begin_refused, Answers
  <1>7. CASE phase = "begin" /\ handle_begin /\ UNCHANGED handling
    BY <1>1, <1>2, <1>3, <1>7
  <1>8. CASE phase # "begin" /\ handle_invalid(r)
    BY <1>1, <1>2, <1>3, <1>5, <1>8 DEF handle_invalid, TurnsDown, Answers, Ends
  <1>9. CASE phase # "begin" /\ KnownValid /\ InField /\ handle_valid(r)
    BY <1>1, <1>2, <1>3, <1>5, <1>9 DEF KnownValid, handle_valid, Takes
  <1> QED BY <1>4, <1>5, <1>6, <1>7, <1>8, <1>9

\* ... and goes its way to the answer.
LEMMA HandleCases ==
  ASSUME ClientInv, handle
  PROVE  /\ handling # None /\ session # None
         /\ \/ GoesOn
            \/ TurnsDown(handling.id)
            \/ handling' = None /\ handling.op = "partial" /\ Answers(handling.id, TRUE)
            \/ /\ handling' = None /\ handling.op = "commit" /\ Ends(<<Reply(handling.id, TRUE)>>)
               /\ fate' = [fate EXCEPT ![client] = IF ctx = field[client] THEN "inserted"
                                                   ELSE "misplaced"]
            \/ /\ handling' = None /\ handling.op = "commit" /\ Ends(<<Reply(handling.id, FALSE)>>)
               /\ fate' = Closed(client)
            \/ /\ handling' = None /\ handling.op = "end" /\ Ends(<<Reply(handling.id, TRUE)>>)
               /\ fate' = Closed(client)
  <1>1. handling # None /\ session # None
    BY DEF handle, ClientInv
  <1>2. CASE ask
    BY <1>1, <1>2 DEF ask, GoesOn, handle_invalid, TurnsDown, Answers, Ends
  <1>3. CASE act
    <2>1. handling' = None /\ UNCHANGED <<starting, marker, astray>>
      BY <1>3 DEF act
    <2>2. CASE handle_partial
      BY <1>1, <2>1, <2>2 DEF handle_partial, Answers
    <2>3. CASE handle_commit
      <3>1. PICK ok \in BOOLEAN :
              /\ invalidate(<<Reply(handling.id, ok)>>)
              /\ fate' = IF ~ok THEN Closed(client)
                         ELSE [fate EXCEPT ![client] = IF ctx = field[client] THEN "inserted"
                                                       ELSE "misplaced"]
        BY <2>3 DEF handle_commit
      <3>2. handling.op = "commit"
        BY <2>3 DEF handle_commit
      <3>3. CASE ok = TRUE
        BY <1>1, <2>1, <3>1, <3>2, <3>3 DEF Ends
      <3>4. CASE ok = FALSE
        BY <1>1, <2>1, <3>1, <3>2, <3>4 DEF Ends
      <3> QED BY <3>3, <3>4
    <2>4. CASE handle_end
      BY <1>1, <2>1, <2>4 DEF handle_end, Ends
    <2> QED BY <1>3, <2>2, <2>3, <2>4 DEF act
  <1> QED BY <1>2, <1>3 DEF handle

-----------------------------------------------------------------------------
(* Types.                                                                   *)

\* What an effect of the bridge leaves is of the right type.
LEMMA EffectTypes ==
  ASSUME TypeOK
  PROVE  /\ Treated \/ GivesUp \/ (\E n \in Message : EndHeard(n)) =>
              /\ switches' \in Seq(Call) /\ toClient' \in Seq(Frame)
              /\ starting' \in Starting \cup {None} /\ session' \in Session \cup {None}
              /\ fate' \in [Dictations -> Fates]
         /\ \A frames \in Seq(Frame) : Ends(frames) =>
              /\ switches' \in Seq(Call) /\ toClient' \in Seq(Frame)
              /\ starting' \in Starting \cup {None} /\ session' \in Session \cup {None}
         /\ \A d : Closed(d) \in [Dictations -> Fates]
  <1> USE DEF TypeOK
  <1>1. \A d : Closed(d) \in [Dictations -> Fates]
    BY DEF Closed, HistoryTypes, Fates
  <1>2. /\ starting # None => starting \in Starting /\ starting.previous \in Previous
        /\ session # None => session \in Session /\ session.previous \in Previous
        /\ marker # None => marker.previous \in Previous
    BY DEF BridgeTypes, Starting, Session, Marker
  <1>3. ASSUME NEW frames \in Seq(Frame), session # None, invalidate(frames), UNCHANGED starting
        PROVE  /\ switches' \in Seq(Call) /\ toClient' \in Seq(Frame)
               /\ starting' \in Starting \cup {None} /\ session' \in Session \cup {None}
    BY <1>2, <1>3, RestoredFacts, SentFacts DEF invalidate, BridgeTypes
  <1>4. ASSUME GivesUp
        PROVE  /\ switches' \in Seq(Call) /\ toClient' \in Seq(Frame)
               /\ starting' \in Starting \cup {None} /\ session' \in Session \cup {None}
               /\ fate' \in [Dictations -> Fates]
    <2>1. switches' = Restored(starting.previous) /\ starting' = None
          /\ toClient' = (IF starting.epoch = client THEN Sent(<<Reply(1, FALSE)>>) ELSE toClient)
          /\ starting # None /\ UNCHANGED <<session, fate>>
      BY <1>4 DEF GivesUp, abort_begin
    <2>2. Sent(<<Reply(1, FALSE)>>) \in Seq(Frame)
      BY FrameFacts, SentFacts
    <2> QED BY <1>2, <2>1, <2>2, RestoredFacts DEF BridgeTypes, HistoryTypes, SocketTypes
  <1>5. ASSUME Stands \/ Proceeds
        PROVE  /\ switches' \in Seq(Call) /\ toClient' \in Seq(Frame)
               /\ starting' \in Starting \cup {None} /\ session' \in Session \cup {None}
               /\ fate' \in [Dictations -> Fates]
    BY <1>5 DEF Stands, Proceeds, BusTypes, SocketTypes, BridgeTypes, HistoryTypes
  <1>6. ASSUME Drops
        PROVE  /\ switches' \in Seq(Call) /\ toClient' \in Seq(Frame)
               /\ starting' \in Starting \cup {None} /\ session' \in Session \cup {None}
               /\ fate' \in [Dictations -> Fates]
    BY <1>1, <1>3, <1>6, FrameFacts DEF Drops
  <1>7. ASSUME NEW n \in Message, EndHeard(n)
        PROVE  /\ switches' \in Seq(Call) /\ toClient' \in Seq(Frame)
               /\ starting' \in Starting \cup {None} /\ session' \in Session \cup {None}
               /\ fate' \in [Dictations -> Fates]
    <2>1. CASE GivesUp \/ Proceeds
      BY <1>4, <1>5, <2>1
    <2>2. CASE ~(GivesUp \/ Proceeds)
      <3>1. /\ UNCHANGED <<starting, toClient, session, fate>> /\ marker # None
            /\ switches' = IF n.ok THEN Restored(marker.previous) ELSE switches
        BY <1>7, <2>2 DEF EndHeard
      <3> QED BY <1>2, <3>1, RestoredFacts DEF BusTypes, SocketTypes, BridgeTypes, HistoryTypes
    <2> QED BY <2>1, <2>2
  <1> QED BY <1>1, <1>3, <1>4, <1>5, <1>6, <1>7 DEF Treated, Ends

\* The switches of IBus and what the user does keep the types.
LEMMA BusTypesStep ==
  TypeOK /\ (Switch \/ UserMoves \/ UserActs \/ UserSelects) => TypeOK'
  <1> SUFFICES ASSUME TypeOK
               PROVE  Switch \/ UserMoves \/ UserActs \/ UserSelects => TypeOK'
    OBVIOUS
  <1> USE DEF TypeOK
  <1>1. ASSUME NEW to \in Methods, NEW sel \in Selections(to), global' = to, live' = sel.live
        PROVE  sel.news \in Seq(Message) /\ global' \in Methods
               /\ live' \in Engines \cup {None} /\ (live' # None) = (global' = "daapstt")
    <2>1. CASE to = global
      <3>1. sel = [live |-> live, news |-> << >>] /\ << >> \in Seq(Message)
        BY <2>1, EmptySeq DEF Selections
      <3>2. sel.live = live /\ sel.news = << >>
        BY <3>1
      <3> QED BY <1>1, <2>1, <3>1, <3>2 DEF BusTypes
    <2>2. CASE to # global /\ to = "daapstt"
      <3>1. PICK e \in Engines : sel = [live |-> e, news |-> FocusIn(e, ctx)]
        BY <1>1, <2>2 DEF Selections
      <3>2. FocusIn(e, ctx) \in Seq(Message) /\ e # None
        BY FocusMessages, ImeAssumption DEF BusTypes
      <3> QED BY <1>1, <2>2, <3>1, <3>2
    <2>3. CASE to # global /\ to # "daapstt"
      <3>1. live \in Engines
        BY <2>3 DEF BusTypes, Methods
      <3>2. sel.live = None /\ sel.news \in {<< >>, FocusOut(live)}
        BY <1>1, <2>3 DEF Selections
      <3>3. sel.news \in Seq(Message)
        BY <3>1, <3>2, FocusMessages
      <3> QED BY <1>1, <2>3, <3>2, <3>3
    <2> QED BY <2>1, <2>2, <2>3
  <1>2. ASSUME Switch
        PROVE  TypeOK'
    <2> DEFINE s == Head(switches)
               Finished(ok) == IF s.epoch = 0 THEN << >>
                               ELSE <<[kind |-> "selected", epoch |-> s.epoch, ok |-> ok]>>
    <2>1. s \in Call /\ Tail(switches) \in Seq(Call) /\ s.to \in Methods /\ s.epoch \in 0..MaxBegins
      <3>1. switches # << >> /\ switches \in Seq(Call)
        BY <1>2 DEF Switch, BusTypes
      <3>2. s \in Call /\ Tail(switches) \in Seq(Call)
        BY <3>1, HeadTailProperties
      <3> QED BY <3>2 DEF Call
    <2>2. Finished(TRUE) \in Seq(Message) /\ Finished(FALSE) \in Seq(Message)
      <3>1. CASE s.epoch = 0
        <4>1. Finished(TRUE) = << >> /\ Finished(FALSE) = << >>
          BY <3>1
        <4> QED BY <4>1, EmptySeq
      <3>2. CASE s.epoch # 0
        <4>1. s.epoch \in Dictations
          BY <2>1, <3>2, ImeAssumption DEF Dictations
        <4> DEFINE End(ok) == [kind |-> "selected", epoch |-> s.epoch, ok |-> ok]
        <4>2. End(TRUE) \in Message /\ End(FALSE) \in Message
          BY <4>1 DEF Message
        <4>3. Finished(TRUE) = <<End(TRUE)>> /\ Finished(FALSE) = <<End(FALSE)>>
          BY <3>2
        <4>4. \A m \in Message : <<m>> \in Seq(Message)
          OBVIOUS
        <4> HIDE DEF End, Finished
        <4> QED BY <4>2, <4>3, <4>4
      <3> QED BY <3>1, <3>2
    <2>3. \/ /\ \E sel \in Selections(s.to) :
                  /\ global' = s.to /\ live' = sel.live
                  /\ news' = news \o sel.news \o Finished(TRUE)
             /\ switches' = Tail(switches)
             /\ UNCHANGED astray
          \/ /\ news' = news \o Finished(FALSE)
             /\ switches' \in {Tail(switches), <<[s EXCEPT !.epoch = 0]>> \o Tail(switches)}
             /\ astray' = TRUE
             /\ UNCHANGED <<global, live>>
      BY <1>2 DEF Switch
    <2> HIDE DEF s, Finished
    <2>4. BusTypes' /\ astray' \in BOOLEAN
      <3>1. ASSUME NEW sel \in Selections(s.to), global' = s.to, live' = sel.live,
                   news' = news \o sel.news \o Finished(TRUE), switches' = Tail(switches)
            PROVE  BusTypes'
        <4>1. sel.news \in Seq(Message) /\ global' \in Methods
              /\ live' \in Engines \cup {None} /\ (live' # None) = (global' = "daapstt")
          BY <1>1, <2>1, <3>1
        <4>2. news' \in Seq(Message)
          BY <2>2, <3>1, <4>1, ConcatProperties DEF BusTypes
        <4> QED BY <1>2, <2>1, <3>1, <4>1, <4>2 DEF Switch, BusTypes
      <3>2. ASSUME news' = news \o Finished(FALSE), UNCHANGED <<global, live>>,
                   switches' \in {Tail(switches), <<[s EXCEPT !.epoch = 0]>> \o Tail(switches)}
            PROVE  BusTypes'
        <4>1. [s EXCEPT !.epoch = 0] \in Call
          BY <2>1, ImeAssumption DEF Call
        <4>2. <<[s EXCEPT !.epoch = 0]>> \in Seq(Call)
          BY <4>1
        <4>3. switches' \in Seq(Call)
          BY <2>1, <3>2, <4>2, ConcatProperties
        <4>4. news' \in Seq(Message)
          BY <2>2, <3>2, ConcatProperties DEF BusTypes
        <4> QED BY <1>2, <3>2, <4>3, <4>4 DEF Switch, BusTypes
      <3> QED BY <2>3, <3>1, <3>2 DEF HistoryTypes
    <2> QED BY <1>2, <2>4 DEF Switch, SocketTypes, BridgeTypes, HistoryTypes
  <1>3. ASSUME UserMoves
        PROVE  TypeOK'
    <2>1. PICK c \in (Contexts \cup {None}) \ {ctx} :
            /\ ctx' = c
            /\ news' = IF global = "daapstt"
                       THEN news \o (IF ctx = None THEN << >> ELSE FocusOut(live)) \o FocusIn(live, c)
                       ELSE news
      BY <1>3 DEF UserMoves
    <2>2. news' \in Seq(Message)
      <3>1. CASE global = "daapstt"
        <4>1. live \in Engines
          BY <3>1 DEF BusTypes
        <4>2. (IF ctx = None THEN << >> ELSE FocusOut(live)) \in Seq(Message)
              /\ FocusIn(live, c) \in Seq(Message)
          BY <4>1, FocusMessages
        <4> QED BY <2>1, <3>1, <4>2, ConcatProperties DEF BusTypes
      <3>2. CASE global # "daapstt"
        BY <2>1, <3>2 DEF BusTypes
      <3> QED BY <3>1, <3>2
    <2>3. fate' \in [Dictations -> Fates]
      BY <1>3 DEF UserMoves, HistoryTypes, Fates
    <2> QED BY <1>3, <2>1, <2>2, <2>3 DEF UserMoves, BusTypes, SocketTypes, BridgeTypes, HistoryTypes
  <1>4. ASSUME UserActs
        PROVE  TypeOK'
    <2>1. PICK kind \in {"key", "reset"} : news' = Append(news, [kind |-> kind, engine |-> live])
      BY <1>4 DEF UserActs
    <2>2. [kind |-> kind, engine |-> live] \in Message
      BY <1>4 DEF UserActs, BusTypes, Message
    <2>3. news' \in Seq(Message)
      BY <2>1, <2>2 DEF BusTypes
    <2> QED BY <1>4, <2>3 DEF UserActs, BusTypes, SocketTypes, BridgeTypes, HistoryTypes
  <1>5. ASSUME UserSelects
        PROVE  TypeOK'
    <2>1. PICK to \in Methods \ {global} :
            /\ chosen' = to
            /\ \E sel \in Selections(to) :
                 global' = to /\ live' = sel.live /\ news' = news \o sel.news
      BY <1>5 DEF UserSelects
    <2>2. PICK sel \in Selections(to) : global' = to /\ live' = sel.live /\ news' = news \o sel.news
      BY <2>1
    <2>3. sel.news \in Seq(Message) /\ global' \in Methods
          /\ live' \in Engines \cup {None} /\ (live' # None) = (global' = "daapstt")
      BY <1>1, <2>2
    <2>4. news' \in Seq(Message)
      BY <2>2, <2>3, ConcatProperties DEF BusTypes
    <2>5. BusTypes'
      BY <1>5, <2>1, <2>3, <2>4 DEF UserSelects, BusTypes
    <2>6. astray' \in BOOLEAN
      BY <1>5 DEF UserSelects, HistoryTypes
    <2> QED BY <1>5, <2>5, <2>6 DEF UserSelects, SocketTypes, BridgeTypes, HistoryTypes
  <1> QED BY <1>2, <1>3, <1>4, <1>5

\* The client keeps the types.
LEMMA ClientTypesStep == TypeOK /\ AnswerInv /\ Client => TypeOK'
  <1> SUFFICES ASSUME TypeOK, AnswerInv
               PROVE  Client => TypeOK'
    OBVIOUS
  <1> USE DEF TypeOK
  <1>1. ASSUME begin
        PROVE  TypeOK'
    <2>1. begins' = begins + 1 /\ begins' \in 0..MaxBegins /\ client \in 0..begins' /\ begins' \in 1..begins'
          /\ 1..begins \subseteq 1..begins'
      BY <1>1, ImeAssumption DEF begin, SocketTypes
    <2>2. backlog \in Seq(1..begins')
      BY <2>1, SeqMonotonic DEF SocketTypes
    <2>3. Append(backlog, begins') \in Seq(1..begins')
      BY <2>1, <2>2
    <2>4. toBridge' \in Seq(Request) /\ toClient' \in Seq(Frame)
      BY <1>1 DEF begin, Request, Operation
    <2>5. SocketTypes'
      BY <1>1, <2>1, <2>3, <2>4 DEF begin, SocketTypes, Operation
    <2> QED BY <1>1, <2>5 DEF begin, BusTypes, BridgeTypes, HistoryTypes
  <1>2. ASSUME request
        PROVE  TypeOK'
    <2>1. PICK op \in {"partial", "commit", "end"} :
            id' = id + 1 /\ toBridge' = Append(toBridge, [id |-> id', op |-> op]) /\ phase' = op
      BY <1>2 DEF request
    <2>2. id' \in Nat /\ [id |-> id', op |-> op] \in Request
      BY <2>1 DEF SocketTypes, Request, Operation
    <2>3. toBridge' \in Seq(Request) /\ phase' \in Operation
      BY <2>1, <2>2 DEF SocketTypes, Operation
    <2> QED BY <1>2, <2>2, <2>3 DEF request, BusTypes, SocketTypes, BridgeTypes, HistoryTypes
  <1>3. /\ \A d, v : verdict' = [verdict EXCEPT ![d] = IF @ = "pending" THEN v ELSE @]
                     /\ v \in {"delivered", "failed"}
                     => verdict' \in [Dictations -> {"pending", "delivered", "failed"}]
        /\ close => phase' = "none" /\ toBridge' \in Seq(Request) /\ toClient' \in Seq(Frame)
    BY EmptySeq DEF HistoryTypes, close
  <1>4. ASSUME response
        PROVE  TypeOK'
    <2>1. toClient # << >> /\ Tail(toClient) \in Seq(Frame)
      BY <1>4, HeadTailProperties DEF response, SocketTypes
    <2>2. phase' \in {"none", "ready"} /\ toBridge' \in Seq(Request) /\ toClient' \in Seq(Frame)
      BY <1>3, <1>4, <2>1 DEF response, SocketTypes
    <2>3. verdict' \in [Dictations -> {"pending", "delivered", "failed"}]
      BY <1>3, <1>4 DEF response, Believe, HistoryTypes
    <2> QED BY <1>4, <2>2, <2>3 DEF response, BusTypes, SocketTypes, BridgeTypes, HistoryTypes
  <1>5. ASSUME disconnected \/ timed_out \/ drop
        PROVE  TypeOK'
    <2>1. phase' = "none" /\ toBridge' \in Seq(Request) /\ toClient' \in Seq(Frame)
      BY <1>3, <1>5 DEF disconnected, timed_out, drop
    <2>2. verdict' \in [Dictations -> {"pending", "delivered", "failed"}]
      BY <1>3, <1>5 DEF disconnected, timed_out, drop, Believe, HistoryTypes
    <2> QED BY <1>5, <2>1, <2>2
            DEF disconnected, timed_out, drop, BusTypes, SocketTypes, BridgeTypes, HistoryTypes
  <1> QED BY <1>1, <1>2, <1>4, <1>5 DEF Client

\* The bridge keeps the types.
LEMMA BridgeTypesStep == TypeOK /\ ClientInv /\ MarkerInv /\ AnswerInv /\ Bridge => TypeOK'
  <1> SUFFICES ASSUME TypeOK, ClientInv, MarkerInv, AnswerInv
               PROVE  Bridge => TypeOK'
    OBVIOUS
  <1> USE DEF TypeOK
  <1>0. /\ starting # None => starting \in Starting /\ starting.previous \in Previous
        /\ session # None => session \in Session /\ session.previous \in Previous
        /\ \A e : Closed(e) \in [Dictations -> Fates]
    BY EffectTypes DEF BridgeTypes, Starting, Session
  <1>1. ASSUME accept
        PROVE  TypeOK'
    <2>1. Head(backlog) \in 1..begins /\ Tail(backlog) \in Seq(1..begins)
      BY <1>1, HeadTailProperties DEF accept, SocketTypes
    <2>2. client' \in 0..begins
      BY <1>1, <2>1 DEF accept, SocketTypes
    <2>3. shut' \in BOOLEAN
      BY <1>1 DEF accept, SocketTypes
    <2> QED BY <1>1, <2>1, <2>2, <2>3 DEF accept, BusTypes, SocketTypes, BridgeTypes, HistoryTypes
  <1>2. ASSUME disconnect
        PROVE  TypeOK'
    <2>1. switches' \in Seq(Call)
      BY <1>0, <1>2, RestoredFacts DEF disconnect, BusTypes
    <2>2. client' \in 0..begins /\ shut' \in BOOLEAN
      BY <1>2 DEF disconnect, SocketTypes
    <2> QED BY <1>0, <1>2, <2>1, <2>2 DEF disconnect, BusTypes, SocketTypes, BridgeTypes, HistoryTypes
  <1>3. ASSUME engine_created
        PROVE  TypeOK'
    <2>1. focused' \in [engine : Engines \cup {None}, context : Contexts \cup {None}]
      BY <1>3 DEF engine_created, BridgeTypes
    <2> QED BY <1>3, <2>1 DEF engine_created, BusTypes, SocketTypes, BridgeTypes, HistoryTypes
  <1>4. ASSUME News
        PROVE  TypeOK'
    <2>1. /\ news # << >> /\ news' = Tail(news) /\ Head(news) \in Message
          /\ FocusHeard(Head(news)) /\ idle' \in BOOLEAN /\ generation' \in [Engines -> Nat]
          /\ (marker' = marker /\ Treated) \/ EndHeard(Head(news))
      BY <1>4, NewsCases
    <2>2. /\ switches' \in Seq(Call) /\ toClient' \in Seq(Frame)
          /\ starting' \in Starting \cup {None} /\ session' \in Session \cup {None}
          /\ fate' \in [Dictations -> Fates]
      BY <2>1, EffectTypes
    <2>3. marker' \in Marker \cup {None}
      BY <2>1 DEF EndHeard, BridgeTypes
    <2>4. focused' \in [engine : Engines \cup {None}, context : Contexts \cup {None}]
      BY <2>1 DEF FocusHeard
    <2>5. news' \in Seq(Message)
      BY <2>1, HeadTailProperties DEF BusTypes
    <2>6. UNCHANGED <<ctx, global, live, chosen, begins, backlog, shut, toBridge, client,
                      handling, phase, id, field, verdict, astray>>
      BY <1>4 DEF News
    <2> QED BY <2>1, <2>2, <2>3, <2>4, <2>5, <2>6 DEF BusTypes, SocketTypes, BridgeTypes, HistoryTypes
  <1>5. ASSUME complete_begin
        PROVE  TypeOK'
    <2>1. idle' = FALSE /\ (((Stands \/ GivesUp) /\ field' = field) \/ Opens)
      BY <1>5, CompleteCases
    <2>2. UNCHANGED <<ctx, global, live, news, chosen, begins, backlog, shut, toBridge,
                      client, marker, focused, generation, handling, phase, id, verdict, astray>>
      BY <1>5 DEF complete_begin
    <2>3. /\ switches' \in Seq(Call) /\ toClient' \in Seq(Frame)
          /\ starting' \in Starting \cup {None} /\ session' \in Session \cup {None}
          /\ fate' \in [Dictations -> Fates]
          /\ field' \in [Dictations -> Contexts \cup {None}]
      <3>1. CASE (Stands \/ GivesUp) /\ field' = field
        BY <3>1, EffectTypes DEF Treated, HistoryTypes
      <3>2. CASE Opens
        <4>1. toClient' \in Seq(Frame)
          BY <3>2, FrameFacts, SentFacts DEF Opens
        <4>2. starting.context \in Contexts
          BY <1>0, <3>2 DEF Opens, Starting
        <4> QED BY <3>2, <4>1, <4>2 DEF Opens, BusTypes, HistoryTypes, Fates
      <3> QED BY <2>1, <3>1, <3>2
    <2>4. BusTypes' /\ SocketTypes'
      BY <2>2, <2>3 DEF BusTypes, SocketTypes
    <2>5. BridgeTypes' /\ HistoryTypes'
      BY <2>1, <2>2, <2>3 DEF BridgeTypes, HistoryTypes
    <2> QED BY <2>4, <2>5
  <1>6. ASSUME timeout_begin
        PROVE  TypeOK'
    <2>1. GivesUp
      BY <1>6 DEF timeout_begin, GivesUp
    <2>2. /\ switches' \in Seq(Call) /\ toClient' \in Seq(Frame)
          /\ starting' \in Starting \cup {None} /\ session' \in Session \cup {None}
      BY <2>1, EffectTypes
    <2> QED BY <1>6, <2>2 DEF timeout_begin, BusTypes, SocketTypes, BridgeTypes, HistoryTypes
  <1> DEFINE Sound ==
          /\ switches' \in Seq(Call) /\ toClient' \in Seq(Frame)
          /\ starting' \in Starting \cup {None} /\ session' \in Session \cup {None}
          /\ marker' \in Marker \cup {None} /\ astray' \in BOOLEAN
          /\ fate' \in [Dictations -> Fates]
  <1>9. ASSUME NEW r \in Nat
        PROVE  /\ Answers(r, FALSE) \/ Answers(r, TRUE) \/ TurnsDown(r) => Sound
               /\ \A ok \in BOOLEAN :
                    Ends(<<Reply(r, ok)>>) /\ fate' \in [Dictations -> Fates] => Sound
    <2>1. <<Reply(r, TRUE)>> \in Seq(Frame) /\ <<Reply(r, FALSE)>> \in Seq(Frame)
          /\ <<Cancelled, Reply(r, FALSE)>> \in Seq(Frame)
      BY FrameFacts
    <2>2. Answers(r, FALSE) \/ Answers(r, TRUE) => Sound
      BY <2>1, SentFacts, ZenonT(60) DEF Answers, BusTypes, BridgeTypes, HistoryTypes
    <2>3. ASSUME NEW frames \in Seq(Frame), Ends(frames), fate' \in [Dictations -> Fates]
          PROVE  Sound
      BY <2>3, EffectTypes DEF Ends, BridgeTypes, HistoryTypes
    <2> HIDE DEF Sound
    <2>4. TurnsDown(r) => Sound
      BY <1>0, <2>1, <2>2, <2>3 DEF TurnsDown
    <2>5. ASSUME NEW ok \in BOOLEAN, Ends(<<Reply(r, ok)>>), fate' \in [Dictations -> Fates]
          PROVE  Sound
      <3>1. <<Reply(r, ok)>> \in Seq(Frame)
        BY FrameFacts
      <3> QED BY <2>3, <2>5, <3>1
    <2> QED BY <2>2, <2>4, <2>5
  <1>7. ASSUME receive
        PROVE  TypeOK'
    <2>1. UNCHANGED <<ctx, global, live, news, chosen, begins, backlog, shut, client,
                      focused, idle, generation, phase, id, field, verdict>>
      BY <1>7 DEF receive
    <2>2. id \in Nat /\ client \in Dictations
      BY <1>7, ReceiveCases, ImeAssumption DEF SocketTypes, Dictations
    <2>3. ASSUME handle_begin
          PROVE  Sound
      <3> DEFINE previous == IF global = "daapstt" THEN None ELSE global
      <3>1. previous \in Previous /\ ctx \in Contexts
        BY <2>3 DEF handle_begin, BusTypes, Methods, Previous
      <3>2. starting' \in Starting /\ marker' \in Marker
        BY <2>2, <2>3, <3>1 DEF handle_begin, Starting, Marker
      <3>3. [to |-> "daapstt", epoch |-> client] \in Call
        BY <2>2 DEF Call, Methods, Dictations
      <3>4. switches' \in Seq(Call)
        BY <2>3, <3>3 DEF handle_begin, BusTypes
      <3>5. astray' \in BOOLEAN
        BY <2>3 DEF handle_begin, HistoryTypes
      <3> QED BY <2>3, <3>2, <3>4, <3>5 DEF handle_begin, SocketTypes, BridgeTypes, HistoryTypes
    <2>4. ASSUME Takes, phase # "begin"
          PROVE  Sound /\ handling' \in Handling
      <3>1. phase \in {"partial", "commit", "end"}
        BY <1>7, <2>4, ReceiveCases DEF Operation
      <3>2. handling' \in Handling
        BY <2>2, <2>4, <3>1 DEF Takes, Handling
      <3>3. fate' \in [Dictations -> Fates]
        BY <2>4 DEF Takes, HistoryTypes, Fates
      <3> QED BY <2>4, <3>2, <3>3 DEF Takes, BusTypes, SocketTypes, BridgeTypes, HistoryTypes
    <2> HIDE DEF Sound
    <2>5. Sound /\ handling' \in Handling \cup {None}
      <3>1. CASE phase = "begin"
        BY <1>7, <1>9, <2>2, <2>3, <3>1, ReceiveCases DEF BridgeTypes
      <3>2. CASE phase # "begin"
        BY <1>7, <1>9, <2>2, <2>4, <3>2, ReceiveCases DEF TurnsDown
      <3> QED BY <3>1, <3>2
    <2>6. toBridge' \in Seq(Request)
      BY <1>7, ReceiveCases, EmptySeq
    <2> QED BY <2>1, <2>5, <2>6 DEF Sound, BusTypes, SocketTypes, BridgeTypes, HistoryTypes
  <1>10. ASSUME handle
         PROVE  TypeOK'
    <2>1. UNCHANGED <<ctx, global, live, news, chosen, begins, backlog, shut, toBridge, client,
                      focused, idle, generation, phase, id, field, verdict>>
      BY <1>10 DEF handle
    <2>2. handling \in Handling /\ handling.id \in Nat
      BY <1>10, HandleCases DEF BridgeTypes, Handling
    <2>3. [fate EXCEPT ![client] = IF ctx = field[client] THEN "inserted" ELSE "misplaced"]
             \in [Dictations -> Fates]
      BY DEF HistoryTypes, Fates
    <2>4. CASE GoesOn
      <3>1. handling' \in Handling
        BY <2>2, <2>4 DEF GoesOn, Handling
      <3> QED BY <2>1, <2>4, <3>1 DEF GoesOn, BusTypes, SocketTypes, BridgeTypes, HistoryTypes
    <2> HIDE DEF Sound
    <2>5. CASE ~GoesOn
      <3>1. handling' = None /\ Sound
        BY <1>0, <1>9, <1>10, <2>2, <2>3, <2>5, HandleCases DEF TurnsDown
      <3> QED BY <2>1, <3>1 DEF Sound, BusTypes, SocketTypes, BridgeTypes, HistoryTypes
    <2> QED BY <2>4, <2>5
  <1>8. ASSUME bridge_ends
        PROVE  TypeOK'
    <2>1. PICK frames \in Farewells : toClient' = Sent(frames)
      BY <1>8 DEF bridge_ends
    <2>2. toClient' \in Seq(Frame)
      <3>1. frames \in Seq(Frame)
        BY FrameFacts, ZenonT(60) DEF Farewells
      <3> QED BY <2>1, <3>1, SentFacts
    <2>3. switches' \in Seq(Call)
      <3>1. ASSUME NEW calls \in Seq(Call)
            PROVE  Unheard(calls) \in Seq(Call)
        <4>1. Len(calls) \in Nat /\ DOMAIN calls = 1..Len(calls)
          BY LenProperties
        <4>2. \A i \in 1..Len(calls) : [calls[i] EXCEPT !.epoch = 0] \in Call
          <5> SUFFICES ASSUME NEW i \in 1..Len(calls)
                       PROVE  [calls[i] EXCEPT !.epoch = 0] \in Call
            OBVIOUS
          <5>1. calls[i] \in Call
            BY ElementOfSeq
          <5> QED BY <5>1, ImeAssumption DEF Call
        <4> DEFINE call(i) == [calls[i] EXCEPT !.epoch = 0]
        <4>3. \A i \in 1..Len(calls) : call(i) \in Call
          BY <4>2
        <4> HIDE DEF call
        <4>4. [i \in 1..Len(calls) |-> call(i)] \in Seq(Call)
          BY <4>1, <4>3, IsASeq
        <4> QED BY <4>1, <4>4 DEF call, Unheard
      <3>2. switches \in Seq(Call)
        BY DEF BusTypes
      <3>3. /\ starting # None => Restored(starting.previous) \in Seq(Call)
            /\ session # None => Restored(session.previous) \in Seq(Call)
        BY <1>0, RestoredFacts
      <3>4. switches' \in Testament
        BY <1>8 DEF bridge_ends
      <3> QED BY <3>1, <3>2, <3>3, <3>4 DEF Testament
    <2>4. BusTypes'
      <3>1. CASE global' = "other" /\ live' = None /\ news' = << >>
        BY <1>8, <2>3, <3>1, EmptySeq DEF bridge_ends, BusTypes, Methods
      <3>2. CASE global = "daapstt" /\ global' = global
                 /\ \E e \in Engines : live' = e /\ news' = FocusIn(e, ctx)
        <4>1. PICK e \in Engines : live' = e /\ news' = FocusIn(e, ctx)
          BY <3>2
        <4>2. news' \in Seq(Message) /\ live' # None
          BY <4>1, FocusMessages, ImeAssumption DEF BusTypes
        <4> QED BY <1>8, <2>3, <3>2, <4>1, <4>2 DEF bridge_ends, BusTypes
      <3> QED BY <1>8, <3>1, <3>2 DEF bridge_ends
    <2>5. SocketTypes'
      BY <1>8, <2>2, EmptySeq DEF bridge_ends, SocketTypes
    <2>6. BridgeTypes' /\ HistoryTypes'
      BY <1>8 DEF bridge_ends, BridgeTypes, HistoryTypes, Nobody, Fates
    <2> QED BY <2>4, <2>5, <2>6
  <1> QED BY <1>1, <1>2, <1>3, <1>4, <1>5, <1>6, <1>7, <1>8, <1>10 DEF Bridge, Callback

LEMMA TypeStep == TypeOK /\ ClientInv /\ MarkerInv /\ AnswerInv /\ [Next]_vars => TypeOK'
  <1> SUFFICES ASSUME TypeOK, ClientInv, MarkerInv, AnswerInv, [Next]_vars
               PROVE  TypeOK'
    OBVIOUS
  <1>1. CASE Next
    BY <1>1, BusTypesStep, ClientTypesStep, BridgeTypesStep DEF Next, User
  <1>2. CASE UNCHANGED vars
    BY <1>2 DEF vars, TypeOK, BusTypes, SocketTypes, BridgeTypes, HistoryTypes
  <1> QED BY <1>1, <1>2

-----------------------------------------------------------------------------
(* Whose begin and session they are.                                        *)

\* What an effect of the bridge does to the begin, the session and the fates.
LEMMA ClientInvEffect ==
  ASSUME TypeOK, ClientInv, UNCHANGED <<client, begins, toBridge, phase, field>>, handling' = None,
         Treated \/ GivesUp \/ \E n \in Message : EndHeard(n)
  PROVE  ClientInv'
  <1>0. client # 0 => client \in Dictations /\ client \in DOMAIN fate
    BY ImeAssumption DEF TypeOK, SocketTypes, HistoryTypes, Dictations
  <1>1. CASE Stands
    BY <1>1 DEF Stands, ClientInv
  <1>2. CASE Proceeds
    BY <1>2 DEF Proceeds, ClientInv
  <1>3. CASE GivesUp
    BY <1>3 DEF GivesUp, abort_begin, ClientInv
  <1>4. CASE Drops
    <2>1. session # None /\ session' = None /\ fate' = Closed(client) /\ starting' = starting /\ starting = None
      BY <1>4 DEF Drops, invalidate, ClientInv
    <2>2. \A d \in Dictations : /\ fate[d] \notin UnderWay => fate'[d] = fate[d]
                                /\ fate'[d] \notin UnderWay
      BY <1>0, <2>1 DEF Closed, TypeOK, HistoryTypes, ClientInv
    <2>3. \A d \in Dictations : d > begins => fate'[d] = "unborn"
      BY <2>2 DEF ClientInv
    <2>4. toBridge # << >> /\ phase = "begin" => fate'[begins] = "unborn"
      BY <2>1 DEF ClientInv, Closed, TypeOK, HistoryTypes
    <2> QED BY <2>1, <2>2, <2>3, <2>4 DEF ClientInv
  <1>5. ASSUME NEW n \in Message, EndHeard(n)
        PROVE  Stands \/ Proceeds \/ GivesUp \/ (UNCHANGED <<starting, session, fate>>)
    BY <1>5 DEF EndHeard
  <1>6. CASE UNCHANGED <<starting, session, fate>>
    BY <1>6 DEF ClientInv
  <1> QED BY <1>1, <1>2, <1>3, <1>4, <1>5, <1>6 DEF Treated

\* The session ends with the answer to a request.
LEMMA ClientInvEnds ==
  ASSUME TypeOK, ClientInv, UNCHANGED <<client, begins, phase, field>>, handling' = None,
         toBridge' = << >> \/ UNCHANGED toBridge,
         NEW frames, Ends(frames), NEW f \in Given,
         fate' = [fate EXCEPT ![client] = f] \/ fate' = Closed(client)
  PROVE  ClientInv'
  <1>1. session # None /\ session' = None /\ starting' = starting /\ starting = None
    BY DEF Ends, invalidate, ClientInv
  <1>2. client \in Dictations /\ fate[client] \in UnderWay
    BY <1>1, ImeAssumption DEF ClientInv, TypeOK, SocketTypes, Dictations
  <1>3. \A d \in Dictations : /\ d # client => fate'[d] = fate[d]
                              /\ fate'[d] \notin UnderWay
    BY <1>2 DEF Closed, TypeOK, HistoryTypes, ClientInv
  <1>4. \A d \in Dictations : d > begins => d # client
    BY DEF TypeOK, SocketTypes, Dictations
  <1>5. toBridge # << >> /\ phase = "begin" => begins # client
    BY <1>2 DEF ClientInv
  <1>6. toBridge' # << >> /\ phase' = "begin" => fate'[begins'] = "unborn"
    <2>1. begins \in Dictations
      BY <1>2, ImeAssumption DEF TypeOK, SocketTypes, Dictations
    <2> QED BY <1>3, <1>5, <2>1 DEF ClientInv
  <1> QED BY <1>1, <1>3, <1>4, <1>6 DEF ClientInv

LEMMA ClientInvStep == TypeOK /\ ClientInv /\ MarkerInv /\ AnswerInv /\ [Next]_vars => ClientInv'
  <1> SUFFICES ASSUME TypeOK, ClientInv, MarkerInv, AnswerInv, [Next]_vars
               PROVE  ClientInv'
    OBVIOUS
  <1>0. /\ client # 0 => client \in Dictations /\ client <= begins
        /\ begins \in Nat /\ client \in Nat /\ begins <= MaxBegins
        /\ \A d \in Dictations : d \in Nat
    BY ImeAssumption DEF TypeOK, SocketTypes, Dictations
  <1>1. CASE Switch \/ UserActs \/ UserSelects \/ UNCHANGED vars
    BY <1>1 DEF Switch, UserActs, UserSelects, vars, ClientInv
  <1>14. CASE UserMoves
    <2>1. \A d \in Dictations : /\ fate'[d] \in UnderWay <=> fate[d] \in UnderWay
                                /\ fate[d] = "unborn" => fate'[d] = "unborn"
      BY <1>14 DEF UserMoves
    <2>2. UNCHANGED <<client, begins, toBridge, phase, field, starting, session, handling>>
      BY <1>14 DEF UserMoves
    <2>3. toBridge # << >> /\ phase = "begin" => begins \in Dictations
      BY <1>0, ImeAssumption DEF AnswerInv, Dictations
    <2> QED BY <1>0, <2>1, <2>2, <2>3 DEF ClientInv
  <1>2. CASE begin
    <2>1. /\ begins' = begins + 1 /\ begins' \in Dictations /\ fate[begins'] = "unborn" /\ client # begins'
      BY <1>0, <1>2, ImeAssumption DEF begin, ClientInv, Dictations
    <2>2. \A d \in Dictations : d > begins' => d > begins
      BY <1>0, <2>1
    <2>3. UNCHANGED <<client, starting, session, handling, fate, field>>
      BY <1>2 DEF begin
    <2> QED BY <2>1, <2>2, <2>3 DEF ClientInv
  <1>3. CASE request
    BY <1>3 DEF request, ClientInv
  <1>4. CASE response
    <2>1. UNCHANGED <<client, starting, session, handling, fate, field, begins>>
      BY <1>4 DEF response
    <2>2. toBridge' = << >> \/ phase' = "ready"
      BY <1>4 DEF response, close
    <2> QED BY <2>1, <2>2 DEF ClientInv
  <1>5. CASE disconnected \/ timed_out \/ drop
    BY <1>5 DEF disconnected, timed_out, drop, close, ClientInv
  <1>6. CASE accept
    <2>1. UNCHANGED <<starting, session, handling, fate, field, begins, toBridge, phase>>
          /\ (client' = client \/ client = 0)
      BY <1>6 DEF accept
    <2>2. client = 0 => starting = None /\ session = None
      BY DEF ClientInv
    <2> QED BY <2>1, <2>2 DEF ClientInv
  <1>7. CASE handling = None /\ disconnect
    <2>1. /\ starting' = None /\ session' = None /\ client' = 0 /\ fate' = Closed(client) /\ client \in Dictations
          /\ UNCHANGED <<begins, toBridge, phase, field>> /\ handling' = None
      BY <1>0, <1>7 DEF disconnect
    <2>2. \A d \in Dictations : /\ fate[d] \notin UnderWay => fate'[d] = fate[d]
                                /\ fate'[d] \notin UnderWay
      BY <2>1 DEF Closed, TypeOK, HistoryTypes, ClientInv
    <2>3. toBridge # << >> => begins \in Dictations
      BY <1>0, ImeAssumption DEF AnswerInv, Dictations, Operation
    <2> QED BY <2>1, <2>2, <2>3 DEF ClientInv
  <1>8. CASE engine_created
    BY <1>8 DEF engine_created, ClientInv
  <1>9. CASE handling = None /\ News
    <2>1. UNCHANGED <<client, begins, toBridge, phase, field>> /\ handling' = None
      BY <1>9 DEF News
    <2>2. Treated \/ \E n \in Message : EndHeard(n)
      BY <1>9, NewsCases DEF TypeOK
    <2> QED BY <2>1, <2>2, ClientInvEffect
  <1>10. CASE handling = None /\ complete_begin
    <2>1. UNCHANGED <<client, begins, toBridge, phase>> /\ handling' = None
      BY <1>10 DEF complete_begin
    <2>2. CASE (Stands \/ GivesUp) /\ field' = field
      BY <2>1, <2>2, ClientInvEffect DEF Treated
    <2>3. CASE Opens
      <3>1. /\ starting # None /\ client \in Dictations /\ starting.epoch = client
            /\ session' \in Session /\ session'.context = starting.context /\ starting' = None
            /\ fate' = [fate EXCEPT ![client] = "open"]
            /\ field' = [field EXCEPT ![client] = starting.context]
        BY <1>0, <2>3 DEF Opens
      <3>2. session = None /\ fate[client] = "unborn" /\ \A d \in Dictations : fate[d] \notin UnderWay
        BY <3>1 DEF ClientInv
      <3>3. fate'[client] = "open" /\ field'[client] = session'.context
            /\ \A d \in Dictations : d # client => fate'[d] = fate[d]
        BY <3>1 DEF TypeOK, HistoryTypes
      <3>4. session' # None
        BY <3>1, ImeAssumption
      <3>5. client' = client /\ client # 0 /\ \A d \in Dictations : d > begins => d # client
        BY <1>0, <2>1, <3>1 DEF Dictations
      <3>6. toBridge # << >> /\ phase = "begin" => client # begins /\ begins \in Dictations
        BY <1>0, <3>1, ImeAssumption DEF ClientInv, AnswerInv, Dictations
      <3> QED BY <2>1, <3>1, <3>2, <3>3, <3>4, <3>5, <3>6 DEF ClientInv
    <2> QED BY <1>10, <2>2, <2>3, CompleteCases DEF TypeOK
  <1>11. CASE handling = None /\ timeout_begin
    <2>1. UNCHANGED <<client, begins, toBridge, phase, field>> /\ handling' = None /\ GivesUp
      BY <1>11 DEF timeout_begin, GivesUp
    <2> QED BY <2>1, ClientInvEffect
  <1>12. CASE handling = None /\ receive
    <2>1. UNCHANGED <<client, begins, phase, field>>
      BY <1>12 DEF receive
    <2>2. /\ client # 0 /\ client = begins /\ toBridge' = << >> /\ toBridge # << >>
      BY <1>12, ReceiveCases DEF receive
    <2>3. CASE Answers(id, FALSE) /\ handling' = None
      BY <2>1, <2>2, <2>3 DEF Answers, ClientInv
    <2>4. CASE phase = "begin" /\ handle_begin /\ UNCHANGED handling
      <3>1. /\ session = None /\ session' = None /\ UNCHANGED fate
            /\ starting'.epoch = client
        BY <2>4 DEF handle_begin
      <3>2. fate[client] = "unborn"
        BY <2>2, <2>4 DEF ClientInv
      <3> QED BY <1>12, <2>1, <2>2, <2>4, <3>1, <3>2 DEF ClientInv
    <2>5. CASE handling' = None /\ fate' = Closed(client) /\ \E frames : Ends(frames)
      BY <2>1, <2>2, <2>5, ClientInvEnds
    <2>6. CASE Takes
      <3>1. UNCHANGED <<starting, session>> /\ session # None /\ starting = None
            /\ (fate' = fate \/ fate' = [fate EXCEPT ![client] = "confirmed"])
        BY <2>6 DEF Takes, ClientInv
      <3>2. client \in Dictations /\ fate[client] \in UnderWay
        BY <1>0, <3>1 DEF ClientInv
      <3>3. \A d \in Dictations : /\ fate'[d] \in UnderWay <=> fate[d] \in UnderWay
                                  /\ fate[d] = "unborn" => fate'[d] = "unborn"
        BY <3>1, <3>2 DEF TypeOK, HistoryTypes
      <3> QED BY <2>1, <2>2, <3>1, <3>2, <3>3 DEF ClientInv
    <2> QED BY <1>12, <2>3, <2>4, <2>5, <2>6, ReceiveCases DEF TurnsDown
  <1>15. CASE handle
    <2>1. UNCHANGED <<client, begins, phase, field, toBridge>>
      BY <1>15 DEF handle
    <2>2. CASE GoesOn
      BY <2>1, <2>2, HandleCases, <1>15 DEF GoesOn, ClientInv
    <2>3. CASE handling' = None /\ \E r, ok : Answers(r, ok)
      BY <2>1, <2>3 DEF Answers, ClientInv
    <2>4. CASE /\ handling' = None /\ \E frames : Ends(frames)
               /\ \/ fate' = Closed(client)
                  \/ fate' = [fate EXCEPT ![client] = IF ctx = field[client] THEN "inserted"
                                                      ELSE "misplaced"]
      <3>1. fate' = Closed(client) \/ \E f \in Given : fate' = [fate EXCEPT ![client] = f]
        BY <2>4
      <3> QED BY <2>1, <2>4, <3>1, ClientInvEnds
    <2> QED BY <1>15, <2>2, <2>3, <2>4, HandleCases DEF TurnsDown
  <1>13. CASE bridge_ends
    <2>1. /\ starting' = None /\ session' = None /\ client' = 0 /\ toBridge' = << >>
          /\ begins' = begins /\ handling' = None
          /\ fate' = [d \in Dictations |-> IF fate[d] \in UnderWay THEN "closed" ELSE fate[d]]
      BY <1>13 DEF bridge_ends
    <2>2. \A d \in Dictations : /\ fate[d] \notin UnderWay => fate'[d] = fate[d]
                                /\ fate'[d] \notin UnderWay
      BY <2>1 DEF TypeOK, HistoryTypes
    <2> QED BY <2>1, <2>2 DEF ClientInv
  <1> QED BY <1>1, <1>2, <1>3, <1>4, <1>5, <1>6, <1>7, <1>8, <1>9, <1>10, <1>11, <1>12, <1>13, <1>14, <1>15
          DEF Next, User, Client, Bridge, Callback

-----------------------------------------------------------------------------
(* The commit the bridge is at.                                             *)

\* Fates that change only in a way that tells nothing of a commit.
LEMMA HandlingInvOver ==
  ASSUME handling' = None,
         \A d \in Dictations : fate'[d] = fate[d] \/ fate'[d] \notin {"confirmed", "strayed"},
         \A d \in Dictations : fate[d] \in {"confirmed", "strayed"} =>
                                  fate'[d] \notin {"confirmed", "strayed"}
  PROVE  HandlingInv'
  BY DEF HandlingInv

LEMMA HandlingInvStep ==
  TypeOK /\ ClientInv /\ HandlingInv /\ MarkerInv /\ AnswerInv /\ [Next]_vars => HandlingInv'
  <1> SUFFICES ASSUME TypeOK, ClientInv, HandlingInv, MarkerInv, AnswerInv, [Next]_vars
               PROVE  HandlingInv'
    OBVIOUS
  <1>0. /\ client # 0 => client \in Dictations
        /\ session # None => client \in Dictations
        /\ handling # None => client \in Dictations
    BY ImeAssumption DEF TypeOK, SocketTypes, Dictations, ClientInv
  <1>1. CASE Switch \/ UserActs \/ UserSelects \/ Client \/ UNCHANGED vars
    <2>1. UNCHANGED <<handling, client, fate, field, ctx>>
      BY <1>1 DEF Switch, UserActs, UserSelects, Client, begin, request, response, disconnected,
                  timed_out, drop, vars
    <2> QED BY <2>1 DEF HandlingInv
  <1>2. CASE UserMoves
    <2>1. /\ UNCHANGED <<handling, client>>
          /\ \A d \in Dictations : /\ fate'[d] # "confirmed"
                                   /\ fate'[d] = "strayed" <=> fate[d] \in {"confirmed", "strayed"}
      BY <1>2 DEF UserMoves
    <2> QED BY <1>0, <2>1 DEF HandlingInv
  <1>3. ASSUME handling = None
        PROVE  \A d \in Dictations : fate[d] \notin {"confirmed", "strayed"}
    BY <1>3 DEF HandlingInv
  <1>4. \A d \in Dictations : Closed(client)[d] \in {fate[d], "closed"}
    BY DEF Closed, TypeOK, HistoryTypes
  <1>5. ASSUME handling = None, handling' = None,
               fate' = fate \/ fate' = Closed(client) \/ fate' = [fate EXCEPT ![client] = "open"]
        PROVE  HandlingInv'
    <2>1. \A d \in Dictations : fate'[d] \in {fate[d], "closed", "open"}
      BY <1>4, <1>5 DEF TypeOK, HistoryTypes
    <2> QED BY <1>3, <1>5, <2>1, HandlingInvOver
  <1>6. CASE handling = None /\ (accept \/ disconnect \/ engine_created \/ timeout_begin)
    BY <1>5, <1>6 DEF accept, disconnect, engine_created, timeout_begin
  <1>7. ASSUME Treated \/ GivesUp \/ \E n \in Message : EndHeard(n)
        PROVE  fate' = fate \/ fate' = Closed(client)
    BY <1>7 DEF Treated, Stands, Proceeds, GivesUp, Drops, EndHeard
  <1>8. CASE handling = None /\ News
    <2>1. Treated \/ \E n \in Message : EndHeard(n)
      BY <1>8, NewsCases DEF TypeOK
    <2> QED BY <1>5, <1>7, <1>8, <2>1 DEF News
  <1>9. CASE handling = None /\ complete_begin
    BY <1>5, <1>7, <1>9, CompleteCases DEF TypeOK, Treated, Opens, complete_begin
  <1>10. CASE handling = None /\ receive
    <2>1. CASE phase # "begin" /\ Takes
      <3>1. session # None /\ ctx = session.context /\ field[client] = ctx /\ client \in Dictations
        BY <1>0, <2>1 DEF Takes, InField, ClientInv
      <3>2. handling' # None /\ handling'.op = phase /\ UNCHANGED <<client, ctx, field>>
        <4>1. /\ handling' = [id |-> id, op |-> phase, next |-> "ask"] /\ phase \in Operation
              /\ phase # "begin" /\ id \in Nat
          BY <1>10, <2>1, ReceiveCases DEF Takes, TypeOK, SocketTypes
        <4>2. handling' \in Handling
          BY <4>1 DEF Handling, Operation
        <4> QED BY <1>10, <4>1, <4>2, ImeAssumption DEF receive
      <3>3. fate' = IF phase = "commit" THEN [fate EXCEPT ![client] = "confirmed"] ELSE fate
        BY <2>1 DEF Takes
      <3>4. phase = "commit" => fate'[client] = "confirmed"
        BY <3>1, <3>3 DEF TypeOK, HistoryTypes
      <3>5. \A d \in Dictations : fate'[d] \in {"confirmed", "strayed"} => d = client /\ phase = "commit"
        BY <1>3, <1>10, <3>3 DEF TypeOK, HistoryTypes
      <3> QED BY <3>1, <3>2, <3>4, <3>5 DEF HandlingInv
    <2>2. CASE ~(phase # "begin" /\ Takes)
      <3>1. handling' = None /\ (fate' = fate \/ fate' = Closed(client))
        BY <1>10, <2>2, ReceiveCases DEF Answers, handle_begin, TurnsDown
      <3> QED BY <1>5, <1>10, <3>1
    <2> QED BY <2>1, <2>2
  <1>11. CASE handle
    <2>1. UNCHANGED <<client, ctx, field>> /\ handling # None /\ client \in Dictations /\ session # None
      BY <1>0, <1>11, HandleCases DEF handle
    <2>2. CASE GoesOn
      <3>1. handling \in Handling
        BY <2>1 DEF TypeOK, BridgeTypes
      <3>2. handling' \in Handling /\ handling'.op = handling.op
        BY <2>2, <3>1 DEF GoesOn, Handling
      <3> QED BY <2>1, <2>2, <3>2, ImeAssumption DEF GoesOn, HandlingInv
    <2>3. fate[client] \in UnderWay /\ \A d \in Dictations : d # client => fate[d] \notin UnderWay
      BY <2>1 DEF ClientInv
    <2>4. CASE /\ handling' = None
               /\ \/ fate' = Closed(client)
                  \/ fate' = [fate EXCEPT ![client] = IF ctx = field[client] THEN "inserted"
                                                      ELSE "misplaced"]
      <3>1. \A d \in Dictations : /\ d # client => fate'[d] = fate[d]
                                  /\ fate'[client] \in {"closed", "inserted", "misplaced"}
        BY <2>1, <2>3, <2>4 DEF Closed, TypeOK, HistoryTypes
      <3> QED BY <2>3, <2>4, <3>1, HandlingInvOver
    <2>5. CASE handling' = None /\ handling.op = "partial" /\ fate' = fate
      <3>1. \A d \in Dictations : fate[d] \notin {"confirmed", "strayed"}
        BY <2>5 DEF HandlingInv
      <3> QED BY <2>5, <3>1, HandlingInvOver
    <2> QED BY <1>11, <2>1, <2>2, <2>4, <2>5, HandleCases DEF TurnsDown, Answers
  <1>12. CASE bridge_ends
    <2>1. \A d \in Dictations : fate'[d] = IF fate[d] \in UnderWay THEN "closed" ELSE fate[d]
      BY <1>12 DEF bridge_ends
    <2> QED BY <1>12, <2>1, HandlingInvOver DEF bridge_ends
  <1> QED BY <1>1, <1>2, <1>6, <1>8, <1>9, <1>10, <1>11, <1>12 DEF Next, User, Bridge, Callback

-----------------------------------------------------------------------------
(* The marker and the end of its selection.                                 *)

\* A call put back at the front.
LEMMA CallPutBack ==
  ASSUME NEW calls \in Seq(Call), NEW call \in Call, call.epoch = 0, NEW e
  PROVE  /\ Unheeded(calls) => Unheeded(<<call>> \o calls)
         /\ OneHeeded(calls, e) => OneHeeded(<<call>> \o calls, e)
  <1>0. SUFFICES ASSUME NEW one \in Seq(Call), one = <<call>>
                 PROVE  /\ Unheeded(calls) => Unheeded(one \o calls)
                        /\ OneHeeded(calls, e) => OneHeeded(one \o calls, e)
    <2>1. <<call>> \in Seq(Call)
      OBVIOUS
    <2> QED BY <2>1
  <1> DEFINE both == one \o calls
             n == Len(one)
  <1>1. /\ \A i \in DOMAIN one : i \in DOMAIN both /\ both[i] = one[i]
        /\ \A i \in DOMAIN calls : i \in Nat \ {0} /\ n + i \in DOMAIN both /\ both[n + i] = calls[i]
        /\ \A k \in DOMAIN both : k \in DOMAIN one \/ \E i \in DOMAIN calls : k = n + i
    BY ConcatFacts, SMTT(40)
  <1> HIDE DEF both
  <1>2. /\ \A i \in DOMAIN calls : i \in Nat /\ 1 + i \in DOMAIN both /\ both[1 + i] = calls[i]
        /\ \A k \in DOMAIN both : k = 1 \/ \E i \in DOMAIN calls : k = 1 + i
        /\ both[1] = call
    <2>1. Len(one) = 1 /\ DOMAIN one = {1} /\ one[1] = call
      BY <1>0
    <2> QED BY <1>1, <2>1
  <1>3. Unheeded(calls) => Unheeded(both)
    BY <1>2 DEF Unheeded
  <1>4. ASSUME NEW i \in DOMAIN calls, calls[i].epoch = e,
               \A k \in DOMAIN calls : k # i => calls[k].epoch = 0
        PROVE  OneHeeded(both, e)
    <2>1. 1 + i \in DOMAIN both /\ both[1 + i].epoch = e
      BY <1>2, <1>4
    <2>2. ASSUME NEW k \in DOMAIN both, k # 1 + i
          PROVE  both[k].epoch = 0
      <3>1. CASE k = 1
        BY <1>2, <3>1
      <3>2. CASE k # 1
        <4>1. PICK j \in DOMAIN calls : k = 1 + j
          BY <1>2, <3>2
        <4>2. j # i /\ both[k] = calls[j]
          BY <1>2, <2>2, <4>1
        <4> QED BY <1>4, <4>2
      <3> QED BY <3>1, <3>2
    <2> QED BY <2>1, <2>2 DEF OneHeeded
  <1> QED BY <1>3, <1>4 DEF OneHeeded, both

\* What IBus does next: with the oldest call of the bridge, and what it tells the bridge.
LEMMA SwitchCases ==
  ASSUME BusTypes, Switch
  PROVE  \E s \in Call, told \in Seq(Message), more \in Seq(Message) :
           /\ switches # << >> /\ s = Head(switches)
           /\ s.epoch = 0 => told = << >> /\ Untold(told) /\ Successes(told)
           /\ s.epoch # 0 => OneTold(told, s.epoch)
           /\ Untold(more) /\ Successes(more) /\ news' = (news \o more) \o told
           /\ \A e : Settled(told, e)
           /\ \/ /\ switches' = Tail(switches) /\ global' = s.to /\ astray' = astray /\ Successes(told)
                 /\ \/ s.to = global /\ live' = live /\ more = << >>
                    \/ s.to = "daapstt" /\ global # s.to /\ live' \in Engines /\ more = FocusIn(live', ctx)
                    \/ s.to # "daapstt"
              \/ /\ UNCHANGED <<global, live>> /\ astray' /\ more = << >>
                 /\ switches' = Tail(switches) \/ switches' = <<[s EXCEPT !.epoch = 0]>> \o Tail(switches)
  <1> DEFINE s == Head(switches)
             Finished(ok) == IF s.epoch = 0 THEN << >>
                             ELSE <<[kind |-> "selected", epoch |-> s.epoch, ok |-> ok]>>
  <1>1. switches # << >> /\ s \in Call /\ s.to \in Methods /\ s.epoch \in 0..MaxBegins
    <2>1. switches # << >> /\ switches \in Seq(Call)
      BY DEF Switch, BusTypes
    <2>2. s \in Call
      BY <2>1, HeadTailProperties
    <2> QED BY <2>1, <2>2 DEF Call
  <1>2. ASSUME NEW ok \in BOOLEAN
        PROVE  /\ Finished(ok) \in Seq(Message)
               /\ s.epoch = 0 => Finished(ok) = << >> /\ Untold(Finished(ok)) /\ Successes(Finished(ok))
               /\ s.epoch # 0 => OneTold(Finished(ok), s.epoch)
               /\ ok => Successes(Finished(ok))
               /\ \A e : Settled(Finished(ok), e)
    <2>1. CASE s.epoch = 0
      <3>1. Finished(ok) = << >> /\ DOMAIN << >> = {}
        BY <2>1
      <3> QED BY <2>1, <3>1, EmptySeq DEF Untold, Successes, Settled
    <2>2. CASE s.epoch # 0
      <3> DEFINE m == [kind |-> "selected", epoch |-> s.epoch, ok |-> ok]
      <3>1. s.epoch \in Dictations
        BY <1>1, <2>2, ImeAssumption DEF Dictations
      <3>2. m \in Message /\ m.kind = "selected" /\ m.epoch = s.epoch /\ m.ok = ok
        BY <3>1 DEF Message
      <3>3. Finished(ok) = <<m>>
        BY <2>2
      <3> HIDE DEF m, Finished
      <3> QED BY <2>2, <3>2, <3>3, OtherMessages
    <2> QED BY <2>1, <2>2
  <1>3. \/ /\ \E sel \in Selections(s.to) :
                /\ global' = s.to /\ live' = sel.live
                /\ news' = news \o sel.news \o Finished(TRUE)
           /\ switches' = Tail(switches)
           /\ UNCHANGED astray
        \/ /\ news' = news \o Finished(FALSE)
           /\ switches' \in {Tail(switches), <<[s EXCEPT !.epoch = 0]>> \o Tail(switches)}
           /\ astray' = TRUE
           /\ UNCHANGED <<global, live>>
    BY DEF Switch
  <1> HIDE DEF s, Finished
  <1>4. /\ << >> \in Seq(Message) /\ Untold(<< >>) /\ Successes(<< >>)
        /\ \A m \in Seq(Message) : m \o << >> = m
    <2>1. DOMAIN << >> = {}
      OBVIOUS
    <2> QED BY <2>1, EmptySeq, ConcatEmptySeq DEF Untold, Successes
  <1>5. ASSUME NEW sel \in Selections(s.to), global' = s.to, live' = sel.live,
               news' = news \o sel.news \o Finished(TRUE),
               switches' = Tail(switches), UNCHANGED astray
        PROVE  \E more \in Seq(Message) :
                 /\ Untold(more) /\ Successes(more) /\ news' = (news \o more) \o Finished(TRUE)
                 /\ \/ s.to = global /\ live' = live /\ more = << >>
                    \/ s.to = "daapstt" /\ global # s.to /\ live' \in Engines /\ more = FocusIn(live', ctx)
                    \/ s.to # "daapstt"
    <2>1. CASE s.to = global
      <3>1. sel = [live |-> live, news |-> << >>]
        BY <2>1 DEF Selections
      <3>2. sel.live = live /\ sel.news = << >>
        BY <3>1
      <3> QED BY <1>4, <1>5, <2>1, <3>2
    <2>2. CASE s.to # global /\ s.to = "daapstt"
      <3>1. PICK e \in Engines : sel = [live |-> e, news |-> FocusIn(e, ctx)]
        BY <2>2 DEF Selections
      <3>2. sel.live = e /\ sel.news = FocusIn(e, ctx)
        BY <3>1
      <3>3. FocusIn(e, ctx) \in Seq(Message) /\ Untold(FocusIn(e, ctx)) /\ Successes(FocusIn(e, ctx))
        BY FocusMessages DEF BusTypes
      <3> QED BY <1>5, <2>2, <3>2, <3>3
    <2>3. CASE s.to # global /\ s.to # "daapstt"
      <3>1. live \in Engines
        BY <1>1, <2>3 DEF BusTypes, Methods
      <3>2. sel.news \in {<< >>, FocusOut(live)}
        BY <2>3 DEF Selections
      <3>3. sel.news \in Seq(Message) /\ Untold(sel.news) /\ Successes(sel.news)
        BY <1>4, <3>1, <3>2, FocusMessages
      <3> QED BY <1>5, <2>3, <3>3
    <2> QED BY <2>1, <2>2, <2>3
  <1>6. news \o << >> = news
    BY <1>4 DEF BusTypes
  <1>7. CASE \E sel \in Selections(s.to) :
               /\ global' = s.to /\ live' = sel.live /\ news' = news \o sel.news \o Finished(TRUE)
               /\ switches' = Tail(switches) /\ UNCHANGED astray
    <2>1. PICK more \in Seq(Message) :
             /\ Untold(more) /\ Successes(more) /\ news' = (news \o more) \o Finished(TRUE)
             /\ \/ s.to = global /\ live' = live /\ more = << >>
                \/ s.to = "daapstt" /\ global # s.to /\ live' \in Engines /\ more = FocusIn(live', ctx)
                \/ s.to # "daapstt"
      BY <1>5, <1>7
    <2>2. Finished(TRUE) \in Seq(Message)
      BY <1>2
    <2> QED BY <1>1, <1>2, <1>7, <2>1, <2>2 DEF s
  <1>8. CASE /\ news' = news \o Finished(FALSE)
             /\ switches' \in {Tail(switches), <<[s EXCEPT !.epoch = 0]>> \o Tail(switches)}
             /\ astray' = TRUE
             /\ UNCHANGED <<global, live>>
    <2>1. Finished(FALSE) \in Seq(Message)
      BY <1>2
    <2> QED BY <1>1, <1>2, <1>4, <1>6, <1>8, <2>1 DEF s
  <1> QED BY <1>3, <1>7, <1>8

\* What the user makes IBus tell the bridge.
LEMMA UserCases ==
  ASSUME BusTypes, UserMoves \/ UserActs \/ UserSelects
  PROVE  \E more \in Seq(Message) : Untold(more) /\ Successes(more) /\ news' = news \o more
  <1>1. /\ << >> \in Seq(Message) /\ Untold(<< >>) /\ Successes(<< >>) /\ news \o << >> = news
    <2>1. DOMAIN << >> = {}
      OBVIOUS
    <2> QED BY <2>1, EmptySeq, ConcatEmptySeq DEF Untold, Successes, BusTypes
  <1>2. CASE UserMoves
    <2>1. PICK c \in (Contexts \cup {None}) \ {ctx} :
            news' = IF global = "daapstt"
                    THEN news \o (IF ctx = None THEN << >> ELSE FocusOut(live)) \o FocusIn(live, c)
                    ELSE news
      BY <1>2 DEF UserMoves
    <2>2. CASE global = "daapstt"
      <3> DEFINE out == IF ctx = None THEN << >> ELSE FocusOut(live)
      <3>1. live \in Engines
        BY <2>2 DEF BusTypes
      <3>2. out \in Seq(Message) /\ Untold(out) /\ Successes(out)
        BY <1>1, <3>1, FocusMessages
      <3>3. FocusIn(live, c) \in Seq(Message) /\ Untold(FocusIn(live, c)) /\ Successes(FocusIn(live, c))
        BY <3>1, FocusMessages
      <3>4. news' = (news \o out) \o FocusIn(live, c)
        BY <2>1, <2>2
      <3> HIDE DEF out
      <3>5. news' = news \o (out \o FocusIn(live, c))
        BY <3>2, <3>3, <3>4, ConcatAssociative DEF BusTypes
      <3>6. out \o FocusIn(live, c) \in Seq(Message)
        BY <3>2, <3>3, ConcatProperties
      <3>7. Untold(out \o FocusIn(live, c)) /\ Successes(out \o FocusIn(live, c))
        BY <3>2, <3>3, MessagesWithMore
      <3> QED BY <3>5, <3>6, <3>7
    <2>3. CASE global # "daapstt"
      BY <1>1, <2>1, <2>3
    <2> QED BY <2>2, <2>3
  <1>3. CASE UserActs
    <2>1. PICK kind \in {"key", "reset"} : news' = Append(news, [kind |-> kind, engine |-> live])
      BY <1>3 DEF UserActs
    <2> DEFINE m == [kind |-> kind, engine |-> live]
    <2>2. m \in Message /\ m.kind \in {"key", "reset"}
      BY <1>3 DEF UserActs, BusTypes, Message
    <2>3. news' = news \o <<m>>
      BY <2>1, <2>2 DEF BusTypes
    <2> HIDE DEF m
    <2> QED BY <2>2, <2>3, OtherMessages
  <1>4. CASE UserSelects
    <2>1. PICK to \in Methods \ {global} :
             \E sel \in Selections(to) :
               global' = to /\ live' = sel.live /\ news' = news \o sel.news
      BY <1>4 DEF UserSelects
    <2>2. PICK sel \in Selections(to) : news' = news \o sel.news
      BY <2>1
    <2>3. CASE to = "daapstt"
      <3>1. PICK e \in Engines : sel = [live |-> e, news |-> FocusIn(e, ctx)]
        BY <2>1, <2>3 DEF Selections
      <3>2. sel.news = FocusIn(e, ctx)
        BY <3>1
      <3> QED BY <2>2, <3>2, FocusMessages DEF BusTypes
    <2>4. CASE to # "daapstt"
      <3>1. live \in Engines
        BY <2>1, <2>4 DEF BusTypes, Methods
      <3>2. sel.news \in {<< >>, FocusOut(live)}
        BY <2>1, <2>4 DEF Selections
      <3> QED BY <1>1, <2>2, <3>1, <3>2, FocusMessages
    <2> QED BY <2>3, <2>4
  <1> QED BY <1>2, <1>3, <1>4

\* A dead bridge's calls end unheard.
LEMMA TestamentUnheeded ==
  ASSUME TypeOK, bridge_ends
  PROVE  Unheeded(switches') /\ (switches = << >> /\ starting = None /\ session = None => switches' = << >>)
  <1>1. switches' \in Testament
    BY DEF bridge_ends
  <1>2. ASSUME NEW calls \in Seq(Call), switches' = Unheard(calls)
        PROVE  Unheeded(switches')
    <2>1. DOMAIN switches' = DOMAIN calls
      BY <1>2 DEF Unheard
    <2>2. ASSUME NEW i \in DOMAIN calls
          PROVE  switches'[i].epoch = 0
      <3>1. calls[i] \in Call
        BY LenProperties, ElementOfSeq
      <3> QED BY <1>2, <3>1 DEF Unheard, Call
    <2> QED BY <2>1, <2>2 DEF Unheeded
  <1>3. Unheard(<< >>) = << >>
    BY DEF Unheard
  <1>4. /\ switches \in Seq(Call)
        /\ starting # None => Restored(starting.previous) \in Seq(Call)
        /\ session # None => Restored(session.previous) \in Seq(Call)
    BY RestoredFacts DEF TypeOK, BusTypes, BridgeTypes, Starting, Session
  <1> QED BY <1>1, <1>2, <1>3, <1>4 DEF Testament

LEMMA MarkerInvStep == TypeOK /\ ClientInv /\ MarkerInv /\ AnswerInv /\ [Next]_vars => MarkerInv'
  <1> SUFFICES ASSUME TypeOK, ClientInv, MarkerInv, AnswerInv, [Next]_vars
               PROVE  MarkerInv'
    OBVIOUS
  <1>0. /\ BusTypes /\ switches \in Seq(Call) /\ news \in Seq(Message)
        /\ starting # None => starting.previous \in Previous
        /\ session # None => session.previous \in Previous
        /\ marker # None => marker.previous \in Previous /\ marker.epoch # 0 /\ marker.epoch \in Dictations
    BY ImeAssumption DEF TypeOK, BusTypes, BridgeTypes, Starting, Session, Marker, Dictations
  <1>1. CASE Switch
    <2>1. UNCHANGED <<marker, starting, session>>
      BY <1>1 DEF Switch
    <2>2. PICK s \in Call, told \in Seq(Message), more \in Seq(Message) :
            /\ switches # << >> /\ s = Head(switches)
            /\ s.epoch = 0 => told = << >> /\ Untold(told) /\ Successes(told)
            /\ s.epoch # 0 => OneTold(told, s.epoch)
            /\ Untold(more) /\ Successes(more) /\ news' = (news \o more) \o told
            /\ \A e : Settled(told, e)
            /\ \/ switches' = Tail(switches)
               \/ switches' = <<[s EXCEPT !.epoch = 0]>> \o Tail(switches)
      BY <1>0, <1>1, SwitchCases, ZenonT(60)
    <2>3. Tail(switches) \in Seq(Call) /\ news \o more \in Seq(Message)
          /\ [s EXCEPT !.epoch = 0] \in Call /\ [s EXCEPT !.epoch = 0].epoch = 0
      <3>1. Tail(switches) \in Seq(Call)
        BY <1>0, <2>2, HeadTailProperties
      <3>2. news \o more \in Seq(Message)
        BY <1>0, ConcatProperties
      <3>3. [s EXCEPT !.epoch = 0] \in Call /\ [s EXCEPT !.epoch = 0].epoch = 0
        BY ImeAssumption DEF Call
      <3> QED BY <3>1, <3>2, <3>3
    <2>4. \A e : /\ Unheeded(Tail(switches)) => Unheeded(switches')
                 /\ OneHeeded(Tail(switches), e) => OneHeeded(switches', e)
      BY <2>2, <2>3, CallPutBack
    <2>5. /\ Unheeded(switches) => s.epoch = 0 /\ Unheeded(Tail(switches))
          /\ \A e : e # 0 => /\ OneHeeded(switches, e) /\ s.epoch = 0 => OneHeeded(Tail(switches), e)
                             /\ OneHeeded(switches, e) /\ s.epoch # 0
                                => s.epoch = e /\ Unheeded(Tail(switches))
      <3>1. 1 # 0
        OBVIOUS
      <3>2. Unheeded(switches) => s.epoch = 0 /\ Unheeded(Tail(switches))
        BY <1>0, <2>2, <3>1, CallsAfterOne
      <3>3. ASSUME NEW e, e # 0
            PROVE  /\ OneHeeded(switches, e) /\ s.epoch = 0 => OneHeeded(Tail(switches), e)
                   /\ OneHeeded(switches, e) /\ s.epoch # 0 => s.epoch = e /\ Unheeded(Tail(switches))
        BY <1>0, <2>2, <3>3, CallsAfterOne
      <3> QED BY <3>2, <3>3
    <2>6. \A e : /\ Untold(news) => Untold(news \o more)
                 /\ OneTold(news, e) => OneTold(news \o more, e)
      BY <1>0, <2>2, MessagesWithMore
    <2>7. /\ Untold(news) /\ s.epoch = 0 => Untold(news')
          /\ Untold(news) /\ s.epoch # 0 => OneTold(news', s.epoch)
          /\ \A e : OneTold(news, e) /\ s.epoch = 0 => OneTold(news', e)
      <3> DEFINE first == news \o more
      <3>1. first \in Seq(Message) /\ news' = first \o told
        BY <2>2, <2>3
      <3> HIDE DEF first
      <3>2. \A e : /\ Untold(first) /\ Untold(told) => Untold(first \o told)
                   /\ Untold(first) /\ OneTold(told, e) => OneTold(first \o told, e)
                   /\ OneTold(first, e) /\ Untold(told) => OneTold(first \o told, e)
        BY <3>1, MessagesWithMore
      <3> QED BY <2>2, <2>6, <3>1, <3>2 DEF first
    <2>8. CASE marker = None
      BY <2>1, <2>4, <2>5, <2>7, <2>8 DEF MarkerInv
    <2>9. CASE marker # None /\ OneHeeded(switches, marker.epoch) /\ Untold(news)
      BY <1>0, <2>1, <2>4, <2>5, <2>7, <2>9 DEF MarkerInv
    <2>10. CASE marker # None /\ Unheeded(switches) /\ OneTold(news, marker.epoch)
      BY <1>0, <2>1, <2>4, <2>5, <2>7, <2>10 DEF MarkerInv
    <2> QED BY <2>8, <2>9, <2>10 DEF MarkerInv
  <1>2. CASE UserMoves \/ UserActs \/ UserSelects
    <2>1. UNCHANGED <<marker, starting, session, switches>>
      BY <1>2 DEF UserMoves, UserActs, UserSelects
    <2>2. PICK more \in Seq(Message) : Untold(more) /\ news' = news \o more
      BY <1>0, <1>2, UserCases
    <2>3. \A e : /\ Untold(news) => Untold(news')
                 /\ OneTold(news, e) => OneTold(news', e)
      BY <1>0, <2>2, MessagesWithMore
    <2> QED BY <2>1, <2>3 DEF MarkerInv
  <1>3. CASE Client \/ accept \/ engine_created \/ UNCHANGED vars
    <2>1. UNCHANGED <<marker, starting, session, switches, news>>
      BY <1>3 DEF Client, begin, request, response, disconnected, timed_out, drop, accept,
                  engine_created, vars
    <2> QED BY <2>1 DEF MarkerInv
  <1>4. \A p \in Previous : /\ Unheeded(switches) => Unheeded(Restored(p))
                            /\ \A e : OneHeeded(switches, e) => OneHeeded(Restored(p), e)
    BY <1>0, RestoredFacts
  <1>5. ASSUME GivesUp \/ (\E frames : session # None /\ invalidate(frames) /\ UNCHANGED starting),
               UNCHANGED marker
        PROVE  /\ marker' # None => session' = None /\ starting' = None
               /\ Unheeded(switches) => Unheeded(switches')
               /\ \A e : OneHeeded(switches, e) => OneHeeded(switches', e)
    <2>1. CASE GivesUp
      <3>1. switches' = Restored(starting.previous) /\ starting' = None /\ session' = None /\ starting # None
        BY <2>1 DEF GivesUp, abort_begin, ClientInv
      <3> QED BY <1>0, <1>4, <3>1
    <2>2. CASE \E frames : session # None /\ invalidate(frames) /\ UNCHANGED starting
      <3>1. switches' = Restored(session.previous) /\ starting' = None /\ session' = None /\ session # None
        BY <2>2 DEF invalidate, ClientInv
      <3> QED BY <1>0, <1>4, <3>1
    <2> QED BY <1>5, <2>1, <2>2
  <1>6. CASE disconnect
    <2>1. UNCHANGED <<marker, news>> /\ starting' = None /\ session' = None
          /\ switches' = IF starting # None THEN Restored(starting.previous)
                         ELSE IF session # None THEN Restored(session.previous)
                         ELSE switches
      BY <1>6 DEF disconnect
    <2>2. /\ Unheeded(switches) => Unheeded(switches')
          /\ \A e : OneHeeded(switches, e) => OneHeeded(switches', e)
      BY <1>0, <1>4, <2>1
    <2> QED BY <2>1, <2>2 DEF MarkerInv
  <1>7. CASE News
    <2>1. /\ news # << >> /\ news' = Tail(news)
          /\ \/ /\ Head(news).kind # "selected" /\ marker' = marker /\ Treated
             \/ Head(news).kind = "selected" /\ EndHeard(Head(news))
      BY <1>7, NewsCases DEF TypeOK
    <2>2. /\ Untold(news) => Head(news).kind # "selected" /\ Untold(news')
          /\ \A e : /\ OneTold(news, e) /\ Head(news).kind # "selected" => OneTold(news', e)
                    /\ OneTold(news, e) /\ Head(news).kind = "selected" => Untold(news')
      BY <1>0, <2>1, MessagesAfterOne
    <2>3. CASE Head(news).kind # "selected" /\ marker' = marker /\ Treated
      <3>1. CASE Stands \/ (Proceeds /\ starting'.selected = starting.selected)
        <4>1. UNCHANGED <<switches, session>>
              /\ (starting' # None => /\ starting # None /\ starting'.epoch = starting.epoch
                                      /\ starting'.selected = starting.selected
                                      /\ starting'.previous = starting.previous)
          BY <3>1 DEF Stands, Proceeds
        <4> QED BY <2>2, <2>3, <4>1 DEF MarkerInv
      <3>2. CASE GivesUp \/ Drops
        <4>1. /\ marker' # None => session' = None /\ starting' = None
              /\ Unheeded(switches) => Unheeded(switches')
              /\ \A e : OneHeeded(switches, e) => OneHeeded(switches', e)
          BY <1>5, <2>3, <3>2 DEF Drops
        <4> QED BY <2>2, <2>3, <4>1 DEF MarkerInv
      <3> QED BY <2>3, <3>1, <3>2 DEF Treated
    <2>4. CASE Head(news).kind = "selected" /\ EndHeard(Head(news))
      <3>1. marker # None /\ marker' = None
        BY <2>4 DEF EndHeard
      <3>2. Unheeded(switches) /\ Untold(news')
        BY <2>2, <2>4, <3>1 DEF MarkerInv
      <3>3. Unheeded(switches')
        BY <1>0, <1>4, <2>4, <3>2 DEF EndHeard, GivesUp, abort_begin, Proceeds
      <3> QED BY <3>1, <3>2, <3>3 DEF MarkerInv
    <2> QED BY <2>1, <2>3, <2>4
  <1>8. CASE complete_begin
    <2>1. UNCHANGED <<marker, news>>
      BY <1>8 DEF complete_begin
    <2>2. CASE Stands
      BY <2>1, <2>2 DEF Stands, MarkerInv
    <2>3. CASE GivesUp
      BY <1>5, <2>1, <2>3 DEF MarkerInv
    <2>4. CASE Opens
      <3>1. marker = None /\ UNCHANGED switches
        BY <2>4 DEF Opens, MarkerInv
      <3> QED BY <2>1, <3>1 DEF MarkerInv
    <2> QED BY <1>8, <2>2, <2>3, <2>4, CompleteCases DEF TypeOK
  <1>9. CASE timeout_begin
    <2>1. UNCHANGED <<marker, news>> /\ GivesUp
      BY <1>9 DEF timeout_begin, GivesUp
    <2> QED BY <1>5, <2>1 DEF MarkerInv
  <1>12. ASSUME (\E frames : Ends(frames)) \/ (\E r, ok : Answers(r, ok)), UNCHANGED news
         PROVE  MarkerInv'
    <2>1. CASE \E r, ok : Answers(r, ok)
      BY <1>12, <2>1 DEF Answers, MarkerInv
    <2>2. CASE \E frames : Ends(frames)
      <3>1. UNCHANGED marker /\ \E frames : session # None /\ invalidate(frames) /\ UNCHANGED starting
        BY <2>2 DEF Ends
      <3> QED BY <1>5, <1>12, <3>1 DEF MarkerInv
    <2> QED BY <1>12, <2>1, <2>2
  <1>13. CASE handle
    <2>1. UNCHANGED news
      BY <1>13 DEF handle
    <2>2. CASE GoesOn
      BY <2>1, <2>2 DEF GoesOn, MarkerInv
    <2> QED BY <1>12, <1>13, <2>1, <2>2, HandleCases DEF TurnsDown
  <1>10. CASE receive
    <2>1. UNCHANGED news
      BY <1>10 DEF receive
    <2>2. CASE Takes
      BY <2>1, <2>2 DEF Takes, MarkerInv
    <2>3. CASE handle_begin
      <3> DEFINE call == [to |-> "daapstt", epoch |-> client]
                 previous == IF global = "daapstt" THEN None ELSE global
      <3>1. /\ marker = None /\ session' = None /\ switches' = Append(switches, call)
            /\ starting' = [epoch |-> client, context |-> ctx, previous |-> previous,
                            selected |-> FALSE, engine |-> None, generation |-> 0]
            /\ marker' = [epoch |-> client, previous |-> previous]
        BY <2>3 DEF handle_begin
      <3>2. client \in Dictations
        BY <1>10, ReceiveCases, ImeAssumption DEF TypeOK, SocketTypes, Dictations
      <3>3. call \in Call /\ call.epoch = client
        BY <3>2 DEF Call, Methods, Dictations
      <3>4. marker' \in Marker /\ marker' # None
        <4>1. marker' # None
          <5>1. previous \in Previous
            BY DEF TypeOK, BusTypes, Methods, Previous
          <5>2. marker' \in Marker
            BY <3>1, <3>2, <5>1 DEF Marker
          <5> QED BY <5>2, ImeAssumption
        <4> QED BY <3>1, <3>2, <4>1 DEF Marker, TypeOK, BusTypes, Methods, Previous
      <3> HIDE DEF call
      <3>5. OneHeeded(switches', client)
        BY <1>0, <3>1, <3>3, CallsWithOne DEF MarkerInv
      <3>6. /\ starting'.epoch = marker'.epoch /\ ~starting'.selected /\ marker'.epoch = client
            /\ starting'.previous = marker'.previous
        BY <3>1
      <3> QED BY <2>1, <3>1, <3>4, <3>5, <3>6 DEF MarkerInv
    <2> QED BY <1>10, <1>12, <2>1, <2>2, <2>3, ReceiveCases DEF TurnsDown
  <1>11. CASE bridge_ends
    <2>1. marker' = None /\ Unheeded(switches')
      BY <1>11, TestamentUnheeded DEF bridge_ends
    <2>2. Untold(news')
      BY <1>11, FocusMessages DEF bridge_ends, Untold, TypeOK, BusTypes
    <2> QED BY <2>1, <2>2 DEF MarkerInv
  <1> QED BY <1>1, <1>2, <1>3, <1>6, <1>7, <1>8, <1>9, <1>10, <1>11, <1>13
          DEF Next, User, Bridge, Callback

-----------------------------------------------------------------------------
(* The client and its answers.                                              *)

\* A step of the bridge that answers nothing with success.
LEMMA NoSuccess ==
  ASSUME TypeOK, AnswerInv, UNCHANGED <<phase, id, begins>>, toBridge' \in {toBridge, << >>},
         \A f \in ToSet(toClient') : f \in ToSet(toClient) \/ ~f.ok,
         \/ handling' = None
         \/ UNCHANGED <<handling, client>>
         \/ UNCHANGED client /\ handling # None /\ handling'.op = handling.op /\ handling'.id = handling.id,
         phase \in {"ready", "begin", "partial"} /\ Learns => Learns',
         phase = "commit" /\ fate[begins] \in Given => fate'[begins] \in Given
  PROVE  AnswerInv'
  <1>1. Answered' => Answered
    BY DEF Answered, Accepts
  <1>2. \A f \in ToSet(toClient') : f.ok => f.id <= id'
    BY DEF AnswerInv
  <1>3. toBridge' # << >> => phase' \in Operation /\ toBridge' = <<[id |-> id', op |-> phase']>> /\ ~Answered'
    BY <1>1 DEF AnswerInv
  <1>4. /\ phase' = "ready" => Learns'
        /\ phase' \in {"begin", "partial"} /\ Answered' => Learns'
        /\ phase' = "commit" /\ Answered' => fate'[begins'] \in Given
    BY <1>1 DEF AnswerInv
  <1>5. /\ phase' # "none" => begins' # 0 /\ id' # 0
        /\ phase' = "begin" => id' = 1
        /\ phase' \in Operation \ {"begin"} => id' > 1
    BY DEF AnswerInv
  <1>6. AtHand' => phase' = handling'.op /\ id' = handling'.id /\ toBridge' = << >> /\ ~Answered'
    BY <1>1 DEF AnswerInv, AtHand
  <1> QED BY <1>2, <1>3, <1>4, <1>5, <1>6 DEF AnswerInv

\* What the client does not get to know of an effect of the bridge.
LEMMA AnswerEffect ==
  ASSUME TypeOK, ClientInv, AnswerInv,
         UNCHANGED <<client, begins, toBridge, phase, id, shut, handling>>,
         Treated \/ GivesUp \/ \E n \in Message : EndHeard(n)
  PROVE  AnswerInv'
  <1> USE DEF TypeOK
  <1>1. /\ Reply(1, FALSE).ok = FALSE /\ Cancelled.ok = FALSE
        /\ <<Reply(1, FALSE)>> \in Seq(Frame) /\ <<Cancelled>> \in Seq(Frame)
        /\ ToSet(<<Reply(1, FALSE)>>) = {Reply(1, FALSE)} /\ ToSet(<<Cancelled>>) = {Cancelled}
    BY FrameFacts, SmallSets
  <1>2. CASE UNCHANGED <<toClient, session, fate>>
    BY <1>2, NoSuccess DEF Learns, Held
  <1>3. CASE GivesUp
    <2>1. /\ session = None /\ UNCHANGED <<session, fate>>
          /\ toClient' = Sent(<<Reply(1, FALSE)>>) \/ toClient' = toClient
      BY <1>3 DEF GivesUp, abort_begin, ClientInv
    <2>2. /\ ToSet(toClient) \subseteq ToSet(toClient')
          /\ \A f \in ToSet(toClient') : f \in ToSet(toClient) \/ f = Reply(1, FALSE)
      BY <1>1, <2>1, OneSent
    <2> QED BY <1>1, <2>1, <2>2, NoSuccess DEF Learns, Held
  <1>4. CASE Drops
    <2>1. session # None /\ toClient' = Sent(<<Cancelled>>) /\ fate' = Closed(client)
      BY <1>4 DEF Drops, invalidate
    <2>2. /\ ToSet(toClient) \subseteq ToSet(toClient')
          /\ \A f \in ToSet(toClient') : f \in ToSet(toClient) \/ f = Cancelled
          /\ client = begins /\ phase # "none" => Cancelled \in ToSet(toClient')
      BY <1>1, <2>1, OneSent
    <2>3. phase \in {"ready", "begin", "partial"} /\ Learns => Learns'
      BY <2>2 DEF Learns, Held
    <2>4. phase = "commit" /\ fate[begins] \in Given => fate'[begins] \in Given
      BY <2>1 DEF Closed, HistoryTypes
    <2> QED BY <1>1, <2>2, <2>3, <2>4, NoSuccess
  <1>5. ASSUME NEW n \in Message, EndHeard(n)
        PROVE  GivesUp \/ UNCHANGED <<toClient, session, fate>>
    BY <1>5 DEF EndHeard, Proceeds
  <1> QED BY <1>2, <1>3, <1>4, <1>5 DEF Treated, Stands, Proceeds

\* The client's own steps.
LEMMA AnswerClient == TypeOK /\ AnswerInv /\ Client => AnswerInv'
  <1> SUFFICES ASSUME TypeOK, AnswerInv
               PROVE  Client => AnswerInv'
    OBVIOUS
  <1>0. ToSet(<< >>) = {}
    BY DEF ToSet
  <1>1. ASSUME close, id' = id
        PROVE  AnswerInv'
    <2>1. phase' = "none" /\ toBridge' = << >> /\ ToSet(toClient') = {}
      BY <1>0, <1>1 DEF close
    <2> QED BY <2>1 DEF AnswerInv, AtHand, Operation
  <1>2. ASSUME begin
        PROVE  AnswerInv'
    <2>1. /\ phase' = "begin" /\ id' = 1 /\ begins' # 0 /\ ToSet(toClient') = {}
          /\ toBridge' = <<[id |-> id', op |-> phase']>>
      BY <1>0, <1>2, ImeAssumption DEF begin, TypeOK, SocketTypes
    <2>2. ~AtHand'
      BY <1>2, ImeAssumption DEF begin, AtHand, TypeOK, SocketTypes
    <2> QED BY <2>1, <2>2 DEF AnswerInv, Operation, Answered
  <1>3. ASSUME request
        PROVE  AnswerInv'
    <2>1. PICK op \in {"partial", "commit", "end"} :
            id' = id + 1 /\ toBridge' = Append(toBridge, [id |-> id', op |-> op]) /\ phase' = op
      BY <1>3 DEF request
    <2>2. toBridge = << >> /\ begins # 0 /\ id # 0 /\ id \in Nat /\ UNCHANGED <<toClient, begins>>
      BY <1>3 DEF request, AnswerInv, Operation, TypeOK, SocketTypes
    <2>3. toBridge' = <<[id |-> id', op |-> phase']>>
      BY <2>1, <2>2
    <2>4. \A f \in ToSet(toClient') : f.ok => f.id <= id' /\ f.id # id'
      <3> SUFFICES ASSUME NEW f \in ToSet(toClient), f.ok
                   PROVE  f.id <= id' /\ f.id # id'
        BY <2>2
      <3>1. f \in Frame
        BY LenProperties, ElementOfSeq DEF ToSet, TypeOK, SocketTypes
      <3>2. f.id \in Nat /\ f.id <= id
        BY <3>1 DEF AnswerInv, Frame
      <3> QED BY <2>1, <2>2, <3>2
    <2>5. ~Answered'
      BY <2>4 DEF Answered, Accepts
    <2>6. id' > 1 /\ id' # 0
      BY <2>1, <2>2
    <2>7. ~AtHand'
      <3>1. handling # None => handling.op # "ready"
        BY DEF TypeOK, BridgeTypes, Handling
      <3> QED BY <1>3, <3>1 DEF request, AnswerInv, AtHand
    <2> QED BY <2>1, <2>2, <2>3, <2>4, <2>5, <2>6, <2>7 DEF AnswerInv, Operation
  <1>4. ASSUME response
        PROVE  AnswerInv'
    <2>1. CASE close
      BY <1>1, <1>4, <2>1 DEF response
    <2>2. CASE ~close
      <3>1. /\ toClient # << >> /\ Accepts(Head(toClient)) /\ phase \in {"begin", "partial"}
            /\ phase' = "ready" /\ toClient' = Tail(toClient)
            /\ UNCHANGED <<toBridge, begins, shut, client, session, id, handling>>
        BY <1>4, <2>2 DEF response
      <3>2. /\ Head(toClient) \in ToSet(toClient) /\ ToSet(toClient') \subseteq ToSet(toClient)
            /\ ToSet(toClient) \subseteq {Head(toClient)} \cup ToSet(toClient')
        BY <3>1, Members DEF TypeOK, SocketTypes
      <3>3. Learns /\ toBridge = << >>
        BY <3>1, <3>2 DEF AnswerInv, Answered
      <3>4. Head(toClient) # Cancelled
        BY <3>1 DEF Accepts, Cancelled
      <3>5. Learns'
        BY <3>1, <3>2, <3>3, <3>4 DEF Learns, Held, Cancelled
      <3>6. ~AtHand'
        BY <3>1, <3>2 DEF AnswerInv, AtHand, Answered
      <3> QED BY <3>1, <3>2, <3>3, <3>5, <3>6 DEF AnswerInv, Operation
    <2> QED BY <2>1, <2>2
  <1>5. ASSUME disconnected \/ timed_out \/ drop
        PROVE  AnswerInv'
    BY <1>1, <1>5 DEF disconnected, timed_out, drop
  <1> QED BY <1>2, <1>3, <1>4, <1>5 DEF Client

\* A session opens: whoever is told has it.
LEMMA AnswerOpens ==
  ASSUME TypeOK, ClientInv, AnswerInv, Opens, handling' = None,
         UNCHANGED <<client, begins, toBridge, phase, id, shut>>
  PROVE  AnswerInv'
  <1> USE DEF TypeOK
  <1>1. /\ Reply(1, TRUE).ok = TRUE /\ Reply(1, TRUE).id = 1 /\ <<Reply(1, TRUE)>> \in Seq(Frame)
        /\ ToSet(<<Reply(1, TRUE)>>) = {Reply(1, TRUE)}
    BY FrameFacts, SmallSets
  <1>2. /\ starting # None /\ session = None /\ session' # None /\ client # 0 /\ fate[client] = "unborn"
        /\ toClient' = Sent(<<Reply(1, TRUE)>>) /\ fate' = [fate EXCEPT ![client] = "open"]
    BY ImeAssumption DEF Opens, ClientInv
  <1>3. CASE client = begins /\ phase # "none"
    <2>1. ToSet(toClient') = ToSet(toClient) \cup {Reply(1, TRUE)}
      BY <1>1, <1>2, <1>3, SentFacts
    <2>2. Learns'
      BY <1>2, <1>3 DEF Learns, Held
    <2>3. 1 <= id /\ begins # 0 /\ id \in Nat
      BY <1>3 DEF AnswerInv, SocketTypes
    <2>4. \A f \in ToSet(toClient') : f.ok => f.id <= id'
      BY <1>1, <2>1, <2>3 DEF AnswerInv
    <2>5. ASSUME phase \in Operation \ {"begin"}, Answered'
          PROVE  Answered
      <3>1. PICK f \in ToSet(toClient') : f.id = id /\ f.ok
        BY <2>5 DEF Answered, Accepts
      <3>2. id # 1
        BY <2>3, <2>5 DEF AnswerInv
      <3>3. f \in ToSet(toClient)
        BY <1>1, <2>1, <3>1, <3>2
      <3> QED BY <3>1, <3>3 DEF Answered, Accepts
    <2>6. toBridge # << >> => phase # "begin"
      BY <1>2, <1>3 DEF ClientInv
    <2>7. phase = "commit" => ~Answered'
      BY <1>2, <1>3, <2>5 DEF AnswerInv, Operation
    <2>8. /\ toBridge' # << >> => /\ phase' \in Operation /\ toBridge' = <<[id |-> id', op |-> phase']>>
                                  /\ ~Answered'
      BY <2>5, <2>6 DEF AnswerInv
    <2>9. /\ phase' # "none" => begins' # 0 /\ id' # 0
          /\ phase' = "begin" => id' = 1
          /\ phase' \in Operation \ {"begin"} => id' > 1
      BY DEF AnswerInv
    <2> QED BY <2>2, <2>4, <2>7, <2>8, <2>9 DEF AnswerInv, AtHand
  <1>4. CASE ~(client = begins /\ phase # "none")
    <2>1. toClient' = toClient
      BY <1>1, <1>2, <1>4, SentFacts
    <2>2. phase = "commit" /\ fate[begins] \in Given => fate'[begins] \in Given
      BY <1>2, <1>4 DEF HistoryTypes
    <2>3. Learns => Learns'
      BY <1>2, <2>1 DEF Learns, Held
    <2> QED BY <2>1, <2>2, <2>3, NoSuccess
  <1> QED BY <1>3, <1>4

\* The frames of an answer, and whom they reach.
LEMMA AnswerFrames ==
  ASSUME TypeOK, NEW r \in Nat
  PROVE  /\ Reply(r, TRUE).ok = TRUE /\ Reply(r, TRUE).id = r
         /\ Reply(r, FALSE).ok = FALSE /\ Cancelled.ok = FALSE
         /\ client = begins /\ phase # "none" =>
              /\ ToSet(Sent(<<Reply(r, TRUE)>>)) = ToSet(toClient) \cup {Reply(r, TRUE)}
              /\ ToSet(Sent(<<Reply(r, FALSE)>>)) = ToSet(toClient) \cup {Reply(r, FALSE)}
              /\ ToSet(Sent(<<Cancelled, Reply(r, FALSE)>>))
                    = ToSet(toClient) \cup {Cancelled, Reply(r, FALSE)}
         /\ ~(client = begins /\ phase # "none") => \A ok \in BOOLEAN :
              /\ Sent(<<Reply(r, ok)>>) = toClient
              /\ Sent(<<Cancelled, Reply(r, ok)>>) = toClient
  <1>1. /\ Reply(r, TRUE).ok = TRUE /\ Reply(r, TRUE).id = r /\ Reply(r, FALSE).ok = FALSE
        /\ Cancelled.ok = FALSE
        /\ <<Reply(r, TRUE)>> \in Seq(Frame) /\ <<Reply(r, FALSE)>> \in Seq(Frame)
        /\ <<Cancelled, Reply(r, FALSE)>> \in Seq(Frame)
        /\ ToSet(<<Reply(r, TRUE)>>) = {Reply(r, TRUE)}
        /\ ToSet(<<Reply(r, FALSE)>>) = {Reply(r, FALSE)}
        /\ ToSet(<<Cancelled, Reply(r, FALSE)>>) = {Cancelled, Reply(r, FALSE)}
    BY FrameFacts, SmallSets
  <1>2. ~(client = begins /\ phase # "none") => \A ok \in BOOLEAN :
              Sent(<<Reply(r, ok)>>) = toClient /\ Sent(<<Cancelled, Reply(r, ok)>>) = toClient
    BY DEF Sent
  <1> QED BY <1>1, <1>2, SentFacts DEF TypeOK

\* The client is told that its request failed.
LEMMA AnswerFailure ==
  ASSUME TypeOK, AnswerInv, handling' = None, UNCHANGED <<begins, phase, id>>,
         toBridge' = << >>, client = begins, phase \in Operation, ~Answered,
         \/ toClient' = Sent(<<Reply(id, FALSE)>>)
         \/ toClient' = Sent(<<Cancelled, Reply(id, FALSE)>>)
  PROVE  AnswerInv'
  <1>1. id \in Nat /\ phase # "none" /\ phase # "ready"
    BY DEF TypeOK, SocketTypes, Operation
  <1>2. \A f \in ToSet(toClient') : f \in ToSet(toClient) \/ ~f.ok
    BY <1>1, AnswerFrames
  <1>3. ~Answered' /\ \A f \in ToSet(toClient') : f.ok => f.id <= id'
    BY <1>2 DEF Answered, Accepts, AnswerInv
  <1> QED BY <1>1, <1>3 DEF AnswerInv, AtHand

\* The client is told that its request was carried out.
LEMMA AnswerSuccess ==
  ASSUME TypeOK, AnswerInv, handling' = None, UNCHANGED <<client, begins, phase, id>>,
         toBridge' = << >>, client = begins, phase \in Operation \ {"begin"},
         toClient' = Sent(<<Reply(id, TRUE)>>), phase = "partial" => session' # None,
         phase = "commit" => fate'[begins] \in Given
  PROVE  AnswerInv'
  <1>1. id \in Nat /\ phase # "none" /\ phase # "ready"
    BY DEF TypeOK, SocketTypes, Operation
  <1>2. ASSUME NEW f \in ToSet(toClient'), f.ok
        PROVE  f.id <= id'
    <2>1. /\ ToSet(Sent(<<Reply(id, TRUE)>>)) = ToSet(toClient) \cup {Reply(id, TRUE)}
          /\ Reply(id, TRUE).id = id
      BY <1>1, AnswerFrames
    <2>2. f \in ToSet(toClient) \/ f = Reply(id, TRUE)
      BY <1>2, <2>1
    <2>3. Reply(id, TRUE).id <= id
      <3>1. id <= id
        BY <1>1
      <3> QED BY <2>1, <3>1
    <2> QED BY <1>2, <2>2, <2>3 DEF AnswerInv
  <1>3. phase = "partial" => Learns'
    BY DEF Learns, Held
  <1> QED BY <1>1, <1>2, <1>3 DEF AnswerInv, AtHand

\* A request is read.
LEMMA AnswerReceive == TypeOK /\ ClientInv /\ AnswerInv /\ handling = None /\ receive => AnswerInv'
  <1> SUFFICES ASSUME TypeOK, ClientInv, AnswerInv, handling = None, receive
               PROVE  AnswerInv'
    OBVIOUS
  <1>1. /\ client = begins /\ toBridge' = << >> /\ phase \in Operation
        /\ phase # "none" /\ phase # "ready"
    BY ReceiveCases DEF Operation
  <1>2. UNCHANGED <<client, begins, phase, id, shut>> /\ ~Answered /\ id \in Nat
    BY DEF receive, AnswerInv, TypeOK, SocketTypes
  <1>3. CASE TurnsDown(id) \/ (Answers(id, FALSE) /\ UNCHANGED handling)
    <2>1. /\ handling' = None
          /\ \/ toClient' = Sent(<<Reply(id, FALSE)>>)
             \/ toClient' = Sent(<<Cancelled, Reply(id, FALSE)>>)
      BY <1>3 DEF TurnsDown, Answers, Ends, invalidate
    <2> QED BY <1>1, <1>2, <2>1, AnswerFailure
  <1>4. CASE phase = "begin" /\ handle_begin /\ UNCHANGED handling
    <2>1. UNCHANGED toClient /\ handling' = None
      BY <1>4 DEF handle_begin
    <2>2. ~Answered'
      BY <1>2, <2>1 DEF Answered, Accepts
    <2> QED BY <1>1, <1>2, <1>4, <2>1, <2>2 DEF AnswerInv, AtHand
  <1>5. CASE phase # "begin" /\ Takes
    <2>1. UNCHANGED <<toClient, session>> /\ handling' = [id |-> id, op |-> phase, next |-> "ask"]
      BY <1>5 DEF Takes
    <2>2. ~Answered' /\ handling'.id = id /\ handling'.op = phase
      BY <1>2, <2>1 DEF Answered, Accepts
    <2> QED BY <1>1, <1>2, <1>5, <2>1, <2>2 DEF AnswerInv
  <1> QED BY <1>3, <1>4, <1>5, ReceiveCases

\* A request goes its way to the answer.
LEMMA AnswerHandle == TypeOK /\ ClientInv /\ AnswerInv /\ handle => AnswerInv'
  <1> SUFFICES ASSUME TypeOK, ClientInv, AnswerInv, handle
               PROVE  AnswerInv'
    OBVIOUS
  <1>1. /\ handling # None /\ session # None /\ client \in Dictations
        /\ UNCHANGED <<client, begins, toBridge, phase, id, shut>>
    BY HandleCases, ImeAssumption DEF handle, ClientInv, TypeOK, SocketTypes, Dictations
  <1>2. handling \in Handling /\ handling.id \in Nat /\ handling.op \in {"partial", "commit", "end"}
    BY <1>1 DEF TypeOK, BridgeTypes, Handling
  <1>3. fate[client] \in UnderWay
    BY <1>1 DEF ClientInv
  <1>4. CASE GoesOn
    <2>1. handling'.op = handling.op /\ handling'.id = handling.id
      BY <1>2, <1>4 DEF GoesOn, Handling
    <2> QED BY <1>1, <1>4, <2>1, NoSuccess DEF GoesOn, Learns, Held
  <1>5. CASE ~GoesOn /\ ~AtHand
    <2>1. ~(client = begins /\ phase # "none")
      BY <1>1, <1>5 DEF AtHand
    <2>2. handling' = None /\ toClient' = toClient
      BY <1>1, <1>2, <1>5, <2>1, HandleCases, AnswerFrames
         DEF TurnsDown, Answers, Ends, invalidate
    <2>3. phase # "none" => client # begins
      BY <2>1
    <2>4. phase \in {"ready", "begin", "partial"} /\ Learns => Learns'
      BY <1>1, <2>2, <2>3 DEF Learns, Held
    <2>5. phase = "commit" /\ fate[begins] \in Given => fate'[begins] \in Given
      <3>1. \/ fate' = fate \/ fate' = Closed(client)
            \/ \E f \in Given : fate' = [fate EXCEPT ![client] = f]
        BY <1>5, HandleCases DEF TurnsDown, Answers
      <3>2. phase = "commit" => begins \in Dictations
        BY ImeAssumption DEF AnswerInv, TypeOK, SocketTypes, Dictations
      <3>3. phase = "commit" /\ client # begins => fate'[begins] = fate[begins]
        BY <1>1, <3>1, <3>2 DEF Closed, TypeOK, HistoryTypes
      <3> QED BY <2>3, <3>3
    <2> QED BY <1>1, <2>2, <2>4, <2>5, NoSuccess
  <1>6. CASE ~GoesOn /\ AtHand
    <2>1. /\ client = begins /\ phase = handling.op /\ id = handling.id /\ toBridge = << >>
          /\ ~Answered /\ phase \in Operation \ {"begin"}
      BY <1>2, <1>6 DEF AnswerInv, AtHand, Operation
    <2>2. CASE TurnsDown(handling.id)
      <3>1. /\ handling' = None
            /\ \/ toClient' = Sent(<<Reply(id, FALSE)>>)
               \/ toClient' = Sent(<<Cancelled, Reply(id, FALSE)>>)
        BY <2>1, <2>2 DEF TurnsDown, Answers, Ends, invalidate
      <3> QED BY <1>1, <2>1, <3>1, AnswerFailure
    <2>3. CASE handling' = None /\ Ends(<<Reply(handling.id, FALSE)>>)
      BY <1>1, <2>1, <2>3, AnswerFailure DEF Ends, invalidate
    <2>4. CASE handling' = None /\ handling.op = "partial" /\ Answers(handling.id, TRUE)
      BY <1>1, <2>1, <2>4, AnswerSuccess DEF Answers
    <2>5. CASE /\ handling' = None /\ handling.op = "commit" /\ Ends(<<Reply(handling.id, TRUE)>>)
               /\ fate' = [fate EXCEPT ![client] = IF ctx = field[client] THEN "inserted"
                                                   ELSE "misplaced"]
      <3>1. fate'[begins] \in Given
        BY <1>1, <2>1, <2>5 DEF TypeOK, HistoryTypes
      <3> QED BY <1>1, <2>1, <2>5, <3>1, AnswerSuccess DEF Ends, invalidate
    <2>6. CASE handling' = None /\ handling.op = "end" /\ Ends(<<Reply(handling.id, TRUE)>>)
      BY <1>1, <2>1, <2>6, AnswerSuccess DEF Ends, invalidate
    <2> QED BY <1>6, <2>2, <2>3, <2>4, <2>5, <2>6, HandleCases
  <1> QED BY <1>4, <1>5, <1>6

LEMMA AnswerInvStep == TypeOK /\ ClientInv /\ MarkerInv /\ AnswerInv /\ [Next]_vars => AnswerInv'
  <1> SUFFICES ASSUME TypeOK, ClientInv, MarkerInv, AnswerInv, [Next]_vars
               PROVE  AnswerInv'
    OBVIOUS
  <1> USE DEF TypeOK
  <1>1. CASE Switch \/ UserMoves \/ UserActs \/ UserSelects \/ engine_created \/ UNCHANGED vars
    <2>1. UNCHANGED <<client, session, begins, shut, toBridge, toClient, phase, id, handling>>
      BY <1>1 DEF Switch, UserMoves, UserActs, UserSelects, engine_created, vars
    <2>2. phase = "commit" /\ fate[begins] \in Given => fate'[begins] \in Given
      <3>1. CASE UserMoves
        <4>1. phase = "commit" => begins \in Dictations
          BY ImeAssumption DEF AnswerInv, SocketTypes, Dictations
        <4> QED BY <3>1, <4>1 DEF UserMoves
      <3>2. CASE ~UserMoves
        BY <1>1, <3>2 DEF Switch, UserActs, UserSelects, engine_created, vars
      <3> QED BY <3>1, <3>2
    <2> QED BY <2>1, <2>2, NoSuccess DEF Learns, Held
  <1>2. CASE Client
    BY <1>2, AnswerClient
  <1>3. CASE handling = None /\ accept
    <2>1. /\ UNCHANGED <<session, begins, toBridge, toClient, phase, id, fate>> /\ handling' = None
          /\ client' = client \/ client = 0
          /\ shut => shut'
      BY <1>3 DEF accept
    <2>2. Learns => Learns'
      BY <2>1 DEF Learns, Held, ClientInv
    <2> QED BY <2>1, <2>2, NoSuccess
  <1>4. CASE handling = None /\ disconnect
    <2>1. /\ UNCHANGED <<begins, toBridge, toClient, phase, id>> /\ fate' = Closed(client)
          /\ handling' = None
          /\ client # begins \/ phase = "none"
          /\ shut => shut'
      BY <1>4 DEF disconnect
    <2>2. phase \in {"ready", "begin", "partial"} /\ Learns => Learns'
      BY <2>1 DEF Learns, Held
    <2>3. phase = "commit" /\ fate[begins] \in Given => fate'[begins] \in Given
      BY <2>1 DEF Closed, HistoryTypes
    <2> QED BY <2>1, <2>2, <2>3, NoSuccess
  <1>5. CASE handling = None /\ News
    <2>1. UNCHANGED <<client, begins, toBridge, phase, id, shut, handling>>
      BY <1>5 DEF News
    <2>2. Treated \/ \E n \in Message : EndHeard(n)
      BY <1>5, NewsCases
    <2> QED BY <2>1, <2>2, AnswerEffect
  <1>6. CASE handling = None /\ complete_begin
    <2>1. UNCHANGED <<client, begins, toBridge, phase, id, shut, handling>> /\ handling' = None
      BY <1>6 DEF complete_begin
    <2>2. CASE Stands \/ GivesUp
      BY <2>1, <2>2, AnswerEffect DEF Treated
    <2>3. CASE Opens
      BY <2>1, <2>3, AnswerOpens
    <2> QED BY <1>6, <2>2, <2>3, CompleteCases
  <1>7. CASE handling = None /\ timeout_begin
    <2>1. UNCHANGED <<client, begins, toBridge, phase, id, shut, handling>> /\ GivesUp
      BY <1>7 DEF timeout_begin, GivesUp
    <2> QED BY <2>1, AnswerEffect
  <1>8. CASE handling = None /\ receive
    BY <1>8, AnswerReceive
  <1>10. CASE handle
    BY <1>10, AnswerHandle
  <1>9. CASE bridge_ends
    <2>1. PICK frames \in Farewells : toClient' = Sent(frames)
      BY <1>9 DEF bridge_ends
    <2>2. frames \in Seq(Frame) /\ \A f \in ToSet(frames) : ~f.ok
      <3>1. /\ Reply(1, FALSE).ok = FALSE /\ Cancelled.ok = FALSE
            /\ << >> \in Seq(Frame) /\ <<Reply(1, FALSE)>> \in Seq(Frame) /\ <<Cancelled>> \in Seq(Frame)
            /\ ToSet(<<Reply(1, FALSE)>>) = {Reply(1, FALSE)} /\ ToSet(<<Cancelled>>) = {Cancelled}
            /\ ToSet(<< >>) = {}
        BY FrameFacts, SmallSets, Members
      <3>2. frames \in {<< >>, <<Reply(1, FALSE)>>, <<Cancelled>>}
        BY DEF Farewells
      <3> QED BY <3>1, <3>2
    <2>3. \A f \in ToSet(toClient') : f \in ToSet(toClient) \/ ~f.ok
      BY <2>1, <2>2, SentFacts
    <2>4. /\ UNCHANGED <<begins, phase, id>> /\ toBridge' = << >> /\ shut' = TRUE
          /\ fate' = [d \in Dictations |-> IF fate[d] \in UnderWay THEN "closed" ELSE fate[d]]
          /\ handling' = None
      BY <1>9 DEF bridge_ends
    <2>5. phase = "commit" /\ fate[begins] \in Given => fate'[begins] \in Given
      BY <2>4, ImeAssumption DEF AnswerInv, SocketTypes, Dictations
    <2>6. Learns'
      BY <2>4 DEF Learns
    <2> QED BY <2>3, <2>4, <2>5, <2>6, NoSuccess
  <1> QED BY <1>1, <1>2, <1>3, <1>4, <1>5, <1>6, <1>7, <1>8, <1>9, <1>10
          DEF Next, User, Bridge, Callback

-----------------------------------------------------------------------------
(* The engine IBus listens to.                                              *)

LEMMA FocusInvStep == TypeOK /\ MarkerInv /\ FocusInv /\ [Next]_vars => FocusInv'
  <1> SUFFICES ASSUME TypeOK, MarkerInv, FocusInv, [Next]_vars,
                      global' = "daapstt", ctx' # None
               PROVE  \/ Arrives(news', live')
                      \/ focused'.engine = live' /\ Settled(news', live')
    BY DEF FocusInv
  <1> USE DEF TypeOK
  <1>0. /\ news \in Seq(Message) /\ BusTypes
        /\ \A more \in Seq(Message) : \A e :
              /\ Settled(news, e) /\ Settled(more, e) => Settled(news \o more, e)
              /\ Arrives(news, e) /\ Settled(more, e) => Arrives(news \o more, e)
              /\ Arrives(more, e) => Arrives(news \o more, e)
    BY MessagesWithMore DEF BusTypes
  <1>1. CASE Switch
    <2>1. ctx' = ctx /\ focused' = focused
      BY <1>1 DEF Switch
    <2>2. PICK s \in Call, told \in Seq(Message), more \in Seq(Message) :
            /\ news' = (news \o more) \o told
            /\ \A e : Settled(told, e)
            /\ \/ /\ global' = s.to
                  /\ \/ s.to = global /\ live' = live /\ more = << >>
                     \/ s.to = "daapstt" /\ global # s.to /\ live' \in Engines /\ more = FocusIn(live', ctx)
                     \/ s.to # "daapstt"
               \/ UNCHANGED <<global, live>> /\ more = << >>
      BY <1>0, <1>1, SwitchCases, ZenonT(60)
    <2>3. CASE UNCHANGED <<global, live>> /\ more = << >>
      <3>1. news' = news \o told
        BY <1>0, <2>2, <2>3, ConcatEmptySeq
      <3>2. Arrives(news, live) \/ (focused.engine = live /\ Settled(news, live))
        BY <2>1, <2>3 DEF FocusInv
      <3> QED BY <1>0, <2>1, <2>2, <2>3, <3>1, <3>2
    <2>4. CASE live' \in Engines /\ more = FocusIn(live', ctx)
      <3>1. Arrives(more, live')
        BY <2>1, <2>4, FocusMessages DEF BusTypes
      <3>2. Arrives(news \o more, live') /\ news \o more \in Seq(Message)
        BY <1>0, <3>1, ConcatProperties
      <3> QED BY <2>2, <3>2, MessagesWithMore
    <2> QED BY <2>2, <2>3, <2>4
  <1>2. CASE UserMoves
    <2>1. PICK c \in (Contexts \cup {None}) \ {ctx} :
            /\ ctx' = c
            /\ news' = IF global = "daapstt"
                       THEN news \o (IF ctx = None THEN << >> ELSE FocusOut(live)) \o FocusIn(live, c)
                       ELSE news
      BY <1>2 DEF UserMoves
    <2>2. UNCHANGED <<global, live>> /\ live \in Engines
      BY <1>2 DEF UserMoves, BusTypes
    <2> DEFINE out == IF ctx = None THEN << >> ELSE FocusOut(live)
    <2>3. news' = (news \o out) \o FocusIn(live, c)
      BY <2>1, <2>2
    <2>4. out \in Seq(Message) /\ FocusIn(live, c) \in Seq(Message) /\ Arrives(FocusIn(live, c), live)
      BY <2>1, <2>2, FocusMessages
    <2> HIDE DEF out
    <2>5. news \o out \in Seq(Message)
      BY <1>0, <2>4, ConcatProperties
    <2> QED BY <2>2, <2>3, <2>4, <2>5, MessagesWithMore
  <1>3. CASE UserActs
    <2>1. PICK kind \in {"key", "reset"} : news' = Append(news, [kind |-> kind, engine |-> live])
      BY <1>3 DEF UserActs
    <2> DEFINE m == [kind |-> kind, engine |-> live]
    <2>2. m \in Message /\ m.kind \in {"key", "reset"}
      BY <1>3 DEF UserActs, BusTypes, Message
    <2>3. news' = news \o <<m>>
      BY <2>1, <2>2 DEF BusTypes
    <2> HIDE DEF m
    <2>4. <<m>> \in Seq(Message) /\ Settled(<<m>>, live)
      BY <2>2, OtherMessages
    <2>5. UNCHANGED <<global, ctx, live, focused>>
      BY <1>3 DEF UserActs
    <2> QED BY <1>0, <2>3, <2>4, <2>5 DEF FocusInv
  <1>4. CASE UserSelects
    <2>1. PICK to \in Methods \ {global} :
            \E sel \in Selections(to) :
               global' = to /\ live' = sel.live /\ news' = news \o sel.news
      BY <1>4 DEF UserSelects
    <2>2. PICK sel \in Selections(to) : global' = to /\ live' = sel.live /\ news' = news \o sel.news
      BY <2>1
    <2>3. PICK e \in Engines : sel = [live |-> e, news |-> FocusIn(e, ctx)]
      BY <2>1, <2>2 DEF Selections
    <2>4. sel.live = e /\ sel.news = FocusIn(e, ctx)
      BY <2>3
    <2>5. FocusIn(e, ctx) \in Seq(Message) /\ Arrives(FocusIn(e, ctx), e)
      BY <1>4, FocusMessages DEF UserSelects, BusTypes
    <2> QED BY <1>0, <2>2, <2>4, <2>5
  <1>5. CASE engine_created
    BY <1>5 DEF engine_created
  <1>6. CASE \/ Client \/ accept \/ disconnect \/ complete_begin \/ timeout_begin \/ receive
             \/ handle \/ UNCHANGED vars
    <2>1. UNCHANGED <<global, ctx, live, focused, news>>
      BY <1>6 DEF Client, begin, request, response, disconnected, timed_out, drop, accept, disconnect,
                  complete_begin, timeout_begin, receive, handle, vars
    <2> QED BY <2>1 DEF FocusInv
  <1>7. CASE News
    <2> DEFINE n == Head(news)
    <2>1. UNCHANGED <<global, ctx, live>> /\ (Arrives(news, live) \/ (focused.engine = live /\ Settled(news, live)))
      BY <1>7 DEF News, FocusInv
    <2>2. news # << >> /\ news' = Tail(news) /\ FocusHeard(n) /\ live \in Engines
      BY <1>7, <2>1, NewsCases DEF BusTypes
    <2>3. /\ Settled(news, live) => Stays(n, live) /\ Settled(news', live)
          /\ Arrives(news, live) =>
               \/ Arrives(news', live)
               \/ n.kind = "focus_in" /\ n.engine = live /\ Settled(news', live)
      BY <1>0, <2>2, MessagesAfterOne
    <2> HIDE DEF n
    <2>4. focused.engine = live /\ Stays(n, live) => focused'.engine = live
      BY <2>2 DEF FocusHeard, Stays
    <2>5. n.kind = "focus_in" /\ n.engine = live => focused'.engine = live
      BY <2>2 DEF FocusHeard
    <2> QED BY <2>1, <2>3, <2>4, <2>5
  <1>8. CASE bridge_ends
    <2>1. PICK e \in Engines : live' = e /\ news' = FocusIn(e, ctx)
      BY <1>8 DEF bridge_ends
    <2>2. ctx' = ctx
      BY <1>8 DEF bridge_ends
    <2> QED BY <2>1, <2>2, FocusMessages DEF BusTypes
  <1> QED BY <1>1, <1>2, <1>3, <1>4, <1>5, <1>6, <1>7, <1>8 DEF Next, User, Bridge, Callback

-----------------------------------------------------------------------------
(* The user's input method.                                                 *)

Selected == Back \/ Leaving \/ Away \/ InUse

\* A begin given up, or a session ended, returns what it took.
LEMMA GivenBack ==
  ASSUME TypeOK, ClientInv, MarkerInv, Selected,
         NEW p, (starting # None /\ p = starting.previous) \/ (session # None /\ p = session.previous),
         switches' = Restored(p), starting' = None, session' = None, UNCHANGED <<marker, global, chosen>>
  PROVE  Selected'
  <1> USE DEF TypeOK
  <1>1. /\ p \in Previous /\ BusTypes /\ (starting = None \/ session = None)
        /\ marker # None => starting # None /\ p = marker.previous
    BY DEF BridgeTypes, Starting, Session, MarkerInv, ClientInv
  <1>2. /\ global # "daapstt" => switches' = switches
        /\ Before(p) = chosen /\ Returning(switches, chosen) /\ global \in {"daapstt", chosen}
            => /\ Returning(switches', chosen)
               /\ switches' = << >> => global = chosen
    BY <1>1, RestoredFacts
  <1>3. ~Back
    BY DEF Back
  <1>4. CASE Leaving
    <2>1. Before(p) = chosen /\ global = chosen
      BY <1>1, <1>4 DEF Leaving
    <2>2. switches' = switches
      <3>1. CASE p = None
        BY <3>1 DEF Restored
      <3>2. CASE p = "other"
        BY <1>2, <2>1, <3>2, ImeAssumption DEF Before, Methods
      <3> QED BY <1>1, <3>1, <3>2 DEF Previous
    <2> QED BY <1>4, <2>2 DEF Leaving, Selected
  <1>5. CASE Away
    BY <1>1, <1>2, <1>5 DEF Away, Selected
  <1>6. CASE InUse
    <2>1. Before(p) = chosen /\ switches = << >> /\ global = "daapstt" /\ marker = None
      BY <1>1, <1>6 DEF InUse
    <2>2. Returning(switches, chosen)
      BY <2>1 DEF Returning
    <2> QED BY <1>2, <2>1, <2>2 DEF Back, Selected
  <1> QED BY <1>3, <1>4, <1>5, <1>6 DEF Selected

LEMMA SelectionInvStep ==
  TypeOK /\ ClientInv /\ MarkerInv /\ AnswerInv /\ SelectionInv /\ [Next]_vars => SelectionInv'
  <1> SUFFICES ASSUME TypeOK, ClientInv, MarkerInv, AnswerInv, SelectionInv, [Next]_vars, ~astray'
               PROVE  Successes(news') /\ Selected'
    BY DEF SelectionInv, Selected
  <1> USE DEF TypeOK
  <1>0. ~astray /\ Successes(news) /\ Selected
    <2>1. ~astray
      BY DEF Next, User, Client, Bridge, Switch, UserMoves, UserActs, UserSelects, begin, request, response,
             disconnected, timed_out, drop, accept, disconnect, engine_created, News, complete_begin,
             timeout_begin, receive, handle_begin_refused, handle_begin, handle_invalid, handle_valid,
             handle, ask, act, bridge_ends, Callback, vars
    <2> QED BY <2>1 DEF SelectionInv, Selected
  <1>1. /\ BusTypes /\ switches \in Seq(Call) /\ news \in Seq(Message)
        /\ \A more \in Seq(Message) : Successes(more) => Successes(news \o more)
    BY <1>0, MessagesWithMore DEF BusTypes
  <1>2. CASE Switch
    <2>1. UNCHANGED <<marker, starting, session, chosen>>
      BY <1>2 DEF Switch
    <2>2. PICK s \in Call, told \in Seq(Message), more \in Seq(Message) :
            /\ switches # << >> /\ s = Head(switches)
            /\ Successes(more) /\ news' = (news \o more) \o told
            /\ \/ switches' = Tail(switches) /\ global' = s.to /\ astray' = astray /\ Successes(told)
               \/ astray'
      BY <1>1, <1>2, SwitchCases, ZenonT(60)
    <2>3. Successes(news')
      <3>1. Successes(news \o more) /\ news \o more \in Seq(Message)
        BY <1>1, <2>2, ConcatProperties
      <3> QED BY <2>2, <3>1, MessagesWithMore
    <2>4. switches' = Tail(switches) /\ global' = s.to
      BY <2>2
    <2>5. Returning(switches, chosen) => s.to = chosen /\ Returning(switches', chosen)
      BY <1>1, <2>2, <2>4, TailFacts DEF Returning
    <2>6. CASE Back
      BY <2>1, <2>3, <2>4, <2>5, <2>6 DEF Back, Selected
    <2>7. CASE Leaving
      <3>1. s.to = "daapstt" /\ switches' = << >>
        BY <2>2, <2>4, <2>7 DEF Leaving
      <3>2. Returning(switches', chosen)
        BY <3>1 DEF Returning
      <3> QED BY <2>1, <2>3, <2>4, <2>7, <3>1, <3>2 DEF Leaving, Away, Selected
    <2>8. CASE Away
      BY <2>1, <2>2, <2>3, <2>4, <2>5, <2>8 DEF Away, Selected
    <2>9. ~InUse
      BY <2>2 DEF InUse
    <2> QED BY <1>0, <2>3, <2>6, <2>7, <2>8, <2>9 DEF Selected
  <1>3. CASE UserMoves \/ UserActs
    <2>1. UNCHANGED <<marker, starting, session, chosen, switches, global>>
      BY <1>3 DEF UserMoves, UserActs
    <2>2. Successes(news')
      BY <1>1, <1>3, UserCases
    <2> QED BY <1>0, <2>1, <2>2 DEF Selected, Back, Leaving, Away, InUse
  <1>4. CASE UserSelects
    <2>1. AtRest /\ UNCHANGED <<marker, starting, session, switches>> /\ global' = chosen'
      BY <1>4 DEF UserSelects
    <2>2. marker = None /\ starting = None /\ session = None /\ switches = << >>
      BY <2>1 DEF AtRest, ClientInv
    <2>3. Successes(news')
      BY <1>1, <1>4, UserCases
    <2> QED BY <2>1, <2>2, <2>3 DEF Selected, Back, Returning
  <1>5. CASE Client \/ accept \/ engine_created \/ UNCHANGED vars
    <2>1. UNCHANGED <<marker, starting, session, chosen, switches, global, news>>
      BY <1>5 DEF Client, begin, request, response, disconnected, timed_out, drop, accept,
                  engine_created, vars
    <2> QED BY <1>0, <2>1 DEF Selected, Back, Leaving, Away, InUse
  <1>6. CASE disconnect
    <2>1. UNCHANGED <<marker, news, global, chosen>> /\ starting' = None /\ session' = None
          /\ switches' = IF starting # None THEN Restored(starting.previous)
                         ELSE IF session # None THEN Restored(session.previous)
                         ELSE switches
      BY <1>6 DEF disconnect
    <2>2. CASE starting # None \/ session # None
      BY <1>0, <2>1, <2>2, GivenBack
    <2>3. CASE starting = None /\ session = None
      BY <1>0, <2>1, <2>3 DEF Selected, Back, Leaving, Away, InUse
    <2> QED BY <2>2, <2>3
  <1>7. ASSUME GivesUp, UNCHANGED <<marker, global, chosen>>
        PROVE  Selected'
    <2>1. starting # None /\ switches' = Restored(starting.previous) /\ starting' = None /\ session' = None
      BY <1>7 DEF GivesUp, abort_begin, ClientInv
    <2> QED BY <1>0, <1>7, <2>1, GivenBack
  <1>8. ASSUME NEW frames, session # None, invalidate(frames), UNCHANGED <<starting, marker, global, chosen>>
        PROVE  Selected'
    <2>1. switches' = Restored(session.previous) /\ starting' = None /\ session' = None
      BY <1>8 DEF invalidate, ClientInv
    <2> QED BY <1>0, <1>8, <2>1, GivenBack
  <1>9. ASSUME Stands \/ Proceeds, UNCHANGED <<marker, global, chosen>>
        PROVE  Selected'
    <2>1. /\ UNCHANGED <<switches, session>>
          /\ starting = None => starting' = None
          /\ starting # None => starting' # None /\ starting'.previous = starting.previous
      BY <1>9, ImeAssumption DEF Stands, Proceeds
    <2> QED BY <1>0, <1>9, <2>1 DEF Selected, Back, Leaving, Away, InUse
  <1>10. CASE News
    <2> DEFINE n == Head(news)
    <2>1. /\ news # << >> /\ news' = Tail(news)
          /\ \/ n.kind # "selected" /\ marker' = marker /\ Treated
             \/ n.kind = "selected" /\ EndHeard(n)
      BY <1>10, NewsCases
    <2>2. UNCHANGED <<global, chosen>>
      BY <1>10 DEF News
    <2>3. Successes(news') /\ (n.kind = "selected" => n.ok) /\ (Untold(news) => n.kind # "selected")
      BY <1>0, <1>1, <2>1, MessagesAfterOne
    <2> HIDE DEF n
    <2>4. CASE marker' = marker /\ Treated
      BY <1>7, <1>8, <1>9, <2>2, <2>3, <2>4 DEF Treated, Drops
    <2>5. CASE n.kind = "selected" /\ EndHeard(n)
      <3>1. n.ok /\ marker # None /\ marker' = None /\ session = None /\ session' = None
        BY <2>3, <2>5 DEF EndHeard, MarkerInv
      <3>2. ~Leaving
        <4>1. SUFFICES ASSUME Leaving
                       PROVE  FALSE
          OBVIOUS
        <4>2. switches[1].epoch = marker.epoch /\ 1 \in DOMAIN switches
          BY <4>1 DEF Leaving
        <4>3. marker.epoch # 0
          BY <3>1, ImeAssumption DEF BridgeTypes, Marker, Dictations
        <4> QED BY <2>3, <2>5, <3>1, <4>2, <4>3 DEF MarkerInv, Unheeded
      <3>3. Away
        BY <1>0, <3>1, <3>2 DEF Selected, Back, InUse
      <3>4. marker.previous \in Previous
        BY <3>1 DEF BridgeTypes, Marker
      <3>5. CASE starting = None /\ starting' = None /\ switches' = Restored(marker.previous)
        <4>1. /\ Returning(switches', chosen)
              /\ switches' = << >> => global = chosen
          BY <1>1, <3>3, <3>4, <3>5, RestoredFacts DEF Away
        <4> QED BY <2>2, <2>3, <3>1, <3>5, <4>1 DEF Back, Selected
      <3>6. CASE Proceeds
        <4>1. starting # None /\ starting' # None /\ starting'.previous = starting.previous
              /\ switches' = switches
          BY <3>6, ImeAssumption DEF Proceeds
        <4>2. starting.previous = marker.previous
          BY <3>1, <4>1 DEF MarkerInv
        <4> QED BY <2>2, <2>3, <3>1, <3>3, <4>1, <4>2 DEF Away, InUse, Selected
      <3> QED BY <2>5, <3>1, <3>5, <3>6 DEF EndHeard
    <2> QED BY <2>1, <2>4, <2>5
  <1>11. CASE complete_begin
    <2>1. UNCHANGED <<global, chosen, marker, news>>
      BY <1>11 DEF complete_begin
    <2>2. CASE Stands \/ GivesUp
      BY <1>0, <1>7, <1>9, <2>1, <2>2
    <2>3. CASE Opens
      <3>1. /\ starting # None /\ marker = None /\ session' # None /\ switches' = switches
            /\ session'.previous = starting.previous /\ session = None
        BY <2>3, ImeAssumption DEF Opens, MarkerInv, ClientInv
      <3>2. InUse
        BY <1>0, <3>1 DEF Selected, Back, Leaving, Away
      <3> QED BY <1>0, <2>1, <3>1, <3>2 DEF InUse, Selected
    <2> QED BY <1>11, <2>2, <2>3, CompleteCases
  <1>12. CASE timeout_begin
    <2>1. UNCHANGED <<global, chosen, marker, news>> /\ GivesUp
      BY <1>12 DEF timeout_begin, GivesUp
    <2> QED BY <1>0, <1>7, <2>1
  <1>13. CASE receive
    <2>1. UNCHANGED <<global, chosen, news>>
      BY <1>13 DEF receive
    <2>2. CASE Answers(id, FALSE) \/ Takes
      <3>1. UNCHANGED <<switches, starting, session, marker>>
        BY <2>2 DEF Answers, Takes
      <3> QED BY <1>0, <2>1, <3>1 DEF Selected, Back, Leaving, Away, InUse
    <2>3. CASE handle_begin
      <3> DEFINE previous == IF global = "daapstt" THEN None ELSE global
      <3>1. /\ session = None /\ starting = None /\ marker = None /\ switches = << >>
            /\ marker' = [epoch |-> client, previous |-> previous]
            /\ switches' = Append(switches, [to |-> "daapstt", epoch |-> client])
        BY <2>3 DEF handle_begin
      <3>2. global = chosen
        BY <1>0, <3>1 DEF Selected, Back, Leaving, Away, InUse
      <3>3. marker' # None
        <4>1. previous \in Previous
          BY DEF BusTypes, Methods, Previous
        <4>2. client \in Dictations
          BY <1>13, ReceiveCases, ImeAssumption DEF SocketTypes, Dictations
        <4>3. marker' \in Marker
          BY <3>1, <4>1, <4>2 DEF Marker
        <4> QED BY <4>3, ImeAssumption
      <3>4. marker'.previous = previous /\ marker'.epoch = client /\ Before(previous) = global
        <4>1. global # None
          BY ImeAssumption DEF BusTypes
        <4> QED BY <3>1, <4>1 DEF Before
      <3>5. switches' = <<[to |-> "daapstt", epoch |-> marker'.epoch]>>
        BY <3>1, <3>4
      <3> QED BY <1>0, <2>1, <3>2, <3>3, <3>4, <3>5 DEF Leaving, Before, Selected
    <2>4. CASE \E frames : Ends(frames)
      BY <1>0, <1>8, <2>1, <2>4 DEF Ends
    <2> QED BY <1>13, <2>2, <2>3, <2>4, ReceiveCases DEF TurnsDown
  <1>15. CASE handle
    <2>1. UNCHANGED <<global, chosen, news>>
      BY <1>15 DEF handle
    <2>2. CASE GoesOn \/ \E r, ok : Answers(r, ok)
      <3>1. UNCHANGED <<switches, starting, session, marker>>
        BY <2>2 DEF Answers, GoesOn
      <3> QED BY <1>0, <2>1, <3>1 DEF Selected, Back, Leaving, Away, InUse
    <2>3. CASE \E frames : Ends(frames)
      BY <1>0, <1>8, <2>1, <2>3 DEF Ends
    <2> QED BY <1>15, <2>2, <2>3, HandleCases DEF TurnsDown
  <1>14. CASE bridge_ends
    <2>1. AtRest /\ global' = global /\ chosen' = chosen
          /\ marker' = None /\ starting' = None /\ session' = None
      BY <1>14 DEF bridge_ends
    <2>2. marker = None /\ starting = None /\ session = None /\ switches = << >>
      BY <2>1 DEF AtRest, ClientInv
    <2>3. switches' = << >>
      BY <1>14, <2>2, TestamentUnheeded
    <2>4. global = chosen
      BY <1>0, <2>2 DEF Selected, Back, Leaving, Away, InUse
    <2>5. Successes(news')
      <3>1. CASE news' = << >>
        BY <3>1 DEF Successes
      <3>2. CASE \E e \in Engines : news' = FocusIn(e, ctx)
        BY <3>2, FocusMessages DEF BusTypes
      <3> QED BY <1>14, <3>1, <3>2 DEF bridge_ends
    <2> QED BY <2>1, <2>3, <2>4, <2>5 DEF Selected, Back, Returning
  <1> QED BY <1>2, <1>3, <1>4, <1>5, <1>6, <1>10, <1>11, <1>12, <1>13, <1>14, <1>15
          DEF Next, User, Bridge, Callback

-----------------------------------------------------------------------------
(* The inductive invariant holds, and the properties follow from it.        *)

\* Nothing is begun, under way or on its way to anybody at first.
LEMMA InitInv == Init => IInv
  <1> SUFFICES ASSUME Init
               PROVE  IInv
    OBVIOUS
  <1>1. BusTypes
    BY EmptySeq DEF Init, BusTypes, Methods
  <1>2. SocketTypes
    <2>1. << >> \in Seq(1..begins) /\ << >> \in Seq(Request) /\ << >> \in Seq(Frame)
      BY EmptySeq
    <2>2. begins = 0 /\ client = 0 /\ 0 \in 0..MaxBegins /\ 0 \in 0..0
      BY ImeAssumption DEF Init
    <2> QED BY <2>1, <2>2 DEF Init, SocketTypes
  <1>3. BridgeTypes /\ HistoryTypes
    BY DEF Init, BridgeTypes, HistoryTypes, Fates, Nobody
  <1>4. ClientInv
    BY DEF Init, ClientInv
  <1>5. MarkerInv
    BY DEF Init, MarkerInv, Unheeded, Untold
  <1>6. AnswerInv
    <2>1. ToSet(toClient) = {}
      BY DEF Init, ToSet
    <2>2. phase = "none" /\ toBridge = << >>
      BY DEF Init
    <2>3. ~AtHand
      BY DEF Init, AtHand
    <2> QED BY <2>1, <2>2, <2>3 DEF AnswerInv, Operation
  <1>7. FocusInv
    BY DEF Init, FocusInv
  <1>8. SelectionInv
    BY DEF Init, SelectionInv, Successes, Back, Returning
  <1>9. HandlingInv
    BY DEF Init, HandlingInv
  <1> QED BY <1>1, <1>2, <1>3, <1>4, <1>5, <1>6, <1>7, <1>8, <1>9 DEF IInv, TypeOK

\* No action breaks it.
LEMMA StepInv == IInv /\ [Next]_vars => IInv'
  BY TypeStep, ClientInvStep, HandlingInvStep, MarkerInvStep, AnswerInvStep, FocusInvStep,
     SelectionInvStep DEF IInv

\* The inductive invariant holds whenever: who owns the begin and the session, at which
\* commit the bridge is, which end of a selection is under way, what the answer to the one
\* request means, which engine IBus listens to and where the user's input method is
\* (engine.py:337-691, ime.rs:236-440).
THEOREM Invariance == Spec => []IInv
  <1>1. Init => IInv
    BY InitInv
  <1>2. IInv /\ [Next]_vars => IInv'
    BY StepInv
  <1> QED BY <1>1, <1>2, PTL DEF Spec

\* The bridge's state, IBus and both ends of the socket keep their types.
THEOREM TypeCorrect == Spec => []TypeOK
  <1>1. IInv => TypeOK
    BY DEF IInv
  <1> QED BY <1>1, Invariance, PTL

\* Whenever the client relies on a session, the bridge has it, or the client is about to
\* learn that it is gone (engine.py:494-506, ime.rs:360-399).
THEOREM ClientAlwaysLearns == Spec => []ClientLearns
  <1>1. IInv => ClientLearns
    BY DEF IInv, AnswerInv, Learns, Held, ClientLearns
  <1> QED BY <1>1, Invariance, PTL

\* A session the bridge takes for valid, once it has heard all the news, is on the engine
\* object IBus listens to (engine.py:482-492).
THEOREM TextToLiveEngine == Spec => []LiveEngine
  <1>1. IInv => LiveEngine
    <2> SUFFICES ASSUME IInv, valid, news = << >>
                 PROVE  session.engine = live
      BY DEF LiveEngine
    <2>1. session \in Session /\ ctx = session.context /\ focused.engine = session.engine
          /\ global = "daapstt"
      BY DEF valid, KnownValid, InField, IInv, TypeOK, BridgeTypes
    <2>2. ctx # None
      BY <2>1, ImeAssumption DEF Session
    <2>3. ~Arrives(news, live)
      BY DEF Arrives
    <2> QED BY <2>1, <2>2, <2>3 DEF IInv, FocusInv
  <1> QED BY <1>1, Invariance, PTL

\* When all is over, the user's input method is selected again, unless something
\* interfered (_restore, engine.py:388-390).
THEOREM MethodComesBack == Spec => []MethodRestored
  <1>1. IInv => MethodRestored
    <2> SUFFICES ASSUME IInv, AtRest, ~astray
                 PROVE  global = chosen
      BY DEF MethodRestored
    <2>1. marker = None /\ switches = << >> /\ starting = None /\ session = None
      BY DEF AtRest, IInv, ClientInv
    <2> QED BY <2>1 DEF IInv, SelectionInv, Back, Leaving, Away, InUse
  <1> QED BY <1>1, Invariance, PTL

\* A begin never leaves the bridge busy for good: the marker has its end of a selection on
\* the way, and what is started is the connected client's (engine.py:409-481).
THEOREM BeginAlwaysEnds == Spec => []BeginEnds
  <1>1. IInv => BeginEnds
    <2> SUFFICES ASSUME IInv
                 PROVE  BeginEnds
      OBVIOUS
    <2>1. starting # None => starting.epoch = client /\ session = None
      BY DEF IInv, ClientInv
    <2>2. marker # None => OneHeeded(switches, marker.epoch) \/ OneTold(news, marker.epoch)
      BY DEF IInv, MarkerInv
    <2> QED BY <2>1, <2>2 DEF BeginEnds, OneHeeded, OneTold
  <1> QED BY <1>1, Invariance, PTL

-----------------------------------------------------------------------------
(* Client and bridge implement ImeDictation.                                *)

\* What a step is to ImeDictation: the end of a dictation, or nothing.
LEMMA ClosedMaps ==
  ASSUME TypeOK, NEW d \in Dictations, fate' = Closed(d), UNCHANGED <<ctx, field, verdict>>
  PROVE  [Dictation!Next]_(Dictation!vars)
  <1>1. CASE fate[d] \in UnderWay
    <2>1. Dictation!Close(d)
      BY <1>1 DEF Closed, TypeOK, HistoryTypes, Dictation!Close, Dictation!UnderWay
    <2> QED BY <2>1 DEF Dictation!Next
  <1>2. CASE fate[d] \notin UnderWay
    <2>1. fate' = fate
      BY <1>2 DEF Closed, TypeOK, HistoryTypes
    <2> QED BY <2>1 DEF Dictation!vars
  <1> QED BY <1>1, <1>2

\* ... what the daemon believes of one, or nothing.
LEMMA BelieveMaps ==
  ASSUME TypeOK, NEW d \in Dictations, NEW v \in {"delivered", "failed"}, Believe(d, v),
         v = "delivered" => fate[d] \in Given,
         UNCHANGED <<ctx, field, fate>>
  PROVE  [Dictation!Next]_(Dictation!vars)
  <1>1. CASE verdict[d] = "pending"
    <2>1. Dictation!Believe(d, v)
      BY <1>1 DEF Believe, TypeOK, HistoryTypes, Dictation!Believe
    <2> QED BY <2>1 DEF Dictation!Next
  <1>2. CASE verdict[d] # "pending"
    <2>1. verdict' = verdict
      BY <1>2 DEF Believe, TypeOK, HistoryTypes
    <2> QED BY <2>1 DEF Dictation!vars
  <1> QED BY <1>1, <1>2

\* An effect of the bridge that neither opens a dictation nor hands over its text.
LEMMA EffectMaps ==
  ASSUME TypeOK, ClientInv, UNCHANGED <<ctx, field, verdict>>,
         Treated \/ GivesUp \/ \E n \in Message : EndHeard(n)
  PROVE  [Dictation!Next]_(Dictation!vars)
  <1>1. fate' = fate \/ (session # None /\ fate' = Closed(client))
    BY DEF Treated, Stands, Proceeds, GivesUp, Drops, EndHeard
  <1>2. CASE fate' = fate
    BY <1>2 DEF Dictation!vars
  <1>3. CASE session # None /\ fate' = Closed(client)
    <2>1. client \in Dictations
      BY <1>3, ImeAssumption DEF ClientInv, TypeOK, SocketTypes, Dictations
    <2> QED BY <1>3, <2>1, ClosedMaps
  <1> QED BY <1>1, <1>2, <1>3

\* A request read: a commit has found its field with the focus.
LEMMA ReceiveMaps ==
  TypeOK /\ ClientInv /\ HandlingInv /\ AnswerInv /\ handling = None /\ receive
    => [Dictation!Next]_(Dictation!vars)
  <1> SUFFICES ASSUME TypeOK, ClientInv, HandlingInv, AnswerInv, handling = None, receive
               PROVE  [Dictation!Next]_(Dictation!vars)
    OBVIOUS
  <1>1. UNCHANGED <<ctx, field, verdict>>
    BY DEF receive
  <1>2. client \in Dictations
    BY ReceiveCases, ImeAssumption DEF TypeOK, SocketTypes, Dictations
  <1>3. CASE fate' = fate
    BY <1>1, <1>3 DEF Dictation!vars
  <1>4. CASE fate' = Closed(client)
    BY <1>1, <1>2, <1>4, ClosedMaps
  <1>5. CASE Takes /\ fate' = [fate EXCEPT ![client] = "confirmed"]
    <2>1. ctx = session.context /\ session # None
      BY <1>5 DEF Takes, InField
    <2>2. fate[client] = "open" /\ ctx = field[client]
      BY <1>2, <2>1 DEF ClientInv, HandlingInv
    <2>3. Dictation!Confirm(client)
      BY <1>1, <1>5, <2>2 DEF Dictation!Confirm
    <2> QED BY <1>2, <2>3 DEF Dictation!Next
  <1> QED BY <1>3, <1>4, <1>5, ReceiveCases DEF Answers, handle_begin, TurnsDown, Takes

\* A request carried out: the text of a commit is handed over, to its field unless the
\* focus has moved.
LEMMA HandleMaps ==
  TypeOK /\ ClientInv /\ HandlingInv /\ handle => [Dictation!Next]_(Dictation!vars)
  <1> SUFFICES ASSUME TypeOK, ClientInv, HandlingInv, handle
               PROVE  [Dictation!Next]_(Dictation!vars)
    OBVIOUS
  <1>1. UNCHANGED <<ctx, field, verdict>>
    BY DEF handle
  <1>2. client \in Dictations
    <2>1. client # 0
      BY HandleCases DEF ClientInv
    <2> QED BY <2>1, ImeAssumption DEF TypeOK, SocketTypes, Dictations
  <1>3. CASE fate' = fate
    BY <1>1, <1>3 DEF Dictation!vars
  <1>4. CASE fate' = Closed(client)
    BY <1>1, <1>2, <1>4, ClosedMaps
  <1>5. CASE /\ handling.op = "commit"
             /\ fate' = [fate EXCEPT ![client] = IF ctx = field[client] THEN "inserted"
                                                 ELSE "misplaced"]
    <2>1. fate[client] \in {"confirmed", "strayed"}
      BY <1>5, HandleCases DEF HandlingInv
    <2>2. CASE ctx = field[client]
      <3>1. Dictation!Insert(client)
        BY <1>1, <1>5, <2>1, <2>2 DEF Dictation!Insert
      <3> QED BY <1>2, <3>1 DEF Dictation!Next
    <2>3. CASE ctx # field[client]
      <3>1. fate[client] = "strayed"
        BY <1>2, <2>1, <2>3 DEF HandlingInv
      <3>2. Dictation!Misplace(client)
        BY <1>1, <1>5, <2>3, <3>1 DEF Dictation!Misplace
      <3> QED BY <1>2, <3>2 DEF Dictation!Next
    <2> QED BY <2>2, <2>3
  <1> QED BY <1>3, <1>4, <1>5, HandleCases DEF GoesOn, Answers, TurnsDown

LEMMA StepMaps == IInv /\ [Next]_vars => [Dictation!Next]_(Dictation!vars)
  <1> SUFFICES ASSUME TypeOK, ClientInv, HandlingInv, MarkerInv, AnswerInv, [Next]_vars
               PROVE  [Dictation!Next]_(Dictation!vars)
    BY DEF IInv
  <1>0. client # 0 => client \in Dictations
    BY ImeAssumption DEF TypeOK, SocketTypes, Dictations
  <1>1. CASE UserMoves
    <2>1. Dictation!Move
      BY <1>1 DEF UserMoves, Dictation!Move, Dictation!Strayed
    <2> QED BY <2>1 DEF Dictation!Next
  <1>2. CASE \/ Switch \/ UserActs \/ UserSelects \/ begin \/ request \/ drop \/ accept
             \/ engine_created \/ UNCHANGED vars
    BY <1>2 DEF Switch, UserActs, UserSelects, begin, request, drop, accept, engine_created, vars,
                Dictation!vars
  <1>3. CASE response \/ disconnected \/ timed_out
    <2>1. begins \in Dictations
      BY <1>3, ImeAssumption DEF response, disconnected, timed_out, AnswerInv, TypeOK, SocketTypes, Dictations
    <2>2. UNCHANGED <<ctx, field, fate>>
      BY <1>3 DEF response, disconnected, timed_out
    <2>3. CASE Believe(begins, "failed")
      BY <2>1, <2>2, <2>3, BelieveMaps
    <2>4. CASE verdict' = verdict
      BY <2>2, <2>4 DEF Dictation!vars
    <2>5. CASE response /\ phase = "commit" /\ Accepts(Head(toClient)) /\ Believe(begins, "delivered")
      <3>1. Head(toClient) \in ToSet(toClient)
        BY <2>5, Members DEF response, TypeOK, SocketTypes
      <3>2. fate[begins] \in Given
        BY <2>5, <3>1 DEF Answered, AnswerInv
      <3> QED BY <2>1, <2>2, <2>5, <3>2, BelieveMaps
    <2> QED BY <1>3, <2>3, <2>4, <2>5 DEF response, disconnected, timed_out
  <1>4. CASE disconnect
    <2>1. client # 0 /\ fate' = Closed(client) /\ UNCHANGED <<ctx, field, verdict>>
      BY <1>4 DEF disconnect
    <2> QED BY <1>0, <2>1, ClosedMaps
  <1>5. CASE News
    <2>1. UNCHANGED <<ctx, field, verdict>>
      BY <1>5 DEF News
    <2>2. Treated \/ \E n \in Message : EndHeard(n)
      BY <1>5, NewsCases DEF TypeOK
    <2> QED BY <2>1, <2>2, EffectMaps
  <1>6. CASE complete_begin
    <2>1. UNCHANGED <<ctx, verdict>>
      BY <1>6 DEF complete_begin
    <2>2. CASE (Stands \/ GivesUp) /\ field' = field
      BY <2>1, <2>2, EffectMaps DEF Treated
    <2>3. CASE Opens
      <3>1. /\ starting # None /\ client \in Dictations /\ ctx = starting.context
            /\ fate' = [fate EXCEPT ![client] = "open"]
            /\ field' = [field EXCEPT ![client] = ctx]
        BY <1>0, <2>3 DEF Opens
      <3>2. ctx # None
        BY <3>1, ImeAssumption DEF TypeOK, BridgeTypes, Starting
      <3>3. fate[client] = "unborn" /\ \A d \in Dictations : fate[d] \notin UnderWay
        BY <3>1 DEF ClientInv
      <3>4. Dictation!Open(client)
        BY <2>1, <3>1, <3>2, <3>3 DEF Dictation!Open, Dictation!UnderWay
      <3> QED BY <3>1, <3>4 DEF Dictation!Next
    <2> QED BY <1>6, <2>2, <2>3, CompleteCases DEF TypeOK
  <1>7. CASE timeout_begin
    <2>1. UNCHANGED <<ctx, field, verdict>> /\ GivesUp
      BY <1>7 DEF timeout_begin, GivesUp
    <2> QED BY <2>1, EffectMaps
  <1>8. CASE bridge_ends
    <2>1. /\ UNCHANGED <<ctx, field, verdict>>
          /\ fate' = [d \in Dictations |-> IF fate[d] \in UnderWay THEN "closed" ELSE fate[d]]
      BY <1>8 DEF bridge_ends
    <2>2. CASE client \in Dictations
      <3>1. \A d \in Dictations : fate[d] \in UnderWay => d = client
        BY DEF ClientInv
      <3>2. \A d \in Dictations : fate'[d] = Closed(client)[d]
        BY <2>1, <2>2, <3>1 DEF Closed, TypeOK, HistoryTypes
      <3>3. fate' \in [Dictations -> Fates]
        BY <2>1 DEF TypeOK, HistoryTypes, Fates
      <3>4. Closed(client) \in [Dictations -> Fates]
        BY <2>2 DEF Closed, TypeOK, HistoryTypes, Fates
      <3>5. fate' = Closed(client)
        BY <3>2, <3>3, <3>4
      <3> QED BY <2>1, <2>2, <3>5, ClosedMaps
    <2>3. CASE client \notin Dictations
      <3>1. \A d \in Dictations : fate[d] \notin UnderWay
        BY <2>3 DEF ClientInv
      <3>2. fate' = fate
        BY <2>1, <3>1 DEF TypeOK, HistoryTypes
      <3> QED BY <2>1, <3>2 DEF Dictation!vars
    <2> QED BY <2>2, <2>3
  <1> QED BY <1>1, <1>2, <1>3, <1>4, <1>5, <1>6, <1>7, <1>8, ReceiveMaps, HandleMaps
          DEF Next, User, Client, Bridge, Callback

\* Every dictation opens in the field that has the focus; its text is handed over at most
\* once, before it is closed and only after its field was found to have the focus; another
\* field gets it only if the focus moved between that question to IBus and the hand-over
\* (engine.py:488, 608-609); one dictation is under way at a time, and a text is believed
\* delivered only if it was handed over: client and bridge implement what native delivery
\* promises as far as the bridge keeps it (README.md:110-115; engine.py:409-691,
\* ime.rs:236-440).
THEOREM DictationImplemented == Spec => ImplementsDictation
  <1>1. Init => Dictation!Init
    BY DEF Init, Dictation!Init
  <1>2. IInv /\ [Next]_vars => [Dictation!Next]_(Dictation!vars)
    BY StepMaps
  <1> QED BY <1>1, <1>2, Invariance, PTL DEF Spec, ImplementsDictation, Dictation!Spec
=============================================================================

------------------------------ MODULE ImeSystem ------------------------------
(***************************************************************************)
(* src/src/ime.rs (the client, in the daemon) and contrib/ibus/engine.py    *)
(* (the bridge), with IBus and the user around them.                        *)
(*                                                                          *)
(* The bridge asks IBus for the field with the focus and for the selected   *)
(* input method, and waits for the answers; it selects a method without     *)
(* waiting (`switches'); and it is told of focus changes, keys and finished *)
(* selections by messages that take their time (`news').  Client and bridge *)
(* talk over one Unix socket per dictation.                                 *)
(*                                                                          *)
(* Every action of the bridge is one callback of its main loop, but a       *)
(* request of a dictation takes three steps: it is carried out after two    *)
(* questions to IBus, and IBus, the user and the client go on meanwhile     *)
(* (`handling').  Elsewhere the answer is used at once: what a begin or     *)
(* complete_begin was told is noted or compared in the same step, and that  *)
(* it may be stale by then is no different from a change that follows.      *)
(*                                                                          *)
(* IBus may reuse the object of an earlier engine or make a new one; of a   *)
(* number of focus notifications all or none may be for an engine that was  *)
(* deselected.  An idle callback may run although news are waiting.         *)
(*                                                                          *)
(* A definition marked faulty stands beside the one it is a variant of; it   *)
(* is used by no specification, only to see a property fail.                *)
(***************************************************************************)
EXTENDS Naturals, Sequences, SequencesExt

CONSTANTS
    Contexts,     \* input contexts, i.e. fields
    Engines,      \* objects of class DictationEngine
    None,
    MaxBegins,    \* bound: dictations
    MaxMoves,     \* bound: what the user does, and ends of the bridge
    MaxRequests   \* bound: requests of one dictation

Dictations == 1..MaxBegins
Methods == {"daapstt", "other"}

\* What a begin notes of the method to return to: None, if that was "daapstt".
Previous == {"other", None}

\* PendingBegin, Session, and the marker of the selection under way.
Starting == [epoch : Dictations, context : Contexts, previous : Previous, selected : BOOLEAN,
             engine : Engines \cup {None}, generation : Nat]
Session == [engine : Engines, generation : Nat, context : Contexts, previous : Previous]
Marker == [epoch : Dictations, previous : Previous]

\* A request between its questions to IBus, with what comes next: the question for
\* the selected method, or carrying it out.
Handling == [id : Nat, op : {"partial", "commit", "end"}, next : {"ask", "act"}]

ASSUME ImeAssumption ==
    /\ None \notin Contexts /\ None \notin Engines /\ None \notin Methods
    /\ None \notin Starting /\ None \notin Session
    /\ None \notin Marker /\ None \notin Handling
    /\ MaxBegins \in Nat /\ MaxMoves \in Nat /\ MaxRequests \in Nat

VARIABLES
    \* IBus and the user
    ctx,          \* current_input_context
    global,       \* get_global_engine
    live,         \* the engine object behind "daapstt" while it is selected
    switches,     \* set_global_engine_async calls under way
    news,         \* messages to the bridge
    moves,
    chosen,       \* history: the method the user selected
    \* engine objects
    generation,
    \* the socket of the newest dictation
    begins,       \* dictations begun
    backlog,      \* connections nobody has accepted
    shut,         \* the bridge closed its end
    toBridge, toClient,
    \* bridge
    client,       \* the dictation whose connection it holds, or 0
    starting,     \* the begin under way, or None
    session,      \* the Session, or None
    marker,       \* selection_marker and selection_previous, or None
    focused,      \* focused_engine and focused_context
    idle,         \* complete_begin is scheduled
    handling,     \* the request of a dictation it is at, or None
    \* client
    phase,        \* "none", "ready" or the operation it waits for
    id,           \* id of its last request
    \* history
    field, fate, verdict,  \* the variables of ImeDictation
    astray        \* somebody else interfered with the selection (see MethodRestored)

busVars == <<ctx, global, live, switches, news, moves, chosen>>
socketVars == <<begins, backlog, shut, toBridge, toClient>>
bridgeVars == <<client, starting, session, marker, focused, idle, generation, handling>>
clientVars == <<phase, id>>
historyVars == <<field, fate, verdict, astray>>
vars == <<busVars, socketVars, bridgeVars, clientVars, historyVars>>

Nobody == [engine |-> None, context |-> None]

Init ==
    /\ ctx \in Contexts \cup {None}
    /\ global = "other" /\ live = None /\ chosen = "other"
    /\ switches = << >> /\ news = << >> /\ moves = 0
    /\ generation = [e \in Engines |-> 0]
    /\ begins = 0 /\ backlog = << >> /\ shut = FALSE
    /\ toBridge = << >> /\ toClient = << >>
    /\ client = 0 /\ starting = None /\ session = None /\ marker = None
    /\ focused = Nobody /\ idle = FALSE /\ handling = None
    /\ phase = "none" /\ id = 0
    /\ field = [d \in Dictations |-> None]
    /\ fate = [d \in Dictations |-> "unborn"]
    /\ verdict = [d \in Dictations |-> "pending"]
    /\ astray = FALSE

-----------------------------------------------------------------------------
(* IBus and the user.                                                       *)

FocusIn(e, c) == IF c = None THEN << >> ELSE <<[kind |-> "focus_in", engine |-> e, context |-> c]>>
FocusOut(e) == <<[kind |-> "focus_out", engine |-> e]>>

\* What may become of the selection of a method, and what the bridge hears.
Selections(to) ==
    IF to = global THEN {[live |-> live, news |-> << >>]}
    ELSE IF to = "daapstt" THEN {[live |-> e, news |-> FocusIn(e, ctx)] : e \in Engines}
    ELSE {[live |-> None, news |-> n] : n \in {<< >>, FocusOut(live)}}

\* IBus carries out the oldest set_global_engine_async, or fails to; or the
\* bridge stops waiting (BEGIN_TIMEOUT_MS) for what IBus still carries out.
Switch ==
    /\ switches # << >>
    /\ LET s == Head(switches)
           Finished(ok) == IF s.epoch = 0 THEN << >>
                           ELSE <<[kind |-> "selected", epoch |-> s.epoch, ok |-> ok]>>
       IN \/ /\ \E sel \in Selections(s.to) :
                /\ global' = s.to /\ live' = sel.live
                /\ news' = news \o sel.news \o Finished(TRUE)
             /\ switches' = Tail(switches)
             /\ UNCHANGED astray
          \/ /\ news' = news \o Finished(FALSE)
             /\ switches' \in {Tail(switches), <<[s EXCEPT !.epoch = 0]>> \o Tail(switches)}
             /\ astray' = TRUE
             /\ UNCHANGED <<global, live>>
    /\ UNCHANGED <<ctx, moves, chosen, socketVars, bridgeVars, clientVars, field, fate, verdict>>

UserMoves ==
    /\ moves < MaxMoves
    /\ moves' = moves + 1
    /\ \E c \in (Contexts \cup {None}) \ {ctx} :
        /\ ctx' = c
        /\ news' = IF global = "daapstt"
                   THEN news \o (IF ctx = None THEN << >> ELSE FocusOut(live)) \o FocusIn(live, c)
                   ELSE news
    /\ fate' = [d \in Dictations |-> IF fate[d] = "confirmed" THEN "strayed" ELSE fate[d]]
    /\ UNCHANGED <<global, live, switches, chosen, socketVars, bridgeVars, clientVars,
                   field, verdict, astray>>

\* A key, a password field, a reset or a disable: do_process_key_event,
\* do_set_content_type, do_reset, do_disable.
UserActs ==
    /\ moves < MaxMoves /\ global = "daapstt"
    /\ moves' = moves + 1
    /\ \E kind \in {"key", "reset"} : news' = Append(news, [kind |-> kind, engine |-> live])
    /\ UNCHANGED <<ctx, global, live, switches, chosen, socketVars, bridgeVars, clientVars, historyVars>>

AtRest == client = 0 /\ marker = None /\ backlog = << >> /\ switches = << >>

UserSelects ==
    /\ moves < MaxMoves
    /\ moves' = moves + 1
    /\ \E to \in Methods \ {global} :
        /\ chosen' = to
        /\ \E sel \in Selections(to) :
            global' = to /\ live' = sel.live /\ news' = news \o sel.news
    /\ astray' = (astray \/ ~AtRest)
    /\ UNCHANGED <<ctx, switches, socketVars, bridgeVars, clientVars, field, fate, verdict>>

-----------------------------------------------------------------------------
(* The client: ImeSession.                                                  *)

\* Nobody reads any more, and the hang-up keeps the bridge from reading.
close == phase' = "none" /\ toBridge' = << >> /\ toClient' = << >>

Believe(d, v) == verdict' = [verdict EXCEPT ![d] = IF @ = "pending" THEN v ELSE @]

\* begin_at: a connection, and the first request on it.
begin ==
    /\ phase = "none" /\ begins < MaxBegins
    /\ begins' = begins + 1
    /\ backlog' = Append(backlog, begins')
    /\ shut' = FALSE
    /\ toBridge' = <<[id |-> 1, op |-> "begin"]>> /\ toClient' = << >>
    /\ phase' = "begin" /\ id' = 1
    /\ UNCHANGED <<busVars, bridgeVars, historyVars>>

\* partial, clear, commit, finish, cancel
request ==
    /\ phase = "ready" /\ id < MaxRequests
    /\ \E op \in {"partial", "commit", "end"} :
        /\ id' = id + 1
        /\ toBridge' = Append(toBridge, [id |-> id', op |-> op])
        /\ phase' = op
    /\ UNCHANGED <<busVars, begins, backlog, shut, toClient, bridgeVars, historyVars>>

\* wait_for_response, then what the operation does with the answer.
Accepts(frame) == frame.id = id /\ frame.ok

response ==
    /\ phase \notin {"none", "ready"} /\ toClient # << >>
    /\ IF Accepts(Head(toClient))
       THEN /\ IF phase \in {"begin", "partial"}
               THEN phase' = "ready" /\ toClient' = Tail(toClient) /\ UNCHANGED toBridge
               ELSE close
            /\ IF phase = "commit" THEN Believe(begins, "delivered") ELSE UNCHANGED verdict
       ELSE close /\ Believe(begins, "failed")
    /\ UNCHANGED <<busVars, begins, backlog, shut, bridgeVars, id, field, fate, astray>>

disconnected ==
    /\ phase \notin {"none", "ready"} /\ toClient = << >> /\ shut
    /\ close /\ Believe(begins, "failed")
    /\ UNCHANGED <<busVars, begins, backlog, shut, bridgeVars, id, field, fate, astray>>

\* ACK_TIMEOUT: nobody knows whether the request was carried out.
timed_out ==
    /\ phase \notin {"none", "ready"}
    /\ close /\ Believe(begins, "failed")
    /\ UNCHANGED <<busVars, begins, backlog, shut, bridgeVars, id, field, fate, astray>>

\* The session is dropped without a last request.
drop ==
    /\ phase = "ready"
    /\ close
    /\ UNCHANGED <<busVars, begins, backlog, shut, bridgeVars, id, historyVars>>

Client == begin \/ request \/ response \/ disconnected \/ timed_out \/ drop

-----------------------------------------------------------------------------
(* The bridge.  Its helpers change `switches', `toClient', `shut' and the   *)
(* bridge's own variables; each callback says what it leaves alone.         *)

\* set_global_engine_async, unless the user selected something else meanwhile.
Restored(previous) ==
    IF previous # None /\ global = "daapstt"
    THEN Append(switches, [to |-> previous, epoch |-> 0])
    ELSE switches

Reply(r, ok) == [id |-> r, ok |-> ok]
Cancelled == [id |-> 0, ok |-> FALSE]

\* Frames for a connection whose dictation is over go nowhere.
Sent(frames) ==
    IF client = begins /\ phase # "none" THEN toClient \o frames ELSE toClient

\* accept: one connection at a time.
accept ==
    /\ backlog # << >>
    /\ backlog' = Tail(backlog)
    /\ IF client = 0
       THEN client' = Head(backlog) /\ UNCHANGED shut
       ELSE /\ UNCHANGED client
            /\ shut' = (shut \/ Head(backlog) = begins)
    /\ UNCHANGED <<busVars, begins, toBridge, toClient, starting, session, marker,
                   focused, idle, generation, handling, clientVars, historyVars>>

UnderWay == {"open", "confirmed", "strayed"}
Closed(d) == [fate EXCEPT ![d] = IF @ \in UnderWay THEN "closed" ELSE @]

\* disconnect, on the hang-up of the client: abort_begin, then invalidate
\* without a message, then the connection is closed.
disconnect ==
    /\ client # 0 /\ (client # begins \/ phase = "none")
    /\ switches' = IF starting # None THEN Restored(starting.previous)
                   ELSE IF session # None THEN Restored(session.previous)
                   ELSE switches
    /\ starting' = None /\ session' = None
    /\ client' = 0 /\ shut' = (shut \/ client = begins)
    /\ fate' = Closed(client)
    /\ UNCHANGED <<ctx, global, live, news, moves, chosen, begins, backlog, toBridge,
                   toClient, marker, focused, idle, generation, handling, clientVars,
                   field, verdict, astray>>

abort_begin ==
    /\ switches' = Restored(starting.previous)
    /\ toClient' = IF starting.epoch = client THEN Sent(<<Reply(1, FALSE)>>) ELSE toClient
    /\ starting' = None

\* invalidate, with the frames sent before and after the session is dropped.
invalidate(frames) ==
    /\ switches' = Restored(session.previous)
    /\ toClient' = Sent(frames)
    /\ session' = None

-----------------------------------------------------------------------------
(* News from IBus.                                                          *)

\* engine_invalidated and focus_out, for what is under way with engine e.
Invalidated_Silent(e) ==                                    \* faulty
    IF session # None /\ session.engine = e
    THEN invalidate(<< >>) /\ fate' = Closed(client) /\ UNCHANGED starting
    ELSE IF session = None /\ starting # None /\ starting.engine = e
    THEN abort_begin /\ UNCHANGED <<session, fate>>
    ELSE UNCHANGED <<switches, toClient, session, starting, fate>>

Invalidated(e) ==
    IF session # None /\ session.engine = e
    THEN invalidate(<<Cancelled>>) /\ fate' = Closed(client) /\ UNCHANGED starting
    ELSE IF session = None /\ starting # None /\ starting.engine = e
    THEN abort_begin /\ UNCHANGED <<session, fate>>
    ELSE UNCHANGED <<switches, toClient, session, starting, fate>>

Bump(e) == generation' = [generation EXCEPT ![e] = @ + 1]

\* do_focus_in_id, or do_focus_in, which asks IBus for the context.
focus_in(n) ==
    /\ n.kind = "focus_in"
    /\ Bump(n.engine)
    /\ \E c \in {n.context, ctx} :
        /\ focused' = [engine |-> n.engine, context |-> c]
        /\ IF session # None \/ starting = None
           THEN /\ IF session # None THEN Invalidated(n.engine)
                   ELSE UNCHANGED <<switches, toClient, session, starting, fate>>
                /\ UNCHANGED idle
           ELSE IF c # starting.context
           THEN abort_begin /\ UNCHANGED <<session, fate, idle>>
           ELSE /\ starting' = [starting EXCEPT !.engine = n.engine,
                                                !.generation = generation'[n.engine]]
                /\ idle' = TRUE
                /\ UNCHANGED <<switches, toClient, session, fate>>
    /\ UNCHANGED marker

focus_out(n) ==
    /\ n.kind = "focus_out"
    /\ Bump(n.engine)
    /\ focused' = IF focused.engine = n.engine THEN Nobody ELSE focused
    /\ IF session # None THEN Invalidated(n.engine)
       ELSE UNCHANGED <<switches, toClient, session, starting, fate>>
    /\ UNCHANGED <<idle, marker>>

\* A key or a password field (no new generation), a reset or a disable.
engine_invalidated(n) ==
    /\ n.kind \in {"key", "reset"}
    /\ IF n.kind = "reset" THEN Bump(n.engine) ELSE UNCHANGED generation
    /\ Invalidated(n.engine)
    /\ UNCHANGED <<focused, idle, marker>>

selected_Late(n) ==                                         \* faulty
    /\ n.kind = "selected"
    /\ marker # None /\ marker.epoch = n.epoch
    /\ marker' = None
    /\ IF starting = None \/ starting.epoch # n.epoch
       THEN UNCHANGED <<switches, toClient, starting, idle>>
       ELSE IF ~n.ok THEN abort_begin /\ UNCHANGED idle
       ELSE /\ starting' = [starting EXCEPT !.selected = TRUE]
            /\ idle' = TRUE
            /\ UNCHANGED <<switches, toClient>>
    /\ UNCHANGED <<session, focused, generation, fate>>

selected_Busy(n) ==                                         \* faulty
    /\ n.kind = "selected"
    /\ marker # None
    /\ IF starting = None \/ starting.epoch # n.epoch
       THEN UNCHANGED <<switches, toClient, starting, marker, idle>>
       ELSE /\ marker' = None
            /\ IF n.ok
               THEN /\ starting' = [starting EXCEPT !.selected = TRUE]
                    /\ idle' = TRUE
                    /\ UNCHANGED <<switches, toClient>>
               ELSE abort_begin /\ UNCHANGED idle
    /\ UNCHANGED <<session, focused, generation, fate>>

\* The end of the selection of "daapstt".  The begin it belongs to may be over.
selected(n) ==
    /\ n.kind = "selected"
    /\ marker # None /\ marker.epoch = n.epoch
    /\ marker' = None
    /\ IF starting = None \/ starting.epoch # n.epoch
       THEN /\ switches' = IF n.ok THEN Restored(marker.previous) ELSE switches
            /\ UNCHANGED <<toClient, starting, idle>>
       ELSE IF ~n.ok THEN abort_begin /\ UNCHANGED idle
       ELSE /\ starting' = IF focused.engine # None /\ focused.context = starting.context
                           THEN [starting EXCEPT !.selected = TRUE, !.engine = focused.engine,
                                                 !.generation = generation[focused.engine]]
                           ELSE [starting EXCEPT !.selected = TRUE]
            /\ idle' = TRUE
            /\ UNCHANGED <<switches, toClient>>
    /\ UNCHANGED <<session, focused, generation, fate>>

\* The factory makes an object for a selection under way; its context is None.
engine_created ==
    /\ switches # << >> /\ Head(switches).to = "daapstt" /\ global # "daapstt"
    /\ ctx = None
    /\ \E e \in Engines : focused' = [focused EXCEPT !.engine = e]
    /\ UNCHANGED <<busVars, socketVars, client, starting, session, marker, idle, generation,
                   handling, clientVars, historyVars>>

News ==
    /\ news # << >>
    /\ news' = Tail(news)
    /\ LET n == Head(news)
       IN focus_in(n) \/ focus_out(n) \/ engine_invalidated(n) \/ selected(n)
    /\ UNCHANGED <<ctx, global, live, moves, chosen, begins, backlog, shut, toBridge, client,
                   handling, clientVars, field, verdict, astray>>

-----------------------------------------------------------------------------
(* The main loop: scheduled and timed callbacks.                            *)

\* The engine complete_begin goes on with: the one it was told of, or the one
\* that has the focus.
Candidate ==
    IF starting.engine # None \/ focused.context # starting.context
    THEN [engine |-> starting.engine, generation |-> starting.generation]
    ELSE [engine |-> focused.engine,
          generation |-> IF focused.engine = None THEN 0 ELSE generation[focused.engine]]

StillThere(c) ==
    /\ client # 0 /\ starting.epoch = client
    /\ ctx = starting.context /\ focused.context = starting.context
    /\ focused.engine = c.engine /\ generation[c.engine] = c.generation

begins_session(c) ==
    /\ session' = [engine |-> c.engine, generation |-> c.generation,
                   context |-> starting.context, previous |-> starting.previous]
    /\ starting' = None
    /\ toClient' = Sent(<<Reply(1, TRUE)>>)
    /\ fate' = [fate EXCEPT ![client] = "open"]
    /\ field' = [field EXCEPT ![client] = starting.context]
    /\ UNCHANGED switches

complete_begin ==
    /\ idle
    /\ idle' = FALSE
    /\ IF starting = None \/ ~starting.selected \/ Candidate.engine = None
       THEN UNCHANGED <<switches, toClient, starting, session, fate, field>>
       ELSE \/ StillThere(Candidate) /\ begins_session(Candidate)
            \/ abort_begin /\ UNCHANGED <<session, fate, field>>  \* moved, or no preedit here
    /\ UNCHANGED <<ctx, global, live, news, moves, chosen, begins, backlog, shut, toBridge,
                   client, marker, focused, generation, handling, clientVars, verdict, astray>>

timeout_begin ==
    /\ starting # None
    /\ abort_begin
    /\ UNCHANGED <<ctx, global, live, news, moves, chosen, begins, backlog, shut, toBridge,
                   client, session, marker, focused, idle, generation, handling, clientVars,
                   historyVars>>

-----------------------------------------------------------------------------
(* Requests.                                                                *)

\* Answered at once: busy, no field, a dead key in the engine's hands, or
\* set_global_engine_async raised.
handle_begin_refused ==
    /\ toClient' = Sent(<<Reply(1, FALSE)>>)
    /\ UNCHANGED <<switches, starting, session, marker, fate, astray>>

handle_begin ==
    /\ session = None /\ starting = None /\ marker = None /\ ctx # None
    /\ LET previous == IF global = "daapstt" THEN None ELSE global
       IN /\ starting' = [epoch |-> client, context |-> ctx, previous |-> previous,
                          selected |-> FALSE, engine |-> None, generation |-> 0]
          /\ marker' = [epoch |-> client, previous |-> previous]
    /\ switches' = Append(switches, [to |-> "daapstt", epoch |-> client])
    /\ astray' = (astray \/ switches # << >>)
    /\ UNCHANGED <<toClient, session, fate>>

KnownValid_ByToken ==                                       \* faulty
    session # None

InField_Ignored ==                                          \* faulty
    TRUE

\* The questions of valid: what the bridge knows itself, and what IBus says first.
\* (That it also compares what it knows after this question changes nothing: news
\* are not heard meanwhile.)  The second question to IBus is the next step.
KnownValid ==
    /\ session # None
    /\ generation[session.engine] = session.generation
    /\ focused = [engine |-> session.engine, context |-> session.context]

InField == ctx = session.context

valid == KnownValid /\ InField /\ global = "daapstt"

handle_invalid(r) ==
    /\ IF session # None
       THEN invalidate(<<Cancelled, Reply(r.id, FALSE)>>)
       ELSE toClient' = Sent(<<Reply(r.id, FALSE)>>) /\ UNCHANGED <<switches, session>>
    /\ fate' = IF session # None THEN Closed(client) ELSE fate
    /\ handling' = None
    /\ UNCHANGED <<starting, marker, astray>>

handle_valid(r) ==
    /\ handling' = [id |-> r.id, op |-> r.op, next |-> "ask"]
    /\ fate' = IF r.op = "commit" THEN [fate EXCEPT ![client] = "confirmed"] ELSE fate
    /\ UNCHANGED <<switches, toClient, starting, session, marker, astray>>

receive ==
    /\ client # 0 /\ client = begins /\ toBridge # << >>
    /\ toBridge' = Tail(toBridge)
    /\ LET r == Head(toBridge)
       IN \/ r.op = "begin" /\ (handle_begin_refused \/ handle_begin) /\ UNCHANGED handling
          \/ r.op # "begin" /\ ~(KnownValid /\ InField) /\ handle_invalid(r)
          \/ r.op # "begin" /\ KnownValid /\ InField /\ handle_valid(r)
    /\ UNCHANGED <<ctx, global, live, news, moves, chosen, begins, backlog, shut, client,
                   focused, idle, generation, clientVars, field, verdict>>

\* IBus names the selected method.
ask ==
    /\ handling.next = "ask"
    /\ \/ global # "daapstt" /\ handle_invalid(handling)
       \/ /\ global = "daapstt"
          /\ handling' = [handling EXCEPT !.next = "act"]
          /\ UNCHANGED <<switches, toClient, starting, session, marker, fate, astray>>

\* partial, clear, and paste, which sends the application a key.
handle_partial ==
    /\ handling.op = "partial"
    /\ toClient' = Sent(<<Reply(handling.id, TRUE)>>)
    /\ UNCHANGED <<switches, session, fate>>

\* The text goes to the field that has the focus now.  Whatever IBus calls back from
\* inside commit_text cannot touch the session (commit_in_progress), which is dropped
\* next: such calls are as good as news behind it.  commit_text may raise; the answer
\* is queued before the method is restored.
handle_commit ==
    /\ handling.op = "commit"
    /\ \E ok \in BOOLEAN :
        /\ invalidate(<<Reply(handling.id, ok)>>)
        /\ fate' = IF ~ok THEN Closed(client)
                   ELSE [fate EXCEPT ![client] = IF ctx = field[client] THEN "inserted" ELSE "misplaced"]

handle_end ==
    /\ handling.op = "end"
    /\ invalidate(<<Reply(handling.id, TRUE)>>)
    /\ fate' = Closed(client)

act ==
    /\ handling.next = "act"
    /\ handle_partial \/ handle_commit \/ handle_end
    /\ handling' = None
    /\ UNCHANGED <<starting, marker, astray>>

handle ==
    /\ handling # None
    /\ ask \/ act
    /\ UNCHANGED <<ctx, global, live, news, moves, chosen, begins, backlog, shut, toBridge,
                   client, focused, idle, generation, clientVars, field, verdict>>

-----------------------------------------------------------------------------
(* The end of the process: bus_lost, SIGTERM, or a failure.                 *)

\* What a bridge may still say: a killed one nothing, one that lost its bus or was
\* terminated what abort_begin and invalidate say.
Farewells ==
    {<< >>} \cup (IF starting # None THEN {<<Reply(1, FALSE)>>} ELSE {})
            \cup (IF session # None THEN {<<Cancelled>>} ELSE {})

\* What it asked of IBus is carried out all the same, and maybe the last restore.
Unheard(calls) == [i \in DOMAIN calls |-> [calls[i] EXCEPT !.epoch = 0]]
Testament ==
    {Unheard(switches)}
        \cup (IF starting # None THEN {Unheard(Restored(starting.previous))} ELSE {})
        \cup (IF session # None THEN {Unheard(Restored(session.previous))} ELSE {})

\* The connection ends with the process.  IBus selects something else, or makes an
\* engine of the bridge that is started next, which knows nothing of the first.
bridge_ends ==
    /\ moves < MaxMoves
    /\ moves' = moves + 1
    /\ \E frames \in Farewells : toClient' = Sent(frames)
    /\ switches' \in Testament
    /\ \/ global' = "other" /\ live' = None /\ news' = << >>
       \/ /\ global = "daapstt" /\ UNCHANGED global
          /\ \E e \in Engines : live' = e /\ news' = FocusIn(e, ctx)
    /\ client' = 0 /\ starting' = None /\ session' = None /\ marker' = None
    /\ focused' = Nobody /\ idle' = FALSE /\ generation' = [e \in Engines |-> 0]
    /\ handling' = None
    /\ backlog' = << >> /\ toBridge' = << >> /\ shut' = TRUE
    /\ fate' = [d \in Dictations |-> IF fate[d] \in UnderWay THEN "closed" ELSE fate[d]]
    /\ astray' = (astray \/ ~AtRest \/ global' # global)
    /\ UNCHANGED <<ctx, chosen, begins, clientVars, field, verdict>>

-----------------------------------------------------------------------------
User == UserMoves \/ UserActs \/ UserSelects
Callback == accept \/ disconnect \/ engine_created \/ News \/ complete_begin \/ timeout_begin \/ receive
Bridge == (handling = None /\ Callback) \/ handle \/ bridge_ends
Next == Switch \/ User \/ Client \/ Bridge
Spec == Init /\ [][Next]_vars

-----------------------------------------------------------------------------
(* Properties.                                                              *)

Call == [to : Methods, epoch : 0..MaxBegins]
Message == [kind : {"focus_in"}, engine : Engines, context : Contexts]
               \cup [kind : {"focus_out", "key", "reset"}, engine : Engines]
               \cup [kind : {"selected"}, epoch : Dictations, ok : BOOLEAN]
Operation == {"begin", "partial", "commit", "end"}
Request == [id : Nat, op : Operation]
Frame == [id : Nat, ok : BOOLEAN]

BusTypes ==
    /\ ctx \in Contexts \cup {None} /\ global \in Methods /\ chosen \in Methods
    /\ live \in Engines \cup {None} /\ (live # None) = (global = "daapstt")
    /\ switches \in Seq(Call) /\ news \in Seq(Message)

SocketTypes ==
    /\ begins \in 0..MaxBegins /\ client \in 0..begins /\ backlog \in Seq(1..begins)
    /\ shut \in BOOLEAN /\ toBridge \in Seq(Request) /\ toClient \in Seq(Frame)
    /\ phase \in {"none", "ready"} \cup Operation /\ id \in Nat

BridgeTypes ==
    /\ starting \in Starting \cup {None} /\ session \in Session \cup {None}
    /\ marker \in Marker \cup {None}
    /\ focused \in [engine : Engines \cup {None}, context : Contexts \cup {None}]
    /\ idle \in BOOLEAN /\ generation \in [Engines -> Nat]
    /\ handling \in Handling \cup {None}

Fates == {"unborn", "closed", "inserted", "misplaced"} \cup UnderWay

HistoryTypes ==
    /\ field \in [Dictations -> Contexts \cup {None}]
    /\ fate \in [Dictations -> Fates]
    /\ verdict \in [Dictations -> {"pending", "delivered", "failed"}]
    /\ astray \in BOOLEAN

\* Types of the bridge's state (Bridge.__init__), of IBus and of both ends of the socket.
TypeOK == BusTypes /\ SocketTypes /\ BridgeTypes /\ HistoryTypes

\* The implementation of what native delivery promises (README.md:110-115): whatever
\* late news, dropped clients and bridges that end and start again, a text is handed
\* over once and only after its field was found to have the focus, and goes elsewhere
\* only if the focus moves between that question and the hand-over (engine.py:488-609).
Dictation == INSTANCE ImeDictation WITH focus <- ctx
ImplementsDictation == Dictation!Spec

\* Whenever the client relies on a session, the bridge has it or the client is
\* about to learn that it is gone: by a message, or by the end of the
\* connection (engine.py:494-506, ime.rs:360-399).
ClientLearns ==
    phase = "ready" =>
        (client = begins /\ session # None) \/ Cancelled \in ToSet(toClient) \/ shut

\* Once the bridge has heard all, a session it would take for valid is on the engine
\* object IBus listens to: no text is accepted for an engine that was replaced before
\* the bridge asked (engine.py:482-492).
LiveEngine == valid /\ news = << >> => session.engine = live

\* When all is over, the user's input method is selected again, unless IBus
\* failed to select one in time, the user selected one or the bridge ended during a
\* dictation, or a dictation was begun before the previous method was back (_restore,
\* engine.py:388-390).
MethodRestored == AtRest => global = chosen \/ astray

\* A begin never leaves the bridge busy for good: the marker that makes it refuse
\* others has its end of a selection on the way, whatever became of the client and
\* of the selection, and what is started belongs to the client that is connected
\* (engine.py:409-481).
BeginEnds ==
    /\ marker # None =>
        \/ \E i \in DOMAIN switches : switches[i].epoch = marker.epoch
        \/ \E i \in DOMAIN news : news[i].kind = "selected" /\ news[i].epoch = marker.epoch
    /\ starting # None => starting.epoch = client /\ session = None
=============================================================================

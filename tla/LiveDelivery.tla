---------------------------- MODULE LiveDelivery ----------------------------
(***************************************************************************)
(* What a recording leaves on the user's screen when it is typed while it   *)
(* is spoken (Live) or all at once at its end (Deferred): apply_live_text,  *)
(* cleanup_live_tail and the end of finish_realtime_result                  *)
(* (src/src/realtime_mode.rs), its deferred.rs, the marker and the batch    *)
(* fallback (src/src/main.rs), on top of the functions of LiveText.         *)
(*                                                                          *)
(* The screen is the sequence of cells before the cursor: the user's own    *)
(* text, the marker, what was committed, the mutable tail.  Every wtype     *)
(* call may fail after having typed any part of what it was given.  The     *)
(* keyboard is the daemon's alone while a key chord is held, so nothing     *)
(* else moves the cursor.                                                   *)
(*                                                                          *)
(* A definition marked faulty stands beside the one it is a variant of; it   *)
(* is used by no specification, only to see a property fail.                *)
(***************************************************************************)
EXTENDS LiveText

CONSTANTS
    Graphemes,    \* what a text holds besides spaces and placeholders
    Texts,        \* cleaned transcripts (no space at either end)
    MaxSegments   \* bound: segments committed

User == "user"
Marker == "marker"
Cells == Graphemes \cup {Space, Banana, Pasted, Quote, User, Marker}

ASSUME LiveDeliveryAssumption ==
    /\ Texts \subseteq Seq(Cells) /\ << >> \in Texts
    /\ \A text \in Texts : text # << >> => Head(text) # Space /\ Last(text) # Space
    /\ MaxSegments \in Nat

VARIABLES
    stage,           \* "live": events are applied; "done": back at the event loop
    screen,
    marker_active,
    live,            \* LiveText
    erred,           \* the session reported an error
    failed, tail_safe,
    delivery,        \* "Live" or "Deferred"
    audio,           \* what was recorded is "usable" or "silent"
    base,            \* history: the user's text, and a marker that could not be removed
    rendered,        \* history: every committed segment as it should be on the screen,
                     \* for Deferred the words before the clipboard is pasted
    fallback,        \* history: the batch transcript typed instead
    segments,
    torn             \* history: a wtype call failed part-way

screenVars == <<screen, marker_active, base>>
given == <<delivery, audio>>
textVars == <<live, failed, tail_safe, rendered, torn>>
vars == <<stage, screenVars, textVars, erred, given, fallback, segments>>

Init ==
    /\ stage = "live"
    /\ delivery \in {"Live", "Deferred"}
    /\ marker_active = (delivery = "Live")
    /\ screen = IF marker_active THEN <<User, Marker>> ELSE <<User>>
    /\ live = NewLiveText
    /\ erred = FALSE /\ failed = FALSE /\ tail_safe = TRUE
    /\ audio \in {"usable", "silent"}
    /\ base = <<User>> /\ rendered = << >> /\ fallback = << >>
    /\ segments = 0 /\ torn = FALSE

\* One Backspace; if it fails the marker stays, and is forgotten all the same.
cleanup_marker(before, after) ==
    /\ marker_active' = FALSE
    /\ \/ marker_active /\ after = Backspaced(before, 1) /\ UNCHANGED base
       \/ marker_active /\ after = before /\ base' = Append(base, Marker)
       \/ ~marker_active /\ after = before /\ UNCHANGED base

Screens(before) == {before, Backspaced(before, 1)}

ReplacesMarker_Always(text) == TRUE                          \* faulty
\* The first visible text takes the marker's place.
ReplacesMarker(text) == text # << >> /\ ~live.committed_any /\ live.tail = << >>

Fail == failed' = TRUE /\ tail_safe' = FALSE /\ torn' = TRUE

\* apply_live_text once the marker is dealt with: `before' is the screen.
Edited(before, transition) ==
    /\ screen' = apply_realtime_edit(before, transition.edit)
    /\ live' = transition.next
    /\ UNCHANGED <<failed, tail_safe, torn>>

EditFailed(before, transition) ==
    /\ transition.edit # NoEdit
    /\ screen' \in PartOfEdit(before, transition.edit)
    /\ Fail
    /\ UNCHANGED <<live, rendered>>

apply_partial(before, text) ==
    LET transition == partial(live, text)
    IN  \/ Edited(before, transition) /\ UNCHANGED rendered
        \/ EditFailed(before, transition)

\* The raw segment is typed, and retyped from its first placeholder on with
\* the clipboard pasted; an image is set off differently from text.
apply_commit(before, text) ==
    LET transition == commit(live, text)
        segment == segment_text(live.committed_any, text)
        chunks == parse_banana_chunks(segment)
        plan == clipboard_replacement_plan(segment, chunks)
        raw == apply_realtime_edit(before, transition.edit)
        prepared == Backspaced(raw, plan.backspaces)
        Pastes(image) ==
            deliver_chunks(SubSeq(chunks, plan.start, Len(chunks)), plan.has_space_before, image)
    IN  \/ /\ ~HasPlaceholder(chunks)
           /\ Edited(before, transition)
           /\ rendered' = rendered \o segment
        \/ EditFailed(before, transition)
        \/ /\ HasPlaceholder(chunks)
           /\ live' = transition.next
           /\ \E image \in BOOLEAN :
                \/ /\ screen' = Typed(prepared, Pastes(image))
                   /\ rendered' = rendered \o deliver_chunks(chunks, FALSE, image)
                   /\ UNCHANGED <<failed, tail_safe, torn>>
                \/ /\ \/ \E n \in 0 .. plan.backspaces : screen' = Backspaced(raw, n)
                      \/ screen' \in PartlyTyped(prepared, Pastes(image))
                   /\ Fail
                   /\ UNCHANGED rendered

apply_live_text(text, commits) ==
    \E before \in Screens(screen) :
        /\ IF ReplacesMarker(text)
           THEN cleanup_marker(screen, before)
           ELSE before = screen /\ UNCHANGED <<marker_active, base>>
        /\ IF commits THEN apply_commit(before, text) ELSE apply_partial(before, text)

\* Deferred: the text is kept for the end, nothing is typed.
Joined(words, text) ==
    IF words = << >> \/ text = << >> THEN words \o text ELSE words \o <<Space>> \o text
accumulate_committed_text(text) ==
    /\ live' = commit(live, text).next
    /\ rendered' = Joined(rendered, text)
    /\ UNCHANGED <<screenVars, failed, tail_safe, torn>>

\* Events of the session, ignored once something failed.
Partial ==
    /\ stage = "live" /\ ~erred /\ ~failed
    /\ \/ delivery = "Live" /\ \E text \in Texts : apply_live_text(text, FALSE)
       \/ delivery = "Deferred" /\ UNCHANGED <<screenVars, textVars>>
    /\ UNCHANGED <<stage, erred, given, fallback, segments>>

Committed ==
    /\ stage = "live" /\ ~erred /\ ~failed /\ segments < MaxSegments
    /\ segments' = segments + 1
    /\ \E text \in Texts :
         \/ delivery = "Live" /\ apply_live_text(text, TRUE)
         \/ delivery = "Deferred" /\ accumulate_committed_text(text)
    /\ UNCHANGED <<stage, erred, given, fallback>>

Error ==
    /\ stage = "live" /\ ~erred
    /\ erred' = TRUE /\ failed' = TRUE
    /\ UNCHANGED <<stage, screenVars, live, tail_safe, rendered, torn, given, fallback, segments>>

-----------------------------------------------------------------------------
(* The end of the recording.                                                *)

\* Recording's view of this module's state: of the text only flags.
Rec == INSTANCE Recording WITH
    Modes <- {"Realtime"}, Deliveries <- {"Live", "Deferred"}, MuteOutputs <- FALSE, MuteMics <- FALSE,
    ChanCap <- 1, MaxPresses <- 1,
    mode <- "Realtime", pc <- "capture", delivery <- delivery,
    chan <- << >>, txOpen <- TRUE, hkRecording <- FALSE, hkReleasing <- FALSE, presses <- 1,
    sigterm <- FALSE, smStops <- FALSE, notified <- "no",
    sinksMuted <- FALSE, micsMuted <- FALSE, recorder <- TRUE,
    ime <- "none", cancelled <- FALSE,
    rt <- IF erred THEN "erred" ELSE "running", session_open <- TRUE,
    committed <- live.committed_any, tail <- live.tail # << >>,
    why <- "none", heard <- "none", keysWhile <- {"none"},
    delivered <- IF delivery = "Live" /\ live.committed_any THEN {"live"} ELSE {}

\* cleanup_live_tail, then what finish_realtime_result does after it.
TailCleaned(after) ==
    /\ tail_safe
    /\ after = Backspaced(screen, Len(live.tail))
    /\ live' = cleanup(live).next

TailNotCleaned(after) ==
    /\ UNCHANGED live
    /\ \/ ~tail_safe /\ after = screen
       \/ /\ tail_safe /\ live.tail # << >>
          /\ \E n \in 0 .. Len(live.tail) : after = Backspaced(screen, n)

Shorter == {Backspaced(screen, n) : n \in 0 .. Len(live.tail)}

\* Nothing is typed any more: the marker goes, the recording is over.
finish_without_fallback ==
    /\ stage = "live"
    /\ delivery = "Live" \/ audio # "usable"
    /\ stage' = "done"
    /\ \E after \in Shorter :
         \/ /\ TailCleaned(after)
            /\ audio # "usable" \/ Rec!realtime_next_step # "FallbackBatch"
            /\ cleanup_marker(after, screen')
            /\ UNCHANGED torn
         \/ /\ TailNotCleaned(after)
            /\ cleanup_marker(after, screen')
            /\ torn' = TRUE
    /\ UNCHANGED <<failed, tail_safe, rendered, erred, given, fallback, segments>>

\* Deferred: all that was committed is typed, the clipboard pasted in it.
deliver_transcript ==
    /\ stage = "live" /\ delivery = "Deferred" /\ audio = "usable"
    /\ Rec!realtime_next_step # "FallbackBatch"
    /\ stage' = "done"
    /\ \E image \in BOOLEAN :
         LET typed == deliver_chunks(parse_banana_chunks(live.committed_text), FALSE, image)
         IN  \/ cleanup_marker(Typed(screen, typed), screen') /\ UNCHANGED torn
             \/ /\ typed # << >> /\ torn' = TRUE
                /\ \E part \in PartlyTyped(screen, typed) : cleanup_marker(part, screen')
    /\ UNCHANGED <<live, failed, tail_safe, rendered, erred, given, fallback, segments>>

\* The whole recording is transcribed again and typed, or that fails too.
finish_fallback ==
    /\ stage = "live" /\ audio = "usable"
    /\ Rec!realtime_next_step = "FallbackBatch"
    /\ stage' = "done"
    /\ \E after \in Shorter, text \in Texts, image \in BOOLEAN :
         /\ TailCleaned(after)
         /\ \E clean \in Screens(after) :
              /\ cleanup_marker(after, clean)
              /\ LET typed == deliver_chunks(parse_banana_chunks(text), FALSE, image)
                 IN  \/ screen' = Typed(clean, typed) /\ fallback' = typed /\ UNCHANGED torn
                     \/ screen' \in PartlyTyped(clean, typed) /\ fallback' = typed /\ torn' = TRUE
    /\ UNCHANGED <<failed, tail_safe, rendered, erred, given, segments>>

Done == stage = "done" /\ UNCHANGED vars

Next == Partial \/ Committed \/ Error \/ finish_without_fallback \/ deliver_transcript \/ finish_fallback \/ Done

Spec == Init /\ [][Next]_vars

-----------------------------------------------------------------------------
(* Properties.                                                              *)

\* Every variable keeps the values the code's types give it; the segment late
\* partials are compared with is one the provider sent, without separator.
TypeOK ==
    /\ stage \in {"live", "done"}
    /\ delivery \in {"Live", "Deferred"} /\ audio \in {"usable", "silent"}
    /\ marker_active \in BOOLEAN /\ erred \in BOOLEAN /\ failed \in BOOLEAN
    /\ tail_safe \in BOOLEAN /\ torn \in BOOLEAN
    /\ screen \in Seq(Cells) /\ base \in Seq(Cells) /\ rendered \in Seq(Cells)
    /\ fallback \in Seq(Cells)
    /\ live \in [committed_any : BOOLEAN, committed_text : Seq(Cells),
                latest_committed_segment : Texts, tail : Seq(Cells)]
    /\ segments \in 0 .. MaxSegments

Tail0 == IF stage = "live" THEN live.tail ELSE << >>
Marker0 == IF marker_active THEN <<Marker>> ELSE << >>

\* The committed text that has been typed: at once, or at the end in one go,
\* unless the recording turned out silent.
OnScreen(image) ==
    IF delivery = "Live" THEN rendered
    ELSE IF stage = "live" \/ audio = "silent" THEN << >>
    ELSE deliver_chunks(parse_banana_chunks(rendered), FALSE, image)

\* As long as no wtype call failed part-way, the screen is exactly the user's
\* text, every committed segment (for Live as a single delivery would have
\* typed it, clipboard pasted and delimiters included; for Deferred only at
\* the end, all segments as one text), and the tail; at the end the marker and
\* the tail are gone.
ScreenIsTranscript ==
    ~torn => \E image \in BOOLEAN :
                screen = base \o Marker0 \o OnScreen(image) \o Tail0 \o fallback

\* Whatever fails half-way, no Backspace reaches the user's own text or a
\* segment already committed to the screen.
CommittedTextKept ==
    IsPrefix(base \o (IF delivery = "Live" THEN rendered ELSE << >>), screen)

\* The batch fallback is typed on a clean line: on the screen it follows the
\* user's text directly, complete or cut short.
FallbackOnCleanLine ==
    fallback # << >> =>
        /\ rendered = << >>
        /\ \E n \in 0 .. Len(fallback) : screen = base \o SubSeq(fallback, 1, n)

\* Recording abstracts this text to flags (committed, a tail is visible, safe,
\* failed, marker): every event here is an event there, and the end of a
\* recording cleans the tail or leaves it as there.
ImplementsRecordingText ==
    [][IF stage' = "live"
       THEN Rec!process_realtime_event(TRUE)
       ELSE /\ Rec!cleanup_live_tail \/ Rec!cleanup_live_tail_failed
            /\ ~marker_active']_<<stage, live, erred, failed, tail_safe, marker_active>>
=============================================================================

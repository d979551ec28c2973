------------------------------ MODULE LiveText ------------------------------
(***************************************************************************)
(* The text of a live recording as pure functions: src/src/live_text.rs     *)
(* (the mutable tail), src/src/placeholder.rs (the dictated word that       *)
(* stands for the clipboard) and the deliveries of src/src/deliver.rs.      *)
(*                                                                          *)
(* A text is a sequence of cells; a cell is a grapheme, or the whole word   *)
(* "banana", which is counted as one on the screen and in the edits alike.  *)
(*                                                                          *)
(* A definition marked faulty stands beside the one it is a variant of; it   *)
(* is used by no specification, only to see a property fail.                *)
(***************************************************************************)
EXTENDS Naturals, Sequences, SequencesExt, FiniteSetsExt

CONSTANT Letters         \* graphemes that can be part of a word

Space == " "
Banana == "banana"
Pasted == "paste"        \* what the clipboard holds, one opaque cell
Quote == "quote"

IsWordChar(cell) == cell \in Letters \cup {Banana}

-----------------------------------------------------------------------------
(* live_text.rs                                                             *)

NewLiveText == [committed_any |-> FALSE, committed_text |-> << >>,
                latest_committed_segment |-> << >>, tail |-> << >>]

\* The leading space that separates a segment from the committed text.
segment_text(committed_any, text) ==
    IF text = << >> \/ ~committed_any THEN text ELSE <<Space>> \o text

\* Keep the common prefix, delete what follows it, insert the rest.
tail_edit(old, new) ==
    LET common == Len(LongestCommonPrefix({old, new}))
    IN  [backspaces |-> Len(old) - common,
         insert |-> SubSeq(new, common + 1, Len(new))]

replace_tail(live, target) ==
    [next |-> [live EXCEPT !.tail = target], edit |-> tail_edit(live.tail, target)]

NoEdit == [backspaces |-> 0, insert |-> << >>]

\* A late partial of the segment just committed changes nothing.
partial(live, text) ==
    IF live.latest_committed_segment # << >> /\ text = live.latest_committed_segment
    THEN [next |-> live, edit |-> NoEdit]
    ELSE replace_tail(live, segment_text(live.committed_any, text))

cleanup(live) == replace_tail(live, << >>)

AfterCommit_TailKept(live, target, finalized) ==                      \* faulty
    [live EXCEPT !.committed_any = TRUE, !.committed_text = @ \o target,
                 !.latest_committed_segment = finalized]

AfterCommit(live, target, finalized) ==
    [committed_any |-> TRUE, committed_text |-> live.committed_text \o target,
     latest_committed_segment |-> finalized, tail |-> << >>]

commit(live, finalized) ==
    IF finalized = << >> THEN cleanup(live)
    ELSE LET target == segment_text(live.committed_any, finalized)
         IN  [next |-> AfterCommit(live, target, finalized),
              edit |-> tail_edit(live.tail, target)]

-----------------------------------------------------------------------------
(* placeholder.rs                                                           *)

\* "banana" standing alone, not inside a longer word.
IsPlaceholder(text, i) ==
    /\ text[i] = Banana
    /\ i > 1 => ~IsWordChar(text[i - 1])
    /\ i < Len(text) => ~IsWordChar(text[i + 1])

\* A chunk is the placeholder or a literal, as long as possible.
parse_banana_chunks(text) ==
    LET upTo[n \in 0 .. Len(text)] ==
        IF n = 0 THEN << >>
        ELSE LET before == upTo[n - 1]
                 last == Len(before)
             IN  IF IsPlaceholder(text, n)
                 THEN Append(before, [paste |-> TRUE, text |-> << >>])
                 ELSE IF last > 0 /\ ~before[last].paste
                      THEN [before EXCEPT ![last].text = Append(@, text[n])]
                      ELSE Append(before, [paste |-> FALSE, text |-> <<text[n]>>])
    IN  upTo[Len(text)]

HasPlaceholder(chunks) == \E i \in DOMAIN chunks : chunks[i].paste

\* Whitespace at the end, or at the beginning, of a literal chunk.
EndsInSpace(chunk) == ~chunk.paste /\ Last(chunk.text) = Space
StartsWithSpace(chunk) == ~chunk.paste /\ Head(chunk.text) = Space

-----------------------------------------------------------------------------
(* deliver.rs                                                               *)

\* An image is set off by spaces unless there are some, text by quotes.
paste_delimiters(image, spaceBefore, spaceAfter) ==
    IF image
    THEN << IF spaceBefore THEN << >> ELSE <<Space>>, IF spaceAfter THEN << >> ELSE <<Space>> >>
    ELSE << <<Quote>>, <<Quote>> >>

\* What delivering the i-th chunk types and pastes.
DeliveredChunk(chunks, i, initial_has_space_before, image) ==
    IF ~chunks[i].paste THEN chunks[i].text
    ELSE LET before == IF i = 1 THEN initial_has_space_before ELSE EndsInSpace(chunks[i - 1])
             after == i < Len(chunks) /\ StartsWithSpace(chunks[i + 1])
             delimiters == paste_delimiters(image, before, after)
         IN  delimiters[1] \o <<Pasted>> \o delimiters[2]

deliver_chunks(chunks, initial_has_space_before, image) ==
    FlattenSeq([i \in DOMAIN chunks |->
                  DeliveredChunk(chunks, i, initial_has_space_before, image)])

\* The screens an edit may leave: all of it, or, when wtype fails, any
\* part of it in order.
Backspaced(screen, n) == SubSeq(screen, 1, Len(screen) - n)
Typed(screen, text) == screen \o text
apply_realtime_edit(screen, edit) == Typed(Backspaced(screen, edit.backspaces), edit.insert)
PartlyTyped(screen, text) == {screen \o SubSeq(text, 1, n) : n \in 0 .. Len(text)}
PartOfEdit(screen, edit) ==
    {Backspaced(screen, n) : n \in 0 .. edit.backspaces}
        \cup PartlyTyped(Backspaced(screen, edit.backspaces), edit.insert)

-----------------------------------------------------------------------------
(* realtime_mode.rs: pasting inside a committed segment that is on screen.  *)

\* Cells of the literal before the first placeholder, which stays as it is.
Preserved(chunks) == IF chunks[1].paste THEN << >> ELSE chunks[1].text

SpaceBefore_Unknown(preserved) == FALSE                     \* faulty
SpaceBefore(preserved) == preserved # << >> /\ Last(preserved) = Space

clipboard_replacement_plan(segment, chunks) ==
    [backspaces |-> Len(segment) - Len(Preserved(chunks)),
     start |-> IF chunks[1].paste THEN 1 ELSE 2,
     has_space_before |-> SpaceBefore(Preserved(chunks))]
=============================================================================

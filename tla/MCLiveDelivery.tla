--------------------------- MODULE MCLiveDelivery ---------------------------
(* Instances of LiveDelivery for TLC.                                       *)
EXTENDS LiveDelivery

SomeLetters == {"a", "b"}
SomeGraphemes == SomeLetters \cup {"."}

\* Texts that extend, replace and repeat each other, with the placeholder
\* alone, at either end, between words, doubled, before punctuation and inside a longer word.
SomeTexts == {
    << >>, <<"a">>, <<Banana>>, <<"a", Banana>>,
    <<"a", Space, Banana>>, <<Banana, Space, "a">>, <<Banana, ".">>,
    <<"a", Space, Banana, Space, "b">>, <<Banana, Space, Banana>>}
=============================================================================

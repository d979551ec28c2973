------------------------- MODULE LiveDeliveryProofs -------------------------
(***************************************************************************)
(* Proofs about LiveText and LiveDelivery, for any texts and any number of  *)
(* segments: an edit turns the old tail into the new one, parsing a text    *)
(* loses nothing of it, replacing the placeholders of a segment on screen   *)
(* is as good as delivering it at once, and the screen is what it should    *)
(* be, whatever fails.                                                      *)
(***************************************************************************)
EXTENDS LiveDelivery, SequenceTheorems, WellFoundedInduction, TLAPS

-----------------------------------------------------------------------------
(* Numbers.                                                                 *)

\* A set of numbers that has zero and every successor is the set of them all: the
\* least number outside would be the successor of one inside.
LEMMA Induction ==
  ASSUME NEW A \in SUBSET Nat, 0 \in A, \A n \in A : n + 1 \in A
  PROVE  A = Nat
  <1> DEFINE less == {p \in Nat \X Nat : p[1] < p[2]}
             T == Nat \ A
  <1> SUFFICES ASSUME T # {} PROVE FALSE
    OBVIOUS
  <1>1. IsWellFoundedOn(less, Nat)
    BY NatLessThanWellFounded DEF OpToRel
  <1>2. PICK m \in T : \A n \in T : <<n, m>> \notin less
    <2> HIDE DEF less
    <2> QED BY <1>1, WFMin
  <1>3. m - 1 \in Nat /\ m - 1 < m /\ (m - 1) + 1 = m
    OBVIOUS
  <1>4. m - 1 \in A
    BY <1>2, <1>3
  <1> QED BY <1>3, <1>4

\* Of numbers with a bound one is the greatest.
LEMMA Greatest ==
  ASSUME NEW A \in SUBSET Nat, A # {}, NEW b \in Nat, \A a \in A : a <= b
  PROVE  \E m \in A : \A a \in A : a <= m
  <1> DEFINE less == {p \in Nat \X Nat : p[1] < p[2]}
             T == {b - a : a \in A}
  <1>1. IsWellFoundedOn(less, Nat)
    BY NatLessThanWellFounded DEF OpToRel
  <1>2. T \subseteq Nat /\ T # {}
    <2>1. \A a \in A : a \in Nat /\ b - a \in Nat
      OBVIOUS
    <2>2. PICK a \in A : TRUE
      OBVIOUS
    <2> QED BY <2>1, <2>2
  <1>3. PICK m \in T : \A n \in T : <<n, m>> \notin less
    <2> HIDE DEF less, T
    <2> QED BY <1>1, <1>2, WFMin
  <1>4. PICK a \in A : m = b - a
    BY <1>3
  <1>5. \A c \in A : b - c \in T /\ b - c \in Nat
    BY <1>2
  <1>6. \A c \in A : ~(b - c < m)
    BY <1>2, <1>3, <1>5
  <1> QED BY <1>4, <1>6

-----------------------------------------------------------------------------
(* Parts of sequences.                                                      *)

\* The beginning of a sequence, and the rest.
LEMMA PrefixFacts ==
  ASSUME NEW C, NEW s \in Seq(C), NEW n \in 0 .. Len(s)
  PROVE  /\ SubSeq(s, 1, n) \in Seq(C) /\ Len(SubSeq(s, 1, n)) = n
         /\ \A i \in 1 .. n : SubSeq(s, 1, n)[i] = s[i]
         /\ SubSeq(s, n + 1, Len(s)) \in Seq(C)
         /\ SubSeq(s, 1, n) \o SubSeq(s, n + 1, Len(s)) = s
  <1>1. Len(s) \in Nat /\ n \in Nat /\ n <= Len(s) /\ \A i \in 1 .. Len(s) : s[i] \in C
    BY ElementOfSeq, LenProperties
  <1>2. \A i \in 1 .. n : s[i] \in C
    BY <1>1
  <1>3. \A i \in n + 1 .. Len(s) : s[i] \in C
    BY <1>1
  <1>4. /\ SubSeq(s, 1, n) \in Seq(C) /\ Len(SubSeq(s, 1, n)) = n
        /\ \A i \in 1 .. n : SubSeq(s, 1, n)[i] = s[i]
    <2>1. /\ SubSeq(s, 1, n) \in Seq(C)
          /\ Len(SubSeq(s, 1, n)) = IF 1 <= n THEN n - 1 + 1 ELSE 0
          /\ \A i \in 1 .. n - 1 + 1 : SubSeq(s, 1, n)[i] = s[1 + i - 1]
      BY <1>1, <1>2, SubSeqProperties
    <2> QED BY <1>1, <2>1
  <1>5. SubSeq(s, n + 1, Len(s)) \in Seq(C)
    BY <1>1, <1>3, SubSeqProperties
  <1>6. SubSeq(s, 1, n) \o SubSeq(s, n + 1, Len(s)) = SubSeq(s, 1, Len(s))
    <2>1. 1 \in 1 .. Len(s) + 1 /\ n \in 1 - 1 .. Len(s) /\ Len(s) \in n .. Len(s)
      BY <1>1
    <2> QED BY <2>1, ConcatAdjacentSubSeq
  <1> QED BY <1>4, <1>5, <1>6, SubSeqFull

\* Backspaces that stay in the text after s.
LEMMA BackspacedFacts ==
  ASSUME NEW C, NEW s \in Seq(C), NEW t \in Seq(C), NEW n \in 0 .. Len(t)
  PROVE  Backspaced(s \o t, n) = s \o SubSeq(t, 1, Len(t) - n)
  <1> DEFINE k == Len(t) - n
             u == SubSeq(t, 1, k)
             whole == s \o t
  <1>1. /\ Len(s) \in Nat /\ Len(t) \in Nat /\ n \in Nat /\ k \in 0 .. Len(t)
        /\ whole \in Seq(C) /\ Len(whole) = Len(s) + Len(t)
    BY LenProperties, ConcatProperties
  <1>2. \A i \in 1 .. Len(s) + Len(t) : whole[i] = IF i <= Len(s) THEN s[i] ELSE t[i - Len(s)]
    BY ConcatProperties
  <1> HIDE DEF k, whole
  <1>3. u \in Seq(C) /\ Len(u) = k /\ \A i \in 1 .. k : u[i] = t[i]
    BY <1>1, PrefixFacts
  <1> HIDE DEF u
  <1>4. /\ s \o u \in Seq(C) /\ Len(s \o u) = Len(s) + k
        /\ \A i \in 1 .. Len(s) + k : (s \o u)[i] = IF i <= Len(s) THEN s[i] ELSE u[i - Len(s)]
    BY <1>3, ConcatProperties
  <1>5. Len(whole) - n = Len(s) + k /\ Len(s) + k \in 0 .. Len(whole)
    BY <1>1 DEF k
  <1>6. /\ SubSeq(whole, 1, Len(s) + k) \in Seq(C) /\ Len(SubSeq(whole, 1, Len(s) + k)) = Len(s) + k
        /\ \A i \in 1 .. Len(s) + k : SubSeq(whole, 1, Len(s) + k)[i] = whole[i]
    BY <1>1, <1>5, PrefixFacts
  <1>7. \A i \in 1 .. Len(s) + k : SubSeq(whole, 1, Len(s) + k)[i] = (s \o u)[i]
    BY <1>1, <1>2, <1>3, <1>4, <1>6
  <1>8. SubSeq(whole, 1, Len(s) + k) = s \o u
    BY <1>4, <1>6, <1>7, SeqEqual
  <1> QED BY <1>5, <1>8 DEF Backspaced, whole, u, k

\* A text followed by anything begins with it.
LEMMA PrefixOfConcat ==
  ASSUME NEW C, NEW s \in Seq(C), NEW t \in Seq(C)
  PROVE  IsPrefix(s, s \o t)
  <1> DEFINE whole == s \o t
             n == Len(s)
  <1>1. n \in Nat /\ Len(t) \in Nat /\ whole \in Seq(C) /\ Len(whole) = n + Len(t)
    BY LenProperties, ConcatProperties
  <1>2. \A i \in 1 .. n : whole[i] = s[i]
    <2>1. \A i \in 1 .. n + Len(t) : whole[i] = IF i <= n THEN s[i] ELSE t[i - n]
      BY ConcatProperties
    <2> QED BY <1>1, <2>1
  <1>3. SubSeq(s, 1, n) = s
    BY SubSeqFull
  <1> HIDE DEF whole
  <1>4. /\ SubSeq(whole, 1, n) \in Seq(C) /\ Len(SubSeq(whole, 1, n)) = n
        /\ \A i \in 1 .. n : SubSeq(whole, 1, n)[i] = whole[i]
    BY <1>1, PrefixFacts
  <1>5. SubSeq(whole, 1, n) = s
    BY <1>1, <1>2, <1>4, SeqEqual
  <1> QED BY <1>1, <1>3, <1>5 DEF IsPrefix, whole

\* Concatenation is associative, and has no effect with an empty sequence.
LEMMA ConcatLaws ==
  ASSUME NEW C
  PROVE  /\ \A s, t \in Seq(C) : s \o t \in Seq(C)
         /\ \A s, t, u \in Seq(C) : (s \o t) \o u = s \o (t \o u)
         /\ \A s \in Seq(C) : s \o << >> = s /\ << >> \o s = s
         /\ << >> \in Seq(C)
  BY ConcatProperties, ConcatAssociative, ConcatEmptySeq, EmptySeq, SMTT(40)

-----------------------------------------------------------------------------
(* Recursion along a sequence, and FlattenSeq.                              *)

\* A function defined by its first value and by a step from each value to the next
\* exists.
IsRecursive(f, zero, size, step) ==
    f[0] = zero /\ \A n \in 1 .. size : f[n] = step[n][f[n - 1]]

LEMMA RecursionExists ==
  ASSUME NEW S, NEW zero \in S, NEW size \in Nat, NEW step \in [1 .. size -> [S -> S]]
  PROVE  \E f \in [0 .. size -> S] : IsRecursive(f, zero, size, step)
  <1> DEFINE Good(k, f) ==
                /\ f \in [0 .. k -> S]
                /\ f[0] = zero /\ \A n \in 1 .. k : f[n] = step[n][f[n - 1]]
             A == {k \in Nat : k <= size => \E f : Good(k, f)}
  <1>1. 0 \in A
    <2> DEFINE f == [n \in 0 .. 0 |-> zero]
    <2>1. Good(0, f)
      OBVIOUS
    <2> HIDE DEF Good
    <2> QED BY <2>1
  <1>2. ASSUME NEW k \in A, k + 1 <= size
        PROVE  \E f : Good(k + 1, f)
    <2>1. k \in Nat /\ k <= size
      BY <1>2
    <2>2. PICK f : Good(k, f)
      <3> HIDE DEF Good
      <3> QED BY <2>1
    <2> DEFINE next == step[k + 1][f[k]]
               more == [n \in 0 .. k + 1 |-> IF n <= k THEN f[n] ELSE next]
    <2>3. next \in S
      <3>1. f[k] \in S /\ step[k + 1] \in [S -> S]
        BY <1>2, <2>1, <2>2
      <3> QED BY <3>1
    <2> HIDE DEF next
    <2>4. more \in [0 .. k + 1 -> S] /\ more[0] = zero
      BY <2>1, <2>2, <2>3
    <2>5. ASSUME NEW n \in 1 .. k
          PROVE  more[n] = step[n][more[n - 1]]
      <3>1. more[n] = f[n] /\ more[n - 1] = f[n - 1]
        BY <2>1
      <3>2. f[n] = step[n][f[n - 1]]
        BY <2>2
      <3> HIDE DEF more
      <3> QED BY <3>1, <3>2
    <2>6. more[k + 1] = step[k + 1][more[k + 1 - 1]]
      <3>1. more[k + 1] = next /\ more[k + 1 - 1] = f[k]
        BY <2>1
      <3> HIDE DEF more
      <3> QED BY <3>1 DEF next
    <2>7. \A n \in 1 .. k + 1 : n \in 1 .. k \/ n = k + 1
      BY <2>1
    <2>8. Good(k + 1, more)
      <3> HIDE DEF more
      <3> QED BY <2>4, <2>5, <2>6, <2>7
    <2> HIDE DEF Good
    <2> QED BY <2>8
  <1>3. A = Nat
    <2>1. \A n \in A : n + 1 \in A
      <3> HIDE DEF Good
      <3> QED BY <1>2
    <2> HIDE DEF A
    <2>2. A \in SUBSET Nat
      BY DEF A
    <2> QED BY <1>1, <2>1, <2>2, Induction
  <1>4. size \in A
    <2> HIDE DEF A
    <2> QED BY <1>3
  <1>5. \E f : Good(size, f)
    <2> HIDE DEF Good
    <2> QED BY <1>4
  <1> QED BY <1>5 DEF IsRecursive

\* What has been flattened after each of the sequences.
IsFlattening(seqs, f) ==
    f[0] = << >> /\ \A n \in 1 .. Len(seqs) : f[n] = f[n - 1] \o seqs[n]

LEMMA FlatteningExists ==
  ASSUME NEW C, NEW seqs \in Seq(Seq(C))
  PROVE  \E f \in [0 .. Len(seqs) -> Seq(C)] : IsFlattening(seqs, f)
  <1> DEFINE size == Len(seqs)
             step == [n \in 1 .. size |-> [s \in Seq(C) |-> s \o seqs[n]]]
  <1>1. size \in Nat /\ << >> \in Seq(C) /\ \A n \in 1 .. size : seqs[n] \in Seq(C)
    BY LenProperties, EmptySeq, ElementOfSeq
  <1>2. ASSUME NEW n \in 1 .. size
        PROVE  step[n] \in [Seq(C) -> Seq(C)]
    <2>1. \A s \in Seq(C) : s \o seqs[n] \in Seq(C)
      BY <1>1, ConcatProperties
    <2> QED BY <2>1
  <1>3. \A n \in 1 .. size : \A s \in Seq(C) : step[n][s] = s \o seqs[n]
    OBVIOUS
  <1>4. step \in [1 .. size -> [Seq(C) -> Seq(C)]]
    BY <1>2
  <1> DEFINE S == Seq(C)
             zero == << >>
  <1>5. zero \in S /\ size \in Nat /\ step \in [1 .. size -> [S -> S]]
    BY <1>1, <1>4
  <1>6. \A n \in 1 .. size : \A s \in S : step[n][s] = s \o seqs[n]
    BY <1>3
  <1> HIDE DEF step, size, S, zero
  <1>7. PICK f \in [0 .. size -> S] : IsRecursive(f, zero, size, step)
    BY <1>5, RecursionExists
  <1>8. ASSUME NEW n \in 1 .. size
        PROVE  f[n] = f[n - 1] \o seqs[n]
    <2>1. f[n - 1] \in S /\ f[n] = step[n][f[n - 1]]
      BY <1>5, <1>7 DEF IsRecursive
    <2> QED BY <1>6, <2>1
  <1>9. f[0] = << >>
    BY <1>7 DEF zero, IsRecursive
  <1>10. f \in [0 .. Len(seqs) -> Seq(C)]
    BY <1>7 DEF size, S
  <1> QED BY <1>8, <1>9, <1>10 DEF IsFlattening, size

\* There is one such function: it gives FlattenSeq, whatever way it was found.
LEMMA FlattenSeqIs ==
  ASSUME NEW C, NEW seqs \in Seq(Seq(C)), NEW f, IsFlattening(seqs, f)
  PROVE  FlattenSeq(seqs) = f[Len(seqs)]
  <1> DEFINE size == Len(seqs)
             Flatten(g) == g = [i \in 1 .. size |-> IF i = 1 THEN seqs[i] ELSE g[i - 1] \o seqs[i]]
  <1>1. size \in Nat /\ \A n \in 1 .. size : seqs[n] \in Seq(C)
    BY LenProperties, ElementOfSeq
  <1>2. \A n \in 1 .. size : f[n] = f[n - 1] \o seqs[n]
    BY DEF IsFlattening
  <1>0. f[0] = << >>
    BY DEF IsFlattening
  <1>3. CASE size = 0
    <2>1. seqs = << >>
      BY <1>3, EmptySeq
    <2> QED BY <1>0, <1>3, <2>1 DEF FlattenSeq
  <1>4. CASE size # 0
    <2>1. 1 \in 1 .. size
      BY <1>1, <1>4
    <2>2. f[1] = seqs[1]
      <3> HIDE DEF size
      <3>1. f[1] = f[1 - 1] \o seqs[1]
        BY <1>2, <2>1
      <3>2. << >> \o seqs[1] = seqs[1]
        BY <1>1, <2>1, ConcatEmptySeq
      <3>3. 1 - 1 = 0
        OBVIOUS
      <3> QED BY <1>0, <3>1, <3>2, <3>3
    <2> DEFINE restricted == [i \in 1 .. size |-> f[i]]
    <2>3. Flatten(restricted)
      <3>1. ASSUME NEW i \in 1 .. size, i # 1
            PROVE  restricted[i - 1] = f[i - 1]
        BY <1>1, <3>1
      <3>2. ASSUME NEW i \in 1 .. size
            PROVE  f[i] = IF i = 1 THEN seqs[i] ELSE restricted[i - 1] \o seqs[i]
        BY <1>2, <2>2, <3>1
      <3> QED BY <3>2
    <2> DEFINE chosen == CHOOSE g : Flatten(g)
    <2>4. Flatten(chosen)
      <3> HIDE DEF Flatten, restricted
      <3> QED BY <2>3
    <2>5. FlattenSeq(seqs) = chosen[size]
      BY <1>4 DEF FlattenSeq
    <2> HIDE DEF chosen, size
    <2>6. chosen[1] = seqs[1]
      BY <2>1, <2>4
    <2>7. \A i \in 1 .. size : i # 1 => chosen[i] = chosen[i - 1] \o seqs[i]
      BY <2>4
    <2>8. \A i \in 1 .. size : i # 1 /\ chosen[i - 1] = f[i - 1] => chosen[i] = f[i]
      BY <1>2, <2>7
    <2> DEFINE A == {n \in Nat : n + 1 <= size => chosen[n + 1] = f[n + 1]}
    <2>9. 0 \in A
      BY <2>2, <2>6
    <2>10. ASSUME NEW n \in A
          PROVE  n + 1 \in A
      <3>1. n \in Nat /\ n + 1 \in Nat /\ (n + 1 <= size => chosen[n + 1] = f[n + 1])
        OBVIOUS
      <3>2. ASSUME n + 2 <= size
            PROVE  chosen[n + 2] = f[n + 2]
        <4>1. n + 2 \in 1 .. size /\ n + 2 # 1 /\ n + 2 - 1 = n + 1 /\ n + 1 <= size
          BY <1>1, <3>1, <3>2
        <4>2. chosen[n + 2 - 1] = f[n + 2 - 1]
          BY <3>1, <4>1
        <4> HIDE DEF A
        <4> QED BY <2>8, <3>1, <4>1, <4>2
      <3>3. (n + 1) + 1 = n + 2
        BY <3>1
      <3> QED BY <3>1, <3>2, <3>3
    <2>11. A = Nat
      <3>1. A \in SUBSET Nat
        OBVIOUS
      <3> HIDE DEF A
      <3> QED BY <2>9, <2>10, <3>1, Induction
    <2>12. size - 1 \in A /\ (size - 1) + 1 = size
      <3> HIDE DEF A
      <3> QED BY <1>1, <1>4, <2>11
    <2>13. chosen[size] = f[size]
      BY <1>1, <2>12
    <2> QED BY <2>5, <2>13 DEF size
  <1> QED BY <1>3, <1>4

LEMMA FlattenType ==
  ASSUME NEW C, NEW seqs \in Seq(Seq(C))
  PROVE  FlattenSeq(seqs) \in Seq(C)
  <1>1. PICK f \in [0 .. Len(seqs) -> Seq(C)] : IsFlattening(seqs, f)
    BY FlatteningExists
  <1>2. Len(seqs) \in 0 .. Len(seqs)
    BY LenProperties
  <1> QED BY <1>1, <1>2, FlattenSeqIs

\* One sequence more at the end.
LEMMA FlattenLast ==
  ASSUME NEW C, NEW seqs \in Seq(Seq(C)), NEW more \in Seq(Seq(C)),
         Len(more) = Len(seqs) + 1, \A i \in 1 .. Len(seqs) : more[i] = seqs[i]
  PROVE  FlattenSeq(more) = FlattenSeq(seqs) \o more[Len(more)]
  <1>1. Len(seqs) \in Nat
    BY LenProperties
  <1>2. PICK f \in [0 .. Len(more) -> Seq(C)] : IsFlattening(more, f)
    BY FlatteningExists
  <1>3. f[0] = << >>
    BY <1>2 DEF IsFlattening
  <1>4. ASSUME NEW n \in 1 .. Len(more)
        PROVE  f[n] = f[n - 1] \o more[n]
    BY <1>2 DEF IsFlattening
  <1>5. ASSUME NEW n \in 1 .. Len(seqs)
        PROVE  f[n] = f[n - 1] \o seqs[n]
    <2>1. n \in 1 .. Len(more)
      BY <1>1
    <2> QED BY <1>4, <2>1
  <1>6. IsFlattening(seqs, f)
    BY <1>3, <1>5 DEF IsFlattening
  <1>7. FlattenSeq(seqs) = f[Len(seqs)] /\ FlattenSeq(more) = f[Len(more)]
    BY <1>2, <1>6, FlattenSeqIs
  <1>8. Len(more) \in 1 .. Len(more) /\ Len(more) - 1 = Len(seqs)
    BY <1>1
  <1>9. f[Len(more)] = f[Len(more) - 1] \o more[Len(more)]
    BY <1>4, <1>8
  <1> QED BY <1>7, <1>8, <1>9

\* One sequence more at the beginning.
LEMMA FlattenFirst ==
  ASSUME NEW C, NEW seqs \in Seq(Seq(C)), NEW more \in Seq(Seq(C)),
         Len(more) = Len(seqs) + 1, \A i \in 1 .. Len(seqs) : more[i + 1] = seqs[i]
  PROVE  FlattenSeq(more) = more[1] \o FlattenSeq(seqs)
  <1> DEFINE s == more[1]
  <1>1. Len(seqs) \in Nat /\ s \in Seq(C) /\ \A i \in 1 .. Len(seqs) : seqs[i] \in Seq(C)
    <2>1. Len(seqs) \in Nat
      BY LenProperties
    <2>2. 1 \in 1 .. Len(more)
      BY <2>1
    <2> QED BY <2>1, <2>2, ElementOfSeq
  <1>2. PICK f \in [0 .. Len(seqs) -> Seq(C)] : IsFlattening(seqs, f)
    BY FlatteningExists
  <1>3. f[0] = << >>
    BY <1>2 DEF IsFlattening
  <1>4. ASSUME NEW n \in 1 .. Len(seqs)
        PROVE  f[n] = f[n - 1] \o seqs[n] /\ f[n - 1] \in Seq(C) /\ f[n] \in Seq(C)
    <2>1. n - 1 \in 0 .. Len(seqs) /\ n \in 0 .. Len(seqs)
      BY <1>1
    <2> QED BY <1>2, <2>1 DEF IsFlattening
  <1> DEFINE g == [n \in 0 .. Len(more) |-> IF n = 0 THEN << >> ELSE s \o f[n - 1]]
  <1> HIDE DEF s
  <1>5. g[0] = << >> /\ \A n \in 1 .. Len(more) : g[n] = s \o f[n - 1]
    <2>1. g[0] = << >>
      BY <1>1
    <2>2. ASSUME NEW n \in 1 .. Len(more)
          PROVE  g[n] = s \o f[n - 1]
      BY <1>1
    <2> HIDE DEF g
    <2> QED BY <2>1, <2>2
  <1> HIDE DEF g
  <1>6. g[1] = g[0] \o more[1]
    <2>1. g[1] = s \o f[1 - 1] /\ 1 - 1 = 0
      <3>1. 1 \in 1 .. Len(more)
        BY <1>1
      <3> QED BY <1>5, <3>1
    <2>2. s \o << >> = s /\ << >> \o s = s
      BY <1>1, ConcatEmptySeq
    <2> QED BY <1>3, <1>5, <2>1, <2>2 DEF s
  <1>7. ASSUME NEW n \in 1 .. Len(seqs)
        PROVE  g[n + 1] = g[n] \o more[n + 1]
    <2>1. n + 1 \in 1 .. Len(more) /\ n \in 1 .. Len(more) /\ (n + 1) - 1 = n
      BY <1>1
    <2>2. g[n + 1] = s \o f[n] /\ g[n] = s \o f[n - 1]
      <3>1. g[n + 1] = s \o f[(n + 1) - 1] /\ g[n] = s \o f[n - 1]
        BY <1>5, <2>1
      <3> QED BY <2>1, <3>1
    <2>3. (s \o f[n - 1]) \o seqs[n] = s \o (f[n - 1] \o seqs[n])
      <3> DEFINE u == f[n - 1]
                 v == seqs[n]
      <3>1. s \in Seq(C) /\ u \in Seq(C) /\ v \in Seq(C)
        BY <1>1, <1>4
      <3> HIDE DEF u, v
      <3>2. \A x, y, z \in Seq(C) : (x \o y) \o z = x \o (y \o z)
        BY ConcatLaws
      <3>3. (s \o u) \o v = s \o (u \o v)
        BY <3>1, <3>2
      <3> QED BY <3>3 DEF u, v
    <2> QED BY <1>4, <2>2, <2>3
  <1>8. ASSUME NEW n \in 1 .. Len(more)
        PROVE  g[n] = g[n - 1] \o more[n]
    <2>1. CASE n = 1
      BY <1>6, <2>1
    <2>2. CASE n # 1
      <3>1. n - 1 \in 1 .. Len(seqs) /\ (n - 1) + 1 = n
        BY <1>1, <2>2
      <3>2. g[(n - 1) + 1] = g[n - 1] \o more[(n - 1) + 1]
        BY <1>7, <3>1
      <3> QED BY <3>1, <3>2
    <2> QED BY <2>1, <2>2
  <1>9. IsFlattening(more, g)
    BY <1>5, <1>8 DEF IsFlattening
  <1>10. FlattenSeq(more) = g[Len(more)] /\ FlattenSeq(seqs) = f[Len(seqs)]
    BY <1>2, <1>9, FlattenSeqIs
  <1>11. g[Len(more)] = s \o f[Len(more) - 1] /\ Len(more) - 1 = Len(seqs)
    <2>1. Len(more) \in 1 .. Len(more) /\ Len(more) - 1 = Len(seqs)
      BY <1>1
    <2> QED BY <1>5, <2>1
  <1> QED BY <1>10, <1>11 DEF s

-----------------------------------------------------------------------------
(* The edits of the tail (live_text.rs).                                    *)

\* Two texts have a longest common beginning.
LEMMA CommonPrefix ==
  ASSUME NEW C, NEW old \in Seq(C), NEW new \in Seq(C)
  PROVE  LET common == Len(LongestCommonPrefix({old, new}))
         IN  /\ common \in 0 .. Len(old) /\ common \in 0 .. Len(new)
             /\ SubSeq(old, 1, common) = SubSeq(new, 1, common)
  <1> DEFINE P == CommonPrefixes({old, new})
             Longest(p) == p \in P /\ \A q \in P : Len(q) <= Len(p)
  <1>1. Len(old) \in Nat /\ Len(new) \in Nat
    BY LenProperties
  <1>2. ASSUME NEW p \in P
        PROVE  /\ p \in Seq(C) /\ Len(p) \in Nat
               /\ Len(p) <= Len(old) /\ SubSeq(p, 1, Len(p)) = SubSeq(old, 1, Len(p))
               /\ Len(p) <= Len(new) /\ SubSeq(p, 1, Len(p)) = SubSeq(new, 1, Len(p))
    <2>1. p \in Prefixes(old) \cup Prefixes(new) /\ IsPrefix(p, old) /\ IsPrefix(p, new)
      BY DEF CommonPrefixes
    <2>2. p \in Seq(C)
      <3>1. ASSUME NEW s \in Seq(C), p \in Prefixes(s)
            PROVE  p \in Seq(C)
        <4>1. PICK l \in 0 .. Len(s) : p = SubSeq(s, 1, l)
          BY <3>1 DEF Prefixes
        <4> QED BY <4>1, PrefixFacts
      <3> QED BY <2>1, <3>1
    <2>3. Len(p) \in Nat
      BY <2>2, LenProperties
    <2> QED BY <2>1, <2>2, <2>3 DEF IsPrefix
  <1>3. << >> \in P
    <2>1. << >> = SubSeq(old, 1, 0) /\ << >> = SubSeq(new, 1, 0) /\ << >> = SubSeq(<< >>, 1, 0)
      BY SubSeqEmpty
    <2>2. Len(<< >>) = 0
      BY EmptySeq
    <2>3. IsPrefix(<< >>, old) /\ IsPrefix(<< >>, new)
      BY <1>1, <2>1, <2>2 DEF IsPrefix
    <2>4. << >> \in Prefixes(old)
      <3>1. 0 \in 0 .. Len(old)
        BY <1>1
      <3> QED BY <2>1, <3>1 DEF Prefixes
    <2> QED BY <2>3, <2>4 DEF CommonPrefixes
  <1> HIDE DEF P
  <1>4. \E p : Longest(p)
    <2> DEFINE lengths == {Len(p) : p \in P}
    <2>1. lengths \in SUBSET Nat /\ \A n \in lengths : n <= Len(old)
      BY <1>2
    <2>2. lengths # {}
      BY <1>3
    <2>3. PICK m \in lengths : \A n \in lengths : n <= m
      <3> HIDE DEF lengths
      <3> QED BY <1>1, <2>1, <2>2, Greatest
    <2>4. PICK p \in P : m = Len(p)
      BY <2>3
    <2>5. \A q \in P : Len(q) <= Len(p)
      BY <2>3, <2>4
    <2> QED BY <2>5
  <1> DEFINE longest == CHOOSE p : Longest(p)
  <1>5. Longest(longest)
    <2> HIDE DEF Longest
    <2> QED BY <1>4
  <1>6. LongestCommonPrefix({old, new}) = longest
    BY DEF LongestCommonPrefix, P
  <1> HIDE DEF longest
  <1>7. /\ Len(longest) \in Nat
        /\ Len(longest) <= Len(old) /\ SubSeq(longest, 1, Len(longest)) = SubSeq(old, 1, Len(longest))
        /\ Len(longest) <= Len(new) /\ SubSeq(longest, 1, Len(longest)) = SubSeq(new, 1, Len(longest))
    BY <1>2, <1>5
  <1>8. /\ Len(longest) \in 0 .. Len(old) /\ Len(longest) \in 0 .. Len(new)
        /\ SubSeq(old, 1, Len(longest)) = SubSeq(new, 1, Len(longest))
    BY <1>1, <1>7
  <1> QED BY <1>6, <1>8, Zenon

\* Backspaces and typing that stay after s leave any text there, but s stays.
Extensions(C, s) == {s \o t : t \in Seq(C)}

LEMMA CutKeepsText ==
  ASSUME NEW C, NEW s \in Seq(C), NEW t \in Seq(C), NEW n \in 0 .. Len(t)
  PROVE  Backspaced(s \o t, n) \in Extensions(C, s)
  <1>1. Len(t) \in Nat
    BY LenProperties
  <1>2. Len(t) - n \in 0 .. Len(t)
    BY <1>1
  <1>3. SubSeq(t, 1, Len(t) - n) \in Seq(C)
    BY <1>2, PrefixFacts
  <1> QED BY <1>3, BackspacedFacts DEF Extensions

LEMMA TypingKeepsText ==
  ASSUME NEW C, NEW s \in Seq(C), NEW before \in Extensions(C, s), NEW text \in Seq(C)
  PROVE  PartlyTyped(before, text) \subseteq Extensions(C, s)
  <1> SUFFICES ASSUME NEW n \in 0 .. Len(text)
               PROVE  before \o SubSeq(text, 1, n) \in Extensions(C, s)
    BY DEF PartlyTyped
  <1>1. PICK t \in Seq(C) : before = s \o t
    BY DEF Extensions
  <1> DEFINE v == SubSeq(text, 1, n)
  <1>2. v \in Seq(C)
    BY PrefixFacts
  <1> HIDE DEF v
  <1>3. t \o v \in Seq(C) /\ (s \o t) \o v = s \o (t \o v)
    BY <1>2, ConcatLaws, SMTT(40)
  <1>4. before \o v \in Extensions(C, s)
    BY <1>1, <1>3 DEF Extensions
  <1> QED BY <1>4 DEF v

\* Applying the edit between two tails replaces the one by the other, and an edit
\* cut short leaves what was before the tail (live_text.rs:98-133).
THEOREM EditReplacesTail ==
  ASSUME NEW C, NEW s \in Seq(C), NEW old \in Seq(C), NEW new \in Seq(C)
  PROVE  /\ apply_realtime_edit(s \o old, tail_edit(old, new)) = s \o new
         /\ PartOfEdit(s \o old, tail_edit(old, new)) \subseteq Extensions(C, s)
  <1> DEFINE edit == tail_edit(old, new)
             common == Len(LongestCommonPrefix({old, new}))
             kept == SubSeq(new, 1, common)
             added == SubSeq(new, common + 1, Len(new))
  <1>1. /\ common \in 0 .. Len(old) /\ common \in 0 .. Len(new)
        /\ SubSeq(old, 1, common) = kept
    BY CommonPrefix
  <1>2. edit.backspaces = Len(old) - common /\ edit.insert = added
    BY DEF tail_edit
  <1> HIDE DEF edit, common, kept, added
  <1>3. kept \in Seq(C) /\ added \in Seq(C) /\ kept \o added = new
    BY <1>1, PrefixFacts DEF kept, added
  <1>4. /\ Len(old) \in Nat /\ Len(old) - common \in 0 .. Len(old)
        /\ Len(old) - (Len(old) - common) = common
    <2>1. Len(old) \in Nat
      BY LenProperties
    <2> QED BY <1>1, <2>1
  <1>5. Backspaced(s \o old, edit.backspaces) = s \o kept
    <2>1. Backspaced(s \o old, Len(old) - common) = s \o SubSeq(old, 1, Len(old) - (Len(old) - common))
      BY <1>4, BackspacedFacts
    <2> QED BY <1>1, <1>2, <1>4, <2>1
  <1>6. apply_realtime_edit(s \o old, edit) = s \o new
    <2>1. (s \o kept) \o added = s \o (kept \o added)
      <3>1. \A x, y, z \in Seq(C) : (x \o y) \o z = x \o (y \o z)
        BY ConcatLaws
      <3> QED BY <1>3, <3>1, ZenonT(60)
    <2> QED BY <1>2, <1>3, <1>5, <2>1 DEF apply_realtime_edit, Typed
  <1>7. ASSUME NEW n \in 0 .. edit.backspaces
        PROVE  Backspaced(s \o old, n) \in Extensions(C, s)
    <2>1. n \in 0 .. Len(old)
      BY <1>2, <1>4
    <2> QED BY <2>1, CutKeepsText
  <1>8. PartlyTyped(s \o kept, added) \subseteq Extensions(C, s)
    <2>1. s \o kept \in Extensions(C, s)
      BY <1>3 DEF Extensions
    <2> QED BY <1>3, <2>1, TypingKeepsText
  <1>9. PartOfEdit(s \o old, edit) \subseteq Extensions(C, s)
    BY <1>2, <1>5, <1>7, <1>8 DEF PartOfEdit
  <1> QED BY <1>6, <1>9 DEF edit

\* Nothing is to be done where there was and is no tail.
LEMMA EmptyEdit == tail_edit(<< >>, << >>) = NoEdit
  <1> DEFINE C == {}
             common == Len(LongestCommonPrefix({<< >>, << >>}))
  <1>1. << >> \in Seq(C) /\ Len(<< >>) = 0
    BY EmptySeq
  <1>2. common \in 0 .. Len(<< >>)
    BY <1>1, CommonPrefix
  <1> HIDE DEF common
  <1>3. common = 0
    BY <1>1, <1>2
  <1>4. SubSeq(<< >>, 0 + 1, 0) = << >>
    BY SubSeqEmpty
  <1> QED BY <1>1, <1>3, <1>4 DEF tail_edit, NoEdit, common

-----------------------------------------------------------------------------
(* The dictated placeholder (placeholder.rs).                               *)

\* A chunk is the placeholder or a literal that is not empty.
Chunk(C) == {chunk \in [paste : BOOLEAN, text : Seq(C)] : chunk.paste <=> chunk.text = << >>}

\* What a chunk was parsed from.
Source(chunk) == IF chunk.paste THEN <<Banana>> ELSE chunk.text
Sources(chunks) == [i \in 1 .. Len(chunks) |-> Source(chunks[i])]

\* One round of the loop of parse_banana_chunks.
Extended(text, n, before) ==
    LET last == Len(before)
    IN  IF IsPlaceholder(text, n)
        THEN Append(before, [paste |-> TRUE, text |-> << >>])
        ELSE IF last > 0 /\ ~before[last].paste
             THEN [before EXCEPT ![last].text = Append(@, text[n])]
             ELSE Append(before, [paste |-> FALSE, text |-> <<text[n]>>])

LEMMA SourcesType ==
  ASSUME NEW C, Banana \in C, NEW chunks \in Seq(Chunk(C))
  PROVE  Sources(chunks) \in Seq(Seq(C)) /\ Len(Sources(chunks)) = Len(chunks)
  <1>1. Len(chunks) \in Nat
    BY LenProperties
  <1>2. ASSUME NEW i \in 1 .. Len(chunks)
        PROVE  Source(chunks[i]) \in Seq(C)
    <2>1. chunks[i] \in Chunk(C)
      BY ElementOfSeq
    <2>2. <<Banana>> \in Seq(C)
      OBVIOUS
    <2> QED BY <2>1, <2>2 DEF Source, Chunk
  <1> QED BY <1>1, <1>2 DEF Sources

\* A chunk more at the end adds what it was parsed from.
LEMMA SourceAppended ==
  ASSUME NEW C, Banana \in C, NEW chunks \in Seq(Chunk(C)), NEW chunk \in Chunk(C)
  PROVE  /\ Append(chunks, chunk) \in Seq(Chunk(C))
         /\ FlattenSeq(Sources(Append(chunks, chunk))) = FlattenSeq(Sources(chunks)) \o Source(chunk)
  <1> DEFINE more == Append(chunks, chunk)
             size == Len(chunks)
  <1>1. /\ more \in Seq(Chunk(C)) /\ Len(more) = size + 1 /\ more[size + 1] = chunk
        /\ \A i \in 1 .. size : more[i] = chunks[i]
    BY AppendProperties
  <1>2. size \in Nat
    BY LenProperties
  <1> HIDE DEF more
  <1>3. /\ Sources(chunks) \in Seq(Seq(C)) /\ Len(Sources(chunks)) = size
        /\ Sources(more) \in Seq(Seq(C)) /\ Len(Sources(more)) = size + 1
    BY <1>1, SourcesType
  <1>4. \A i \in 1 .. size : Sources(more)[i] = Sources(chunks)[i]
    BY <1>1, <1>2 DEF Sources
  <1>5. Sources(more)[size + 1] = Source(chunk)
    BY <1>1, <1>2 DEF Sources
  <1>6. FlattenSeq(Sources(more)) = FlattenSeq(Sources(chunks)) \o Sources(more)[size + 1]
    <2> HIDE DEF size
    <2> QED BY <1>3, <1>4, FlattenLast
  <1> QED BY <1>1, <1>5, <1>6 DEF more

\* Another last chunk changes what the text ends with.
OneMore(text, longer, cell) == longer = text \o <<cell>>

LEMMA SourceReplaced ==
  ASSUME NEW C, Banana \in C, NEW chunks \in Seq(Chunk(C)), chunks # << >>,
         NEW chunk \in Chunk(C), NEW cell \in C,
         OneMore(Source(chunks[Len(chunks)]), Source(chunk), cell)
  PROVE  LET after == [chunks EXCEPT ![Len(chunks)] = chunk]
         IN  /\ after \in Seq(Chunk(C)) /\ Len(after) = Len(chunks)
             /\ OneMore(FlattenSeq(Sources(chunks)), FlattenSeq(Sources(after)), cell)
  <1> DEFINE size == Len(chunks)
             after == [chunks EXCEPT ![size] = chunk]
             s == Sources(chunks)
             init == SubSeq(s, 1, size - 1)
             old == Source(chunks[size])
  <1>1. size \in Nat /\ size # 0 /\ size \in 1 .. size /\ size - 1 \in 0 .. size /\ size - 1 + 1 = size
    BY LenProperties, EmptySeq
  <1>2. /\ after \in Seq(Chunk(C)) /\ Len(after) = size
        /\ \A i \in 1 .. size : after[i] = IF i = size THEN chunk ELSE chunks[i]
    BY <1>1, ExceptSeq
  <1> HIDE DEF after
  <1>3. /\ s \in Seq(Seq(C)) /\ Len(s) = size
        /\ Sources(after) \in Seq(Seq(C)) /\ Len(Sources(after)) = size
    BY <1>2, SourcesType
  <1>4. s[size] = old /\ \A i \in 1 .. size - 1 : Sources(after)[i] = s[i]
    <2>1. s[size] = old
      BY <1>1 DEF Sources
    <2>2. ASSUME NEW i \in 1 .. size - 1
          PROVE  Sources(after)[i] = s[i]
      <3> HIDE DEF size
      <3>1. i \in 1 .. size /\ i # size
        BY <1>1
      <3>2. after[i] = chunks[i]
        BY <1>2, <3>1
      <3> QED BY <1>2, <3>1, <3>2 DEF Sources, size
    <2> QED BY <2>1, <2>2
  <1>5. Sources(after)[size] = old \o <<cell>>
    BY <1>1, <1>2 DEF Sources, OneMore
  <1> HIDE DEF s, size, old
  <1>6. /\ init \in Seq(Seq(C)) /\ Len(init) = size - 1
        /\ \A i \in 1 .. size - 1 : init[i] = s[i]
    BY <1>1, <1>3, PrefixFacts
  <1> HIDE DEF init
  <1>7. FlattenSeq(s) = FlattenSeq(init) \o old
    <2>1. FlattenSeq(s) = FlattenSeq(init) \o s[Len(s)]
      BY <1>1, <1>3, <1>6, FlattenLast
    <2> QED BY <1>3, <1>4, <2>1
  <1>8. FlattenSeq(Sources(after)) = FlattenSeq(init) \o (old \o <<cell>>)
    <2>1. \A i \in 1 .. size - 1 : Sources(after)[i] = init[i]
      BY <1>4, <1>6
    <2>2. FlattenSeq(Sources(after)) = FlattenSeq(init) \o Sources(after)[Len(Sources(after))]
      BY <1>1, <1>3, <1>6, <2>1, FlattenLast
    <2> QED BY <1>3, <1>5, <2>2
  <1>9. FlattenSeq(init) \in Seq(C) /\ old \in Seq(C) /\ <<cell>> \in Seq(C)
    <2>1. FlattenSeq(init) \in Seq(C)
      BY <1>6, FlattenType
    <2>2. s[size] \in Seq(C)
      BY <1>1, <1>3, ElementOfSeq
    <2> QED BY <1>4, <2>1, <2>2
  <1>10. FlattenSeq(Sources(after)) = FlattenSeq(s) \o <<cell>>
    <2> DEFINE x == FlattenSeq(init)
               z == <<cell>>
    <2>1. x \in Seq(C) /\ z \in Seq(C)
      BY <1>9
    <2> HIDE DEF x, z
    <2>2. (x \o old) \o z = x \o (old \o z)
      <3>1. \A a, b, c \in Seq(C) : (a \o b) \o c = a \o (b \o c)
        BY ConcatLaws
      <3> QED BY <1>9, <2>1, <3>1
    <2> QED BY <1>7, <1>8, <2>2 DEF x, z
  <1> QED BY <1>2, <1>10 DEF after, s, size, OneMore

\* One round adds the cell it looks at to what the chunks stand for.
LEMMA ExtendedFacts ==
  ASSUME NEW C, Banana \in C, NEW text \in Seq(C), NEW n \in 1 .. Len(text),
         NEW before \in Seq(Chunk(C))
  PROVE  LET after == Extended(text, n, before)
         IN  /\ after \in Seq(Chunk(C))
             /\ FlattenSeq(Sources(after)) = FlattenSeq(Sources(before)) \o <<text[n]>>
             /\ HasPlaceholder(after) <=> HasPlaceholder(before) \/ IsPlaceholder(text, n)
  <1> DEFINE after == Extended(text, n, before)
             last == Len(before)
             cell == text[n]
             placeholder == [paste |-> TRUE, text |-> << >>]
             literal == [paste |-> FALSE, text |-> <<cell>>]
             longer == [before[last] EXCEPT !.text = Append(@, cell)]
  <1>1. last \in Nat /\ DOMAIN before = 1 .. last /\ cell \in C
    BY LenProperties, ElementOfSeq
  <1>2. HasPlaceholder(before) <=> \E i \in 1 .. last : before[i].paste
    BY <1>1 DEF HasPlaceholder
  <1>3. ASSUME NEW chunk \in Chunk(C), after = Append(before, chunk), Source(chunk) = <<cell>>,
               chunk.paste <=> IsPlaceholder(text, n)
        PROVE  /\ after \in Seq(Chunk(C))
               /\ FlattenSeq(Sources(after)) = FlattenSeq(Sources(before)) \o <<cell>>
               /\ HasPlaceholder(after) <=> HasPlaceholder(before) \/ IsPlaceholder(text, n)
    <2>1. /\ Append(before, chunk) \in Seq(Chunk(C))
          /\ FlattenSeq(Sources(Append(before, chunk))) = FlattenSeq(Sources(before)) \o Source(chunk)
      BY SourceAppended
    <2>2. /\ Len(Append(before, chunk)) = last + 1 /\ Append(before, chunk)[last + 1] = chunk
          /\ \A i \in 1 .. last : Append(before, chunk)[i] = before[i]
      BY AppendProperties
    <2>3. DOMAIN Append(before, chunk) = 1 .. last + 1
      BY <2>1, <2>2, LenProperties
    <2> HIDE DEF after, last, cell
    <2>4. \A i : i \in 1 .. last + 1 <=> i \in 1 .. last \/ i = last + 1
      BY <1>1
    <2>5. HasPlaceholder(after) <=> (\E i \in 1 .. last : before[i].paste) \/ chunk.paste
      BY <1>3, <2>2, <2>3, <2>4 DEF HasPlaceholder
    <2> QED BY <1>2, <1>3, <2>1, <2>5
  <1>4. CASE IsPlaceholder(text, n)
    <2>1. cell = Banana /\ after = Append(before, placeholder)
      BY <1>4 DEF IsPlaceholder, Extended
    <2>2. placeholder \in Chunk(C) /\ Source(placeholder) = <<Banana>> /\ placeholder.paste
      BY EmptySeq DEF Chunk, Source
    <2> HIDE DEF after, placeholder, cell
    <2>3. /\ after \in Seq(Chunk(C))
          /\ FlattenSeq(Sources(after)) = FlattenSeq(Sources(before)) \o <<cell>>
          /\ HasPlaceholder(after) <=> HasPlaceholder(before) \/ IsPlaceholder(text, n)
      BY <1>3, <1>4, <2>1, <2>2
    <2> QED BY <2>3 DEF after, cell
  <1>5. CASE ~IsPlaceholder(text, n) /\ ~(last > 0 /\ ~before[last].paste)
    <2>1. after = Append(before, literal)
      BY <1>5 DEF Extended
    <2>2. literal \in Chunk(C) /\ Source(literal) = <<cell>> /\ ~literal.paste
      <3>1. <<cell>> \in Seq(C) /\ <<cell>> # << >>
        BY <1>1
      <3> HIDE DEF cell
      <3> QED BY <3>1 DEF Chunk, Source
    <2> HIDE DEF after, literal, cell
    <2>3. /\ after \in Seq(Chunk(C))
          /\ FlattenSeq(Sources(after)) = FlattenSeq(Sources(before)) \o <<cell>>
          /\ HasPlaceholder(after) <=> HasPlaceholder(before) \/ IsPlaceholder(text, n)
      BY <1>3, <1>5, <2>1, <2>2
    <2> QED BY <2>3 DEF after, cell
  <1>6. CASE ~IsPlaceholder(text, n) /\ last > 0 /\ ~before[last].paste
    <2>1. after = [before EXCEPT ![last] = longer]
      BY <1>6 DEF Extended
    <2>2. last \in 1 .. last /\ before # << >>
      BY <1>1, <1>6, EmptySeq
    <2>3. /\ before[last] \in [paste : BOOLEAN, text : Seq(C)] /\ ~before[last].paste
      <3>1. before[last] \in Chunk(C)
        BY <2>2, ElementOfSeq
      <3> QED BY <1>6, <3>1 DEF Chunk
    <2>4. /\ Append(before[last].text, cell) \in Seq(C) /\ Append(before[last].text, cell) # << >>
          /\ Append(before[last].text, cell) = before[last].text \o <<cell>>
      <3> DEFINE words == before[last].text
      <3>1. words \in Seq(C) /\ cell \in C
        BY <1>1, <2>3
      <3> HIDE DEF words, cell
      <3>2. Append(words, cell) \in Seq(C) /\ Append(words, cell) # << >>
        BY <3>1, AppendProperties
      <3>3. Append(words, cell) = words \o <<cell>>
        BY <3>1, AppendIsConcat
      <3> QED BY <3>2, <3>3 DEF words
    <2>5. longer = [paste |-> before[last].paste, text |-> Append(before[last].text, cell)]
      <3> DEFINE chunk == before[last]
      <3>1. chunk \in [paste : BOOLEAN, text : Seq(C)]
        BY <2>3
      <3> DEFINE words == Append(chunk.text, cell)
      <3> HIDE DEF chunk, words
      <3>2. [chunk EXCEPT !.text = words] = [paste |-> chunk.paste, text |-> words]
        BY <3>1
      <3> QED BY <3>2 DEF chunk, words
    <2>6. longer.paste = before[last].paste /\ longer.text = Append(before[last].text, cell)
      BY <2>5
    <2>7. longer \in Chunk(C) /\ ~longer.paste
      <3> HIDE DEF longer, cell
      <3> QED BY <2>3, <2>4, <2>5, <2>6 DEF Chunk
    <2>8. Source(longer) = Source(before[last]) \o <<cell>>
      <3> HIDE DEF longer, cell
      <3> QED BY <2>3, <2>4, <2>6, <2>7 DEF Source
    <2> HIDE DEF longer, cell, after
    <2>9. /\ after \in Seq(Chunk(C)) /\ Len(after) = last
          /\ FlattenSeq(Sources(after)) = FlattenSeq(Sources(before)) \o <<cell>>
      <3> DEFINE replaced == [before EXCEPT ![Len(before)] = longer]
      <3>1. /\ replaced \in Seq(Chunk(C)) /\ Len(replaced) = Len(before)
            /\ OneMore(FlattenSeq(Sources(before)), FlattenSeq(Sources(replaced)), cell)
        <4>1. cell \in C /\ longer \in Chunk(C) /\ before # << >>
          BY <1>1, <2>2, <2>7
        <4>2. OneMore(Source(before[Len(before)]), Source(longer), cell)
          BY <2>8 DEF OneMore
        <4> QED BY <4>1, <4>2, SourceReplaced
      <3>2. after = replaced
        BY <2>1
      <3> HIDE DEF replaced
      <3> QED BY <3>1, <3>2 DEF OneMore
    <2>10. \A i \in 1 .. last : after[i] = IF i = last THEN longer ELSE before[i]
      BY <2>1, <2>2, <2>7, ExceptSeq
    <2>11. DOMAIN after = 1 .. last
      BY <2>9, LenProperties
    <2> HIDE DEF last
    <2>12. \A i \in 1 .. last : after[i].paste <=> before[i].paste
      BY <2>3, <2>7, <2>10
    <2>13. HasPlaceholder(after) <=> HasPlaceholder(before)
      BY <1>2, <2>11, <2>12 DEF HasPlaceholder
    <2> QED BY <1>6, <2>9, <2>13 DEF after, cell
  <1> QED BY <1>4, <1>5, <1>6

\* Chunks stand for the text they were parsed from, all of it in order, and there is
\* something to paste exactly if the placeholder was dictated (placeholder.rs:15-64).
THEOREM ParsingLosesNothing ==
  ASSUME NEW C, Banana \in C, NEW text \in Seq(C)
  PROVE  LET chunks == parse_banana_chunks(text)
         IN  /\ chunks \in Seq(Chunk(C))
             /\ FlattenSeq(Sources(chunks)) = text
             /\ HasPlaceholder(chunks) <=> \E i \in 1 .. Len(text) : IsPlaceholder(text, i)
             /\ text = << >> => chunks = << >>
  <1> DEFINE size == Len(text)
             Chunks == Seq(Chunk(C))
             Loop(g) == g = [n \in 0 .. size |-> IF n = 0 THEN << >> ELSE Extended(text, n, g[n - 1])]
             chosen == CHOOSE g : Loop(g)
  <1>1. size \in Nat /\ << >> \in Chunks
    BY LenProperties, EmptySeq
  <1>2. parse_banana_chunks(text) = chosen[size]
    BY DEF parse_banana_chunks, Extended
  <1>3. \E g : Loop(g)
    <2> DEFINE step == [n \in 1 .. size |-> [before \in Chunks |-> Extended(text, n, before)]]
               zero == << >>
    <2>1. ASSUME NEW n \in 1 .. size
          PROVE  step[n] \in [Chunks -> Chunks]
      <3>1. \A before \in Chunks : Extended(text, n, before) \in Chunks
        BY ExtendedFacts
      <3> QED BY <3>1
    <2>2. zero \in Chunks /\ size \in Nat /\ step \in [1 .. size -> [Chunks -> Chunks]]
      BY <1>1, <2>1
    <2>3. \A n \in 1 .. size : \A before \in Chunks : step[n][before] = Extended(text, n, before)
      OBVIOUS
    <2> HIDE DEF step, size, Chunks, zero
    <2>4. PICK f \in [0 .. size -> Chunks] : IsRecursive(f, zero, size, step)
      BY <2>2, RecursionExists
    <2>5. ASSUME NEW n \in 0 .. size
          PROVE  f[n] = IF n = 0 THEN << >> ELSE Extended(text, n, f[n - 1])
      <3>1. CASE n = 0
        BY <2>4, <3>1 DEF IsRecursive, zero
      <3>2. CASE n # 0
        <4>1. n \in 1 .. size /\ n - 1 \in 0 .. size
          BY <2>2, <3>2
        <4>2. f[n] = step[n][f[n - 1]] /\ f[n - 1] \in Chunks
          BY <2>4, <4>1 DEF IsRecursive
        <4> QED BY <2>3, <3>2, <4>1, <4>2
      <3> QED BY <3>1, <3>2
    <2>6. f = [n \in 0 .. size |-> f[n]]
      BY <2>4
    <2>7. Loop(f)
      BY <2>5, <2>6
    <2> HIDE DEF Loop
    <2> QED BY <2>7
  <1>4. Loop(chosen)
    <2> HIDE DEF Loop
    <2> QED BY <1>3
  <1> HIDE DEF chosen
  <1>5. /\ chosen[0] = << >>
        /\ \A n \in 1 .. size : chosen[n] = Extended(text, n, chosen[n - 1])
    <2>1. chosen[0] = << >>
      <3>1. 0 \in 0 .. size
        BY <1>1
      <3> QED BY <1>4, <3>1
    <2>2. ASSUME NEW n \in 1 .. size
          PROVE  chosen[n] = Extended(text, n, chosen[n - 1])
      <3>1. n \in 0 .. size /\ n # 0
        BY <1>1
      <3> QED BY <1>4, <3>1
    <2> HIDE DEF Loop
    <2> QED BY <2>1, <2>2
  <1> DEFINE Found(n) == \E i \in 1 .. n : IsPlaceholder(text, i)
             Good(n) == /\ chosen[n] \in Chunks
                        /\ FlattenSeq(Sources(chosen[n])) = SubSeq(text, 1, n)
                        /\ HasPlaceholder(chosen[n]) <=> Found(n)
             A == {n \in Nat : n <= size => Good(n)}
  <1> HIDE DEF Loop
  <1>6. Good(0)
    <2>1. Len(<< >>) = 0 /\ DOMAIN << >> = {}
      BY EmptySeq
    <2>2. Sources(<< >>) = << >>
      BY <2>1 DEF Sources
    <2>3. FlattenSeq(<< >>) = << >>
      BY <2>1 DEF FlattenSeq
    <2>4. SubSeq(text, 1, 0) = << >>
      BY SubSeqEmpty
    <2>5. ~HasPlaceholder(<< >>)
      BY <2>1 DEF HasPlaceholder
    <2>6. ~Found(0)
      OBVIOUS
    <2> HIDE DEF Found
    <2> QED BY <1>1, <1>5, <2>2, <2>3, <2>4, <2>5, <2>6
  <1>7. ASSUME NEW n \in A, n + 1 <= size
        PROVE  Good(n + 1)
    <2>1. n \in Nat /\ n <= size /\ n + 1 \in 1 .. size /\ (n + 1) - 1 = n
      BY <1>1, <1>7
    <2>2. Good(n)
      <3> HIDE DEF Good
      <3> QED BY <2>1
    <2>3. chosen[n + 1] = Extended(text, n + 1, chosen[n])
      <3> HIDE DEF Good, A
      <3>1. chosen[n + 1] = Extended(text, n + 1, chosen[(n + 1) - 1])
        BY <1>5, <2>1
      <3> QED BY <2>1, <3>1
    <2> DEFINE before == chosen[n]
               after == chosen[n + 1]
    <2>4. before \in Seq(Chunk(C)) /\ n + 1 \in 1 .. Len(text) /\ after = Extended(text, n + 1, before)
      BY <2>1, <2>2, <2>3
    <2> HIDE DEF before, after
    <2>5. /\ after \in Seq(Chunk(C))
          /\ FlattenSeq(Sources(after)) = FlattenSeq(Sources(before)) \o <<text[n + 1]>>
          /\ HasPlaceholder(after) <=> HasPlaceholder(before) \/ IsPlaceholder(text, n + 1)
      <3> HIDE DEF A
      <3> QED BY <2>4, ExtendedFacts
    <2>6. SubSeq(text, 1, n + 1) = SubSeq(text, 1, n) \o <<text[n + 1]>>
      <3>1. 1 \in 1 .. Len(text) /\ n + 1 \in 1 .. Len(text)
        BY <1>1, <2>1
      <3>2. SubSeq(text, 1, n + 1) = SubSeq(text, 1, (n + 1) - 1) \o <<text[n + 1]>>
        BY <3>1, SubSeqRecursiveSecond
      <3> QED BY <2>1, <3>2
    <2>7. Found(n + 1) <=> Found(n) \/ IsPlaceholder(text, n + 1)
      <3>1. \A i : i \in 1 .. n + 1 <=> i \in 1 .. n \/ i = n + 1
        BY <2>1
      <3> QED BY <3>1
    <2> HIDE DEF A, Found
    <2> QED BY <2>2, <2>5, <2>6, <2>7 DEF before, after
  <1>8. A = Nat
    <2>1. 0 \in A
      <3> HIDE DEF Good
      <3> QED BY <1>6
    <2>2. \A n \in A : n + 1 \in A
      <3> HIDE DEF Good
      <3> QED BY <1>7
    <2>3. A \in SUBSET Nat
      OBVIOUS
    <2> HIDE DEF A
    <2> QED BY <2>1, <2>2, <2>3, Induction
  <1>9. Good(size)
    <2>1. size \in A
      <3> HIDE DEF A
      <3> QED BY <1>1, <1>8
    <2> HIDE DEF Good
    <2> QED BY <1>1, <2>1
  <1>10. SubSeq(text, 1, size) = text
    BY SubSeqFull
  <1>11. text = << >> => chosen[size] = << >>
    <2>1. text = << >> => size = 0
      BY EmptySeq
    <2> QED BY <1>5, <2>1
  <1> QED BY <1>2, <1>9, <1>10, <1>11

-----------------------------------------------------------------------------
(* Deliveries (deliver.rs), and pasting inside a segment on the screen.     *)

Writable(C) == {Banana, Space, Pasted, Quote} \subseteq C

Delivered(chunks, space, image) ==
    [i \in DOMAIN chunks |-> DeliveredChunk(chunks, i, space, image)]

LEMMA DeliveredType ==
  ASSUME NEW C, Writable(C), NEW chunks \in Seq(Chunk(C)), NEW space, NEW image
  PROVE  /\ Delivered(chunks, space, image) \in Seq(Seq(C))
         /\ Len(Delivered(chunks, space, image)) = Len(chunks)
         /\ \A i \in 1 .. Len(chunks) :
              Delivered(chunks, space, image)[i] = DeliveredChunk(chunks, i, space, image)
  <1>1. Len(chunks) \in Nat /\ DOMAIN chunks = 1 .. Len(chunks)
    BY LenProperties
  <1>2. ASSUME NEW i \in 1 .. Len(chunks)
        PROVE  DeliveredChunk(chunks, i, space, image) \in Seq(C)
    <2>1. CASE ~chunks[i].paste
      <3>1. chunks[i] \in Chunk(C)
        BY ElementOfSeq
      <3> QED BY <2>1, <3>1 DEF DeliveredChunk, Chunk
    <2>2. CASE chunks[i].paste
      <3> DEFINE before == IF i = 1 THEN space ELSE EndsInSpace(chunks[i - 1])
                 after == i < Len(chunks) /\ StartsWithSpace(chunks[i + 1])
                 delimiters == paste_delimiters(image, before, after)
      <3>1. DeliveredChunk(chunks, i, space, image) = delimiters[1] \o <<Pasted>> \o delimiters[2]
        BY <2>2 DEF DeliveredChunk
      <3> HIDE DEF before, after
      <3>2. /\ <<Space>> \in Seq(C) /\ <<Quote>> \in Seq(C) /\ <<Pasted>> \in Seq(C)
            /\ << >> \in Seq(C)
        BY EmptySeq DEF Writable
      <3>3. delimiters[1] \in Seq(C) /\ delimiters[2] \in Seq(C)
        BY <3>2 DEF paste_delimiters
      <3> DEFINE x == delimiters[1]
                 z == delimiters[2]
                 y == <<Pasted>>
      <3>4. x \in Seq(C) /\ y \in Seq(C) /\ z \in Seq(C)
        BY <3>2, <3>3
      <3>5. DeliveredChunk(chunks, i, space, image) = x \o y \o z
        BY <3>1
      <3> HIDE DEF x, y, z, delimiters
      <3>6. \A a, b \in Seq(C) : a \o b \in Seq(C)
        BY ConcatLaws
      <3>7. x \o y \in Seq(C)
        BY <3>4, <3>6
      <3>8. x \o y \o z \in Seq(C)
        BY <3>4, <3>6, <3>7
      <3> QED BY <3>5, <3>8
    <2> QED BY <2>1, <2>2
  <1> QED BY <1>1, <1>2 DEF Delivered

LEMMA DeliveryType ==
  ASSUME NEW C, Writable(C), NEW chunks \in Seq(Chunk(C)), NEW space, NEW image
  PROVE  deliver_chunks(chunks, space, image) \in Seq(C)
  BY DeliveredType, FlattenType DEF deliver_chunks, Delivered

\* A text begins with the literal before its first placeholder.
LEMMA PreservedFacts ==
  ASSUME NEW C, Writable(C), NEW segment \in Seq(C),
         HasPlaceholder(parse_banana_chunks(segment))
  PROVE  LET chunks == parse_banana_chunks(segment)
         IN  /\ chunks \in Seq(Chunk(C)) /\ Len(chunks) \in Nat \ {0}
             /\ Preserved(chunks) \in Seq(C)
             /\ Len(Preserved(chunks)) \in 0 .. Len(segment)
             /\ SubSeq(segment, 1, Len(Preserved(chunks))) = Preserved(chunks)
  <1> DEFINE chunks == parse_banana_chunks(segment)
             preserved == Preserved(chunks)
             s == Sources(chunks)
             rest == SubSeq(s, 2, Len(s))
  <1>1. chunks \in Seq(Chunk(C)) /\ FlattenSeq(s) = segment
    <2>1. Banana \in C
      BY DEF Writable
    <2> QED BY <2>1, ParsingLosesNothing
  <1>2. Len(chunks) \in Nat \ {0} /\ chunks[1] \in Chunk(C)
    <2>1. DOMAIN chunks # {}
      BY DEF HasPlaceholder
    <2> HIDE DEF chunks
    <2>2. Len(chunks) \in Nat /\ DOMAIN chunks = 1 .. Len(chunks)
      BY <1>1, LenProperties
    <2>3. Len(chunks) # 0
      BY <2>1, <2>2
    <2>4. 1 \in 1 .. Len(chunks)
      BY <2>2, <2>3
    <2> QED BY <1>1, <2>2, <2>3, <2>4, ElementOfSeq
  <1>3. s \in Seq(Seq(C)) /\ Len(s) = Len(chunks) /\ s[1] = Source(chunks[1])
    <2>1. Banana \in C /\ 1 \in 1 .. Len(chunks)
      BY <1>2 DEF Writable
    <2> HIDE DEF chunks
    <2>2. s[1] = Source(chunks[1])
      BY <2>1 DEF Sources
    <2> QED BY <1>1, <2>1, <2>2, SourcesType
  <1>4. /\ rest \in Seq(Seq(C)) /\ Len(s) = Len(rest) + 1
        /\ \A i \in 1 .. Len(rest) : s[i + 1] = rest[i]
    <2> DEFINE n == Len(s)
    <2>1. n \in Nat \ {0} /\ 2 \in Int /\ n \in Int
      BY <1>2, <1>3
    <2>2. \A i \in 2 .. n : s[i] \in Seq(C)
      <3>1. \A i \in 1 .. n : s[i] \in Seq(C)
        BY <1>3, ElementOfSeq
      <3> HIDE DEF n, s
      <3> QED BY <2>1, <3>1
    <2> HIDE DEF n, s
    <2>3. /\ SubSeq(s, 2, n) \in Seq(Seq(C))
          /\ Len(SubSeq(s, 2, n)) = IF 2 <= n THEN n - 2 + 1 ELSE 0
          /\ \A i \in 1 .. n - 2 + 1 : SubSeq(s, 2, n)[i] = s[2 + i - 1]
      BY <2>1, <2>2, SubSeqProperties
    <2>4. Len(SubSeq(s, 2, n)) = n - 1
      BY <2>1, <2>3
    <2>5. ASSUME NEW i \in 1 .. n - 1
          PROVE  s[i + 1] = SubSeq(s, 2, n)[i]
      <3>1. i \in 1 .. n - 2 + 1 /\ 2 + i - 1 = i + 1
        BY <2>1
      <3> QED BY <2>3, <3>1
    <2> QED BY <2>1, <2>3, <2>4, <2>5 DEF n
  <1> HIDE DEF rest
  <1>5. segment = Source(chunks[1]) \o FlattenSeq(rest)
    <2> HIDE DEF s, chunks
    <2>1. FlattenSeq(s) = s[1] \o FlattenSeq(rest)
      BY <1>3, <1>4, FlattenFirst
    <2> QED BY <1>1, <1>3, <2>1
  <1>6. preserved \in Seq(C) /\ \E r \in Seq(C) : segment = preserved \o r
    <2> HIDE DEF s, chunks
    <2>1. CASE chunks[1].paste
      <3>1. preserved = << >>
        BY <2>1 DEF Preserved
      <3>2. segment = << >> \o segment /\ << >> \in Seq(C)
        BY ConcatEmptySeq, EmptySeq
      <3> HIDE DEF preserved
      <3> QED BY <3>1, <3>2
    <2>2. CASE ~chunks[1].paste
      <3>1. preserved = chunks[1].text /\ Source(chunks[1]) = chunks[1].text /\ chunks[1].text \in Seq(C)
        BY <1>2, <2>2 DEF Preserved, Source, Chunk
      <3>2. FlattenSeq(rest) \in Seq(C)
        BY <1>4, FlattenType
      <3> HIDE DEF preserved
      <3> QED BY <1>5, <3>1, <3>2
    <2> QED BY <2>1, <2>2
  <1> HIDE DEF preserved
  <1>7. /\ Len(preserved) \in 0 .. Len(segment)
        /\ SubSeq(segment, 1, Len(preserved)) = preserved
    <2>1. PICK r \in Seq(C) : segment = preserved \o r
      BY <1>6
    <2>2. IsPrefix(preserved, segment)
      BY <1>6, <2>1, PrefixOfConcat
    <2>3. Len(preserved) \in Nat /\ Len(segment) \in Nat
      BY <1>6, LenProperties
    <2>4. SubSeq(preserved, 1, Len(preserved)) = preserved
      BY <1>6, SubSeqFull
    <2> QED BY <2>2, <2>3, <2>4 DEF IsPrefix
  <1> QED BY <1>1, <1>2, <1>6, <1>7 DEF preserved

\* All but the first chunk, a literal, are delivered alike with and without it.
LEMMA DeliveredRest ==
  ASSUME NEW C, Writable(C), NEW chunks \in Seq(Chunk(C)), Len(chunks) \in Nat \ {0},
         ~chunks[1].paste, NEW image
  PROVE  LET rest == SubSeq(chunks, 2, Len(chunks))
             space == SpaceBefore(chunks[1].text)
         IN  /\ rest \in Seq(Chunk(C))
             /\ deliver_chunks(chunks, FALSE, image) = chunks[1].text \o deliver_chunks(rest, space, image)
  <1> DEFINE n == Len(chunks)
             first == chunks[1]
             rest == SubSeq(chunks, 2, n)
             space == SpaceBefore(first.text)
  <1>1. n \in Nat \ {0} /\ DOMAIN chunks = 1 .. n /\ \A i \in 1 .. n : chunks[i] \in Chunk(C)
    BY LenProperties, ElementOfSeq
  <1>2. /\ rest \in Seq(Chunk(C)) /\ Len(rest) = n - 1
        /\ \A i \in 1 .. n - 1 : rest[i] = chunks[i + 1]
    <2> HIDE DEF n
    <2>1. 2 \in Int /\ n \in Int /\ \A i \in 2 .. n : chunks[i] \in Chunk(C)
      BY <1>1
    <2>2. /\ SubSeq(chunks, 2, n) \in Seq(Chunk(C))
          /\ Len(SubSeq(chunks, 2, n)) = IF 2 <= n THEN n - 2 + 1 ELSE 0
          /\ \A i \in 1 .. n - 2 + 1 : SubSeq(chunks, 2, n)[i] = chunks[2 + i - 1]
      BY <2>1, SubSeqProperties
    <2>3. Len(SubSeq(chunks, 2, n)) = n - 1
      BY <1>1, <2>2
    <2>4. ASSUME NEW i \in 1 .. n - 1
          PROVE  SubSeq(chunks, 2, n)[i] = chunks[i + 1]
      <3>1. i \in 1 .. n - 2 + 1 /\ 2 + i - 1 = i + 1
        BY <1>1
      <3> QED BY <2>2, <3>1
    <2> QED BY <2>2, <2>3, <2>4
  <1>3. space <=> EndsInSpace(first)
    <2>1. first \in Chunk(C)
      BY <1>1
    <2>2. first.text # << >> /\ ~first.paste
      BY <2>1 DEF Chunk
    <2> HIDE DEF first
    <2> QED BY <2>2 DEF SpaceBefore, EndsInSpace
  <1> HIDE DEF rest
  <1>4. ASSUME NEW i \in 1 .. n - 1
        PROVE  DeliveredChunk(chunks, i + 1, FALSE, image) = DeliveredChunk(rest, i, space, image)
    <2> HIDE DEF n, space
    <2>1. i \in Nat /\ i >= 1 /\ i + 1 # 1 /\ (i + 1) - 1 = i /\ (i + 1) + 1 = i + 2 /\ rest[i] = chunks[i + 1]
      BY <1>1, <1>2
    <2>2. (i < Len(rest) <=> i + 1 < n) /\ (i + 1 < n => rest[i + 1] = chunks[i + 2])
      <3>1. i < Len(rest) <=> i + 1 < n
        BY <1>1, <1>2, <2>1
      <3>2. ASSUME i + 1 < n
            PROVE  rest[i + 1] = chunks[i + 2]
        <4>1. i + 1 \in 1 .. n - 1 /\ (i + 1) + 1 = i + 2
          BY <1>1, <2>1, <3>2
        <4>2. rest[i + 1] = chunks[(i + 1) + 1]
          BY <1>2, <4>1
        <4> QED BY <4>1, <4>2
      <3> QED BY <3>1, <3>2
    <2> DEFINE beforeRest == IF i = 1 THEN space ELSE EndsInSpace(rest[i - 1])
               afterRest == i < Len(rest) /\ StartsWithSpace(rest[i + 1])
               before == EndsInSpace(chunks[i])
               after == i + 1 < n /\ StartsWithSpace(chunks[i + 2])
               Result(chunk, d) == IF ~chunk.paste THEN chunk.text ELSE d[1] \o <<Pasted>> \o d[2]
    <2>3. afterRest <=> after
      BY <2>2
    <2>4. i # 1 => rest[i - 1] = chunks[i]
      <3>1. ASSUME i # 1
            PROVE  i - 1 \in 1 .. n - 1 /\ (i - 1) + 1 = i
        BY <1>1, <2>1, <3>1
      <3> QED BY <1>2, <3>1
    <2>5. i = 1 => chunks[i] = first
      OBVIOUS
    <2> HIDE DEF first
    <2>6. beforeRest <=> before
      BY <1>3, <2>4, <2>5
    <2>7. DeliveredChunk(chunks, i + 1, FALSE, image)
            = Result(chunks[i + 1], paste_delimiters(image, before, after))
      BY <2>1 DEF DeliveredChunk, n
    <2>8. DeliveredChunk(rest, i, space, image)
            = Result(rest[i], paste_delimiters(image, beforeRest, afterRest))
      BY DEF DeliveredChunk
    <2>9. paste_delimiters(image, before, after) = paste_delimiters(image, beforeRest, afterRest)
      <3> HIDE DEF before, after, beforeRest, afterRest
      <3> QED BY <2>3, <2>6 DEF paste_delimiters
    <2> HIDE DEF before, after, beforeRest, afterRest, Result
    <2> QED BY <2>1, <2>7, <2>8, <2>9
  <1> DEFINE all == Delivered(chunks, FALSE, image)
             others == Delivered(rest, space, image)
  <1>5. /\ all \in Seq(Seq(C)) /\ Len(all) = n
        /\ \A i \in 1 .. n : all[i] = DeliveredChunk(chunks, i, FALSE, image)
    <2> DEFINE no == FALSE
    <2> HIDE DEF no
    <2>1. /\ Delivered(chunks, no, image) \in Seq(Seq(C)) /\ Len(Delivered(chunks, no, image)) = n
          /\ \A i \in 1 .. n : Delivered(chunks, no, image)[i] = DeliveredChunk(chunks, i, no, image)
      BY DeliveredType
    <2> QED BY <2>1 DEF no
  <1>6. /\ others \in Seq(Seq(C)) /\ Len(others) = n - 1
        /\ \A i \in 1 .. n - 1 : others[i] = DeliveredChunk(rest, i, space, image)
    <2> HIDE DEF n, space
    <2> QED BY <1>2, DeliveredType
  <1>7. FlattenSeq(all) = all[1] \o FlattenSeq(others)
    <2> HIDE DEF n, space, all, others
    <2>1. ASSUME NEW i \in 1 .. n - 1
          PROVE  all[i + 1] = others[i]
      <3>1. i + 1 \in 1 .. n
        BY <1>1
      <3> QED BY <1>4, <1>5, <1>6, <3>1
    <2>2. Len(all) = Len(others) + 1
      BY <1>1, <1>5, <1>6
    <2>3. \A i \in 1 .. Len(others) : all[i + 1] = others[i]
      BY <1>6, <2>1
    <2> QED BY <1>5, <1>6, <2>2, <2>3, FlattenFirst
  <1>8. all[1] = chunks[1].text
    <2>1. 1 \in 1 .. n
      BY <1>1
    <2> HIDE DEF n, all
    <2> QED BY <1>5, <2>1 DEF DeliveredChunk
  <1>9. /\ deliver_chunks(chunks, FALSE, image) = FlattenSeq(all)
        /\ deliver_chunks(rest, space, image) = FlattenSeq(others)
    BY DEF deliver_chunks, Delivered
  <1> HIDE DEF all, others
  <1> QED BY <1>2, <1>7, <1>8, <1>9 DEF rest

\* What replacing a segment after s, already typed, has to give.
Replaced(C, s, segment, image) ==
    LET chunks == parse_banana_chunks(segment)
        plan == clipboard_replacement_plan(segment, chunks)
        pastes == deliver_chunks(SubSeq(chunks, plan.start, Len(chunks)), plan.has_space_before, image)
        prepared == Backspaced(s \o segment, plan.backspaces)
    IN  /\ plan.backspaces \in 0 .. Len(segment)
        /\ pastes \in Seq(C) /\ prepared \in Extensions(C, s)
        /\ Typed(prepared, pastes) = s \o deliver_chunks(chunks, FALSE, image)

\* When a segment with placeholders is on the screen already, deleting it from its
\* first placeholder on and delivering the chunks from there gives what delivering
\* the whole segment at once would have: delimiters included, and no cell before
\* the segment is touched (realtime_mode.rs:580-646).
THEOREM ReplacingIsDelivering ==
  ASSUME NEW C, Writable(C), NEW s \in Seq(C), NEW segment \in Seq(C),
         HasPlaceholder(parse_banana_chunks(segment)), NEW image
  PROVE  Replaced(C, s, segment, image)
  <1> DEFINE chunks == parse_banana_chunks(segment)
             preserved == Preserved(chunks)
             plan == clipboard_replacement_plan(segment, chunks)
             pastes == deliver_chunks(SubSeq(chunks, plan.start, Len(chunks)), plan.has_space_before, image)
             prepared == Backspaced(s \o segment, plan.backspaces)
  <1>1. /\ chunks \in Seq(Chunk(C)) /\ Len(chunks) \in Nat \ {0}
        /\ preserved \in Seq(C)
        /\ Len(preserved) \in 0 .. Len(segment)
        /\ SubSeq(segment, 1, Len(preserved)) = preserved
    BY PreservedFacts
  <1>2. /\ plan.backspaces = Len(segment) - Len(preserved)
        /\ plan.start = IF chunks[1].paste THEN 1 ELSE 2
        /\ plan.has_space_before = SpaceBefore(preserved)
    BY DEF clipboard_replacement_plan
  <1> HIDE DEF chunks, preserved, plan
  <1>3. Len(segment) \in Nat
    BY LenProperties
  <1>4. plan.backspaces \in 0 .. Len(segment) /\ Len(segment) - plan.backspaces = Len(preserved)
    BY <1>1, <1>2, <1>3
  <1>5. prepared = s \o preserved
    <2>1. prepared = s \o SubSeq(segment, 1, Len(segment) - plan.backspaces)
      BY <1>4, BackspacedFacts
    <2> QED BY <1>1, <1>4, <2>1
  <1>6. pastes \in Seq(C) /\ deliver_chunks(chunks, FALSE, image) = preserved \o pastes
    <2>1. CASE chunks[1].paste
      <3>1. preserved = << >> /\ plan.start = 1
        BY <1>2, <2>1 DEF Preserved, preserved
      <3>2. SubSeq(chunks, 1, Len(chunks)) = chunks
        BY <1>1, SubSeqFull
      <3>3. plan.has_space_before = FALSE
        BY <1>2, <3>1 DEF SpaceBefore
      <3>4. pastes = deliver_chunks(chunks, FALSE, image)
        BY <3>1, <3>2, <3>3
      <3>5. pastes \in Seq(C)
        BY <1>1, <3>4, DeliveryType
      <3> HIDE DEF pastes
      <3>6. << >> \o pastes = pastes
        BY <3>5, ConcatEmptySeq
      <3> QED BY <3>1, <3>4, <3>5, <3>6
    <2>2. CASE ~chunks[1].paste
      <3>1. preserved = chunks[1].text /\ plan.start = 2
        BY <1>2, <2>2 DEF Preserved, preserved
      <3> DEFINE rest == SubSeq(chunks, 2, Len(chunks))
                 space == SpaceBefore(chunks[1].text)
      <3>2. /\ rest \in Seq(Chunk(C))
            /\ deliver_chunks(chunks, FALSE, image) = chunks[1].text \o deliver_chunks(rest, space, image)
        BY <1>1, <2>2, DeliveredRest
      <3>3. pastes = deliver_chunks(rest, space, image)
        BY <1>2, <3>1
      <3> HIDE DEF rest, space, pastes
      <3>4. pastes \in Seq(C)
        BY <3>2, <3>3, DeliveryType
      <3> QED BY <3>1, <3>2, <3>3, <3>4
    <2> QED BY <2>1, <2>2
  <1> HIDE DEF pastes, prepared
  <1>7. Typed(prepared, pastes) = s \o deliver_chunks(chunks, FALSE, image)
    <2>1. \A x, y, z \in Seq(C) : (x \o y) \o z = x \o (y \o z)
      BY ConcatLaws
    <2>2. (s \o preserved) \o pastes = s \o (preserved \o pastes)
      BY <1>1, <1>6, <2>1
    <2> QED BY <1>5, <1>6, <2>2 DEF Typed
  <1>8. prepared \in Extensions(C, s)
    BY <1>1, <1>5 DEF Extensions
  <1> QED BY <1>4, <1>6, <1>7, <1>8 DEF chunks, plan, pastes, prepared, Replaced

-----------------------------------------------------------------------------
(* One event of a live recording: LiveText's transitions on the screen.     *)

LiveTexts == [committed_any : BOOLEAN, committed_text : Seq(Cells),
              latest_committed_segment : Texts, tail : Seq(Cells)]

LEMMA CellFacts ==
  /\ Writable(Cells) /\ User \in Cells /\ Marker \in Cells
  /\ <<Space>> \in Seq(Cells) /\ <<User>> \in Seq(Cells) /\ <<Marker>> \in Seq(Cells)
  /\ Texts \subseteq Seq(Cells) /\ << >> \in Texts /\ << >> \in Seq(Cells)
  <1>1. Writable(Cells) /\ User \in Cells /\ Marker \in Cells /\ Space \in Cells
    BY DEF Cells, Writable
  <1> QED BY <1>1, LiveDeliveryAssumption, EmptySeq

LEMMA SegmentType ==
  ASSUME NEW any \in BOOLEAN, NEW text \in Texts
  PROVE  /\ segment_text(any, text) \in Seq(Cells)
         /\ segment_text(any, << >>) = << >>
         /\ ~any => segment_text(any, text) = text
         /\ any /\ text # << >> => segment_text(any, text) = <<Space>> \o text
  <1>1. text \in Seq(Cells) /\ <<Space>> \in Seq(Cells)
    BY CellFacts
  <1> DEFINE separator == <<Space>>
             separated == separator \o text
  <1>2. separated \in Seq(Cells)
    <2>1. separator \in Seq(Cells)
      BY <1>1
    <2> HIDE DEF separator
    <2> QED BY <1>1, <2>1, ConcatProperties
  <1> HIDE DEF separated
  <1>3. segment_text(any, text) = IF text = << >> \/ ~any THEN text ELSE separated
    BY DEF segment_text, separated
  <1>4. segment_text(any, << >>) = << >>
    BY DEF segment_text
  <1>5. any /\ text # << >> => segment_text(any, text) = separated
    BY <1>3
  <1> QED BY <1>1, <1>2, <1>3, <1>4, <1>5 DEF separated

\* Nothing typed, nothing deleted.
LEMMA NoEditFacts ==
  ASSUME NEW s \in Seq(Cells)
  PROVE  apply_realtime_edit(s, NoEdit) = s /\ Backspaced(s, 0) = s
  <1>1. Len(s) \in Nat
    BY LenProperties
  <1>2. SubSeq(s, 1, Len(s)) = s
    BY SubSeqFull
  <1>3. Len(s) - 0 = Len(s)
    BY <1>1
  <1>4. Backspaced(s, 0) = s
    BY <1>2, <1>3 DEF Backspaced
  <1>5. NoEdit.backspaces = 0 /\ NoEdit.insert = << >>
    BY DEF NoEdit
  <1>6. s \o << >> = s
    BY ConcatEmptySeq
  <1> QED BY <1>4, <1>5, <1>6 DEF apply_realtime_edit, Typed

\* A partial changes the tail alone, on the screen as in LiveText.
LEMMA PartialFacts ==
  ASSUME NEW l \in LiveTexts, NEW text \in Texts, NEW s \in Seq(Cells)
  PROVE  LET transition == partial(l, text)
             next == transition.next
         IN  /\ next \in LiveTexts
             /\ next.committed_any = l.committed_any /\ next.committed_text = l.committed_text
             /\ apply_realtime_edit(s \o l.tail, transition.edit) = s \o next.tail
             /\ transition.edit # NoEdit =>
                  PartOfEdit(s \o l.tail, transition.edit) \subseteq Extensions(Cells, s)
             /\ text = << >> /\ l.tail = << >> => transition.edit = NoEdit /\ next.tail = << >>
  <1> DEFINE transition == partial(l, text)
             late == l.latest_committed_segment # << >> /\ text = l.latest_committed_segment
             target == segment_text(l.committed_any, text)
  <1>1. /\ l.committed_any \in BOOLEAN /\ l.committed_text \in Seq(Cells)
        /\ l.latest_committed_segment \in Texts /\ l.tail \in Seq(Cells)
        /\ s \o l.tail \in Seq(Cells)
    <2>1. /\ l.committed_any \in BOOLEAN /\ l.committed_text \in Seq(Cells)
          /\ l.latest_committed_segment \in Texts /\ l.tail \in Seq(Cells)
      BY DEF LiveTexts
    <2> QED BY <2>1, ConcatProperties
  <1>2. target \in Seq(Cells) /\ (text = << >> => target = << >>)
    BY <1>1, SegmentType
  <1>3. CASE late
    <2>1. transition.next = l /\ transition.edit = NoEdit
      BY <1>3 DEF partial
    <2>2. ~(text = << >>)
      BY <1>3
    <2> DEFINE before == s \o l.tail
    <2>3. apply_realtime_edit(before, NoEdit) = before
      BY <1>1, NoEditFacts
    <2> HIDE DEF transition, before
    <2>4. apply_realtime_edit(before, transition.edit) = before
      BY <2>1, <2>3
    <2> QED BY <2>1, <2>2, <2>4 DEF transition, before
  <1>4. CASE ~late
    <2>1. transition.next = [l EXCEPT !.tail = target] /\ transition.edit = tail_edit(l.tail, target)
      BY <1>4 DEF partial, replace_tail
    <2> HIDE DEF target, transition
    <2>2. /\ transition.next \in LiveTexts
          /\ transition.next.committed_any = l.committed_any
          /\ transition.next.committed_text = l.committed_text
          /\ transition.next.tail = target
      BY <1>2, <2>1 DEF LiveTexts
    <2>3. /\ apply_realtime_edit(s \o l.tail, tail_edit(l.tail, target)) = s \o target
          /\ PartOfEdit(s \o l.tail, tail_edit(l.tail, target)) \subseteq Extensions(Cells, s)
      BY <1>1, <1>2, EditReplacesTail
    <2>4. text = << >> /\ l.tail = << >> => transition.edit = NoEdit /\ transition.next.tail = << >>
      BY <1>2, <2>1, <2>2, EmptyEdit
    <2> QED BY <2>1, <2>2, <2>3, <2>4 DEF transition
  <1> QED BY <1>3, <1>4

\* A commit puts the segment in the place of the tail.
CommitsOnScreen(l, text, s) ==
    LET transition == commit(l, text)
        next == transition.next
        segment == segment_text(l.committed_any, text)
    IN  /\ next \in LiveTexts /\ next.tail = << >> /\ segment \in Seq(Cells)
        /\ next.committed_any = (l.committed_any \/ text # << >>)
        /\ next.committed_text = l.committed_text \o segment
        /\ apply_realtime_edit(s \o l.tail, transition.edit) = s \o segment
        /\ PartOfEdit(s \o l.tail, transition.edit) \subseteq Extensions(Cells, s)
        /\ text = << >> => segment = << >>
        /\ text = << >> /\ l.tail = << >> => transition.edit = NoEdit

LEMMA CommitFacts ==
  ASSUME NEW l \in LiveTexts, NEW text \in Texts, NEW s \in Seq(Cells)
  PROVE  CommitsOnScreen(l, text, s)
  <1> DEFINE transition == commit(l, text)
             segment == segment_text(l.committed_any, text)
  <1>1. /\ l.committed_any \in BOOLEAN /\ l.committed_text \in Seq(Cells)
        /\ l.latest_committed_segment \in Texts /\ l.tail \in Seq(Cells)
    BY DEF LiveTexts
  <1>2. segment \in Seq(Cells) /\ (text = << >> => segment = << >>)
    BY <1>1, SegmentType
  <1>3. transition.edit = tail_edit(l.tail, segment)
    <2>1. CASE text = << >>
      <3>1. segment = << >>
        BY <1>2, <2>1
      <3> HIDE DEF segment
      <3> QED BY <2>1, <3>1 DEF commit, cleanup, replace_tail
    <2>2. CASE text # << >>
      BY <2>2 DEF commit
    <2> QED BY <2>1, <2>2
  <1>4. /\ transition.next \in LiveTexts /\ transition.next.tail = << >>
        /\ transition.next.committed_any = (l.committed_any \/ text # << >>)
        /\ transition.next.committed_text = l.committed_text \o segment
    <2>1. CASE text = << >>
      <3>1. transition.next = [l EXCEPT !.tail = << >>]
        BY <2>1 DEF commit, cleanup, replace_tail
      <3>2. l.committed_text \o segment = l.committed_text
        <4>1. segment = << >>
          BY <1>2, <2>1
        <4>2. l.committed_text \o << >> = l.committed_text
          BY <1>1, ConcatEmptySeq
        <4> HIDE DEF segment
        <4> QED BY <4>1, <4>2
      <3>3. << >> \in Seq(Cells)
        BY EmptySeq
      <3> HIDE DEF transition, segment
      <3>4. /\ transition.next \in LiveTexts /\ transition.next.tail = << >>
            /\ transition.next.committed_any = l.committed_any
            /\ transition.next.committed_text = l.committed_text
        BY <3>1, <3>3 DEF LiveTexts
      <3>5. l.committed_any = (l.committed_any \/ text # << >>)
        BY <1>1, <2>1
      <3> QED BY <3>2, <3>4, <3>5
    <2>2. CASE text # << >>
      <3> DEFINE whole == l.committed_text \o segment
      <3>1. transition.next = [committed_any |-> TRUE, committed_text |-> whole,
                               latest_committed_segment |-> text, tail |-> << >>]
        BY <2>2 DEF commit, AfterCommit
      <3>2. whole \in Seq(Cells) /\ << >> \in Seq(Cells)
        <4> HIDE DEF segment
        <4> QED BY <1>1, <1>2, ConcatProperties, EmptySeq
      <3> HIDE DEF transition, segment, whole
      <3>3. /\ transition.next \in LiveTexts /\ transition.next.tail = << >>
            /\ transition.next.committed_any = TRUE
            /\ transition.next.committed_text = whole
        BY <3>1, <3>2 DEF LiveTexts
      <3> QED BY <2>2, <3>3 DEF whole
    <2> QED BY <2>1, <2>2
  <1> HIDE DEF segment, transition
  <1>5. /\ apply_realtime_edit(s \o l.tail, tail_edit(l.tail, segment)) = s \o segment
        /\ PartOfEdit(s \o l.tail, tail_edit(l.tail, segment)) \subseteq Extensions(Cells, s)
    BY <1>1, <1>2, EditReplacesTail
  <1>6. text = << >> /\ l.tail = << >> => transition.edit = NoEdit
    BY <1>2, <1>3, EmptyEdit
  <1> QED BY <1>2, <1>3, <1>4, <1>5, <1>6 DEF segment, transition, CommitsOnScreen

-----------------------------------------------------------------------------
(* The inductive invariant.                                                 *)

\* What is before the tail: the user's text, the marker, what was committed.
Ahead(text, marker, committed) ==
    text \o (IF marker THEN <<Marker>> ELSE << >>) \o committed

\* Nothing is typed any more once a call failed part-way.
Flags ==
    /\ fallback = << >>
    /\ torn <=> ~tail_safe
    /\ ~tail_safe => failed
    /\ ~live.committed_any => rendered = << >>

\* Live: LiveText knows the screen exactly, as long as nothing failed.
WhileLive ==
    /\ marker_active => ~live.committed_any /\ live.tail = << >>
    /\ ~torn => screen = Ahead(base, marker_active, rendered) \o live.tail
    /\ torn => ~marker_active /\ screen \in Extensions(Cells, base \o rendered)

\* Deferred: nothing is on the screen, LiveText keeps it all.
WhileDeferred ==
    /\ ~torn /\ ~marker_active /\ screen = base
    /\ live.tail = << >> /\ rendered = live.committed_text
    /\ live.committed_any <=> rendered # << >>

Working == Flags /\ (delivery = "Live" => WhileLive) /\ (delivery = "Deferred" => WhileDeferred)

IInv ==
    /\ TypeOK
    /\ stage = "live" => Working
    /\ stage = "done" => ScreenIsTranscript /\ CommittedTextKept /\ FallbackOnCleanLine

LEMMA AheadFacts ==
  ASSUME NEW b \in Seq(Cells), NEW m \in BOOLEAN, NEW r \in Seq(Cells)
  PROVE  /\ Ahead(b, m, r) \in Seq(Cells)
         /\ Ahead(b, m, << >>) \in Seq(Cells)
         /\ ~m => Ahead(b, m, r) = b \o r
         /\ m => Ahead(b, m, << >>) = Append(b, Marker)
         /\ m => Backspaced(Ahead(b, m, << >>), 1) = b
         /\ \A t \in Seq(Cells) : Ahead(b, m, r) \o t = Ahead(b, m, r \o t)
  <1> DEFINE mark == IF m THEN <<Marker>> ELSE << >>
             one == <<Marker>>
  <1>1. mark \in Seq(Cells) /\ one \in Seq(Cells) /\ << >> \in Seq(Cells) /\ Marker \in Cells
    BY CellFacts
  <1>2. (m => mark = one) /\ (~m => mark = << >>)
    OBVIOUS
  <1>3. Len(one) = 1
    OBVIOUS
  <1>4. Ahead(b, m, r) = (b \o mark) \o r /\ Ahead(b, m, << >>) = (b \o mark) \o << >>
    BY DEF Ahead
  <1>5. \A t \in Seq(Cells) : Ahead(b, m, r \o t) = (b \o mark) \o (r \o t)
    BY DEF Ahead
  <1>6. Append(b, Marker) = b \o one
    BY <1>1, AppendIsConcat
  <1> HIDE DEF mark, one
  <1>7. /\ \A x, y \in Seq(Cells) : x \o y \in Seq(Cells)
        /\ \A x, y, z \in Seq(Cells) : (x \o y) \o z = x \o (y \o z)
        /\ \A x \in Seq(Cells) : x \o << >> = x
    BY ConcatLaws
  <1>8. b \o mark \in Seq(Cells) /\ (b \o mark) \o r \in Seq(Cells) /\ (b \o mark) \o << >> = b \o mark
    BY <1>1, <1>7
  <1>9. ASSUME ~m
        PROVE  (b \o mark) \o r = b \o r
    BY <1>2, <1>7, <1>9
  <1>10. ASSUME m
         PROVE  Backspaced(b \o mark, 1) = b
    <2>1. 1 \in 0 .. Len(one) /\ Len(one) - 1 = 0
      BY <1>3
    <2>2. Backspaced(b \o one, 1) = b \o SubSeq(one, 1, Len(one) - 1)
      BY <1>1, <2>1, BackspacedFacts
    <2>3. SubSeq(one, 1, 0) = << >>
      BY SubSeqEmpty
    <2>4. b \o << >> = b
      BY <1>7
    <2> QED BY <1>2, <1>10, <2>1, <2>2, <2>3, <2>4
  <1>11. ASSUME NEW t \in Seq(Cells)
         PROVE  Ahead(b, m, r) \o t = Ahead(b, m, r \o t)
    <2> DEFINE x == b \o mark
    <2>1. x \in Seq(Cells) /\ Ahead(b, m, r) = x \o r /\ Ahead(b, m, r \o t) = x \o (r \o t)
      BY <1>4, <1>5, <1>8
    <2> HIDE DEF x
    <2> QED BY <1>7, <2>1, SMTT(40)
  <1> QED BY <1>2, <1>4, <1>6, <1>8, <1>9, <1>10, <1>11

LEMMA InitIInv == Init => IInv
  <1> SUFFICES ASSUME Init
               PROVE  IInv
    OBVIOUS
  <1>1. /\ <<User>> \in Seq(Cells) /\ << >> \in Seq(Cells) /\ << >> \in Texts /\ MaxSegments \in Nat
    BY CellFacts, LiveDeliveryAssumption
  <1>2. marker_active \in BOOLEAN /\ (marker_active <=> delivery = "Live")
    BY DEF Init
  <1>3. screen = Ahead(base, marker_active, << >>) \o << >> /\ (~marker_active => screen = base)
    <2>1. CASE marker_active
      <3>1. screen = <<User, Marker>> /\ base = <<User>>
        BY <2>1 DEF Init
      <3>2. Append(<<User>>, Marker) = <<User, Marker>>
        <4> DEFINE one == <<User>>
                   two == <<User, Marker>>
        <4>1. one \in Seq(Cells) /\ Len(one) = 1 /\ one[1] = User /\ Marker \in Cells
          BY CellFacts
        <4>2. two \in Seq(Cells) /\ Len(two) = 2 /\ two[1] = User /\ two[2] = Marker
          BY CellFacts
        <4> HIDE DEF one, two
        <4> DEFINE both == Append(one, Marker)
        <4>3. /\ both \in Seq(Cells) /\ Len(both) = 2
              /\ both[1] = User /\ both[2] = Marker
          <5>1. /\ both \in Seq(Cells) /\ Len(both) = Len(one) + 1
                /\ \A i \in 1 .. Len(one) : both[i] = one[i]
                /\ both[Len(one) + 1] = Marker
            <6>1. one \in Seq(Cells) /\ Marker \in Cells
              BY <4>1
            <6> QED BY <6>1, AppendProperties
          <5> HIDE DEF both
          <5>2. 1 \in 1 .. Len(one) /\ Len(one) + 1 = 2
            BY <4>1
          <5> QED BY <4>1, <5>1, <5>2
        <4> HIDE DEF both
        <4>4. \A i \in 1 .. 2 : i = 1 \/ i = 2
          OBVIOUS
        <4>5. both = two
          BY <4>2, <4>3, <4>4, SeqEqual
        <4> QED BY <4>5 DEF one, two, both
      <3>3. Ahead(base, marker_active, << >>) = Append(base, Marker)
        BY <1>1, <1>2, <2>1, <3>1, AheadFacts
      <3>4. Ahead(base, marker_active, << >>) \in Seq(Cells)
        BY <1>1, <1>2, <3>1, AheadFacts
      <3>5. Ahead(base, marker_active, << >>) \o << >> = Ahead(base, marker_active, << >>)
        BY <3>4, ConcatEmptySeq
      <3> QED BY <2>1, <3>1, <3>2, <3>3, <3>5
    <2>2. CASE ~marker_active
      <3>1. screen = <<User>> /\ base = <<User>>
        BY <2>2 DEF Init
      <3>2. Ahead(base, marker_active, << >>) = base \o << >>
        <4>1. base \in Seq(Cells)
          BY <1>1, <3>1
        <4> DEFINE none == << >>
        <4>2. none \in Seq(Cells)
          BY <1>1
        <4> HIDE DEF none
        <4>3. ~marker_active => Ahead(base, marker_active, none) = base \o none
          BY <1>2, <4>1, <4>2, AheadFacts
        <4> QED BY <2>2, <4>3 DEF none
      <3>3. base \o << >> = base
        BY <1>1, <3>1, ConcatEmptySeq
      <3> QED BY <2>2, <3>1, <3>2, <3>3
    <2> QED BY <2>1, <2>2
  <1>4. screen \in Seq(Cells)
    <2>1. Ahead(base, marker_active, << >>) \in Seq(Cells)
      BY <1>1, <1>2, AheadFacts DEF Init
    <2> QED BY <1>1, <1>3, <2>1, ConcatProperties
  <1>5. /\ live \in LiveTexts /\ ~live.committed_any /\ live.committed_text = << >>
        /\ live.tail = << >>
    BY <1>1 DEF Init, NewLiveText, LiveTexts
  <1>6. TypeOK
    <2>1. base \in Seq(Cells) /\ rendered \in Seq(Cells) /\ fallback \in Seq(Cells)
      BY <1>1 DEF Init
    <2>2. segments \in 0 .. MaxSegments
      BY <1>1 DEF Init
    <2>3. /\ stage \in {"live", "done"}
          /\ delivery \in {"Live", "Deferred"} /\ audio \in {"usable", "silent"}
          /\ erred \in BOOLEAN /\ failed \in BOOLEAN
          /\ tail_safe \in BOOLEAN /\ torn \in BOOLEAN
      BY DEF Init
    <2>4. live \in [committed_any : BOOLEAN, committed_text : Seq(Cells),
                    latest_committed_segment : Texts, tail : Seq(Cells)]
      BY <1>5 DEF LiveTexts
    <2> QED BY <1>2, <1>4, <2>1, <2>2, <2>3, <2>4 DEF TypeOK
  <1>7. Flags
    BY DEF Init, Flags
  <1>8. delivery = "Live" => WhileLive
    BY <1>3, <1>5 DEF Init, WhileLive
  <1>9. delivery = "Deferred" => WhileDeferred
    BY <1>2, <1>3, <1>5 DEF Init, WhileDeferred
  <1>10. stage = "live"
    BY DEF Init
  <1> QED BY <1>6, <1>7, <1>8, <1>9, <1>10 DEF IInv, Working

-----------------------------------------------------------------------------
(* The marker.                                                              *)

\* The marker is removed, or counts as the user's text from now on.
LEMMA MarkerGone ==
  ASSUME base \in Seq(Cells), marker_active \in BOOLEAN, NEW r \in Seq(Cells),
         marker_active => r = << >>, NEW before, before = Ahead(base, marker_active, r),
         NEW after, cleanup_marker(before, after)
  PROVE  ~marker_active' /\ marker_active' \in BOOLEAN /\ base' \in Seq(Cells) /\ after = base' \o r
  <1>1. marker_active' = FALSE
    BY DEF cleanup_marker
  <1>2. CASE marker_active
    <2> DEFINE none == << >>
               marked == Ahead(base, marker_active, none)
    <2>1. r = none /\ before = marked /\ none \in Seq(Cells)
      BY <1>2, CellFacts
    <2>2. marked = Append(base, Marker) /\ Backspaced(marked, 1) = base
      BY <1>2, AheadFacts
    <2>3. Append(base, Marker) \in Seq(Cells)
      BY CellFacts, AppendProperties
    <2> HIDE DEF none, marked
    <2>4. \/ after = Backspaced(before, 1) /\ base' = base
          \/ after = before /\ base' = Append(base, Marker)
      BY <1>2 DEF cleanup_marker
    <2>5. after = base' /\ base' \in Seq(Cells)
      BY <2>1, <2>2, <2>3, <2>4
    <2>6. base' \o none = base'
      BY <2>5, ConcatEmptySeq DEF none
    <2> QED BY <1>1, <2>1, <2>5, <2>6
  <1>3. CASE ~marker_active
    <2>1. after = before /\ base' = base
      BY <1>3 DEF cleanup_marker
    <2>2. before = base \o r
      BY <1>3, AheadFacts, ZenonT(60)
    <2> QED BY <1>1, <2>1, <2>2
  <1> QED BY <1>2, <1>3

\* Before the first visible text the marker goes; the screen is known all the same.
LEMMA MarkerStep ==
  ASSUME TypeOK, Flags, WhileLive, ~torn, NEW text \in Texts, NEW before,
         IF ReplacesMarker(text)
         THEN cleanup_marker(screen, before)
         ELSE before = screen /\ UNCHANGED <<marker_active, base>>
  PROVE  /\ base' \in Seq(Cells) /\ marker_active' \in BOOLEAN
         /\ before = Ahead(base', marker_active', rendered) \o live.tail
         /\ marker_active' => text = << >> /\ ~live.committed_any /\ live.tail = << >>
  <1>1. /\ base \in Seq(Cells) /\ marker_active \in BOOLEAN /\ rendered \in Seq(Cells)
        /\ live.tail \in Seq(Cells)
    BY DEF TypeOK
  <1>2. screen = Ahead(base, marker_active, rendered) \o live.tail
    BY DEF WhileLive
  <1>3. CASE ReplacesMarker(text)
    <2> DEFINE none == << >>
    <2>1. live.tail = none /\ rendered = none /\ none \in Seq(Cells)
      BY <1>3, CellFacts DEF ReplacesMarker, Flags
    <2>2. Ahead(base, marker_active, none) \in Seq(Cells)
      BY <1>1, AheadFacts
    <2>3. Ahead(base, marker_active, none) \o none = Ahead(base, marker_active, none)
      BY <2>2, ConcatEmptySeq
    <2> HIDE DEF none
    <2>4. screen = Ahead(base, marker_active, none)
      BY <1>2, <2>1, <2>3
    <2>5. cleanup_marker(screen, before)
      BY <1>3
    <2>6. marker_active => none = << >>
      BY DEF none
    <2>7. ~marker_active' /\ marker_active' \in BOOLEAN /\ base' \in Seq(Cells) /\ before = base' \o none
      BY <1>1, <2>1, <2>4, <2>5, <2>6, MarkerGone
    <2>8. base' \o none = base'
      BY <2>7, ConcatEmptySeq DEF none
    <2>9. Ahead(base', marker_active', none) = base' \o none
      BY <2>1, <2>7, AheadFacts
    <2>10. (base' \o none) \o none = base' \o none
      BY <2>8
    <2> QED BY <2>1, <2>7, <2>9, <2>10
  <1>4. CASE ~ReplacesMarker(text)
    <2>1. before = screen /\ base' = base /\ marker_active' = marker_active
      BY <1>4
    <2>2. marker_active => text = << >> /\ ~live.committed_any /\ live.tail = << >>
      BY <1>4 DEF ReplacesMarker, WhileLive
    <2> QED BY <1>1, <1>2, <2>1, <2>2
  <1> QED BY <1>3, <1>4

-----------------------------------------------------------------------------
(* The steps of a recording.                                                *)

LEMMA PartialStep ==
  ASSUME IInv, stage = "live", delivery = "Live", ~failed, NEW text \in Texts,
         apply_live_text(text, FALSE), UNCHANGED <<stage, erred, given, fallback, segments>>
  PROVE  IInv'
  <1>1. TypeOK /\ Flags /\ WhileLive /\ ~torn
    BY DEF IInv, Working, Flags
  <1>2. PICK before \in Screens(screen) :
           /\ IF ReplacesMarker(text)
              THEN cleanup_marker(screen, before)
              ELSE before = screen /\ UNCHANGED <<marker_active, base>>
           /\ apply_partial(before, text)
    BY DEF apply_live_text
  <1> DEFINE s == Ahead(base', marker_active', rendered)
             transition == partial(live, text)
             next == transition.next
  <1>3. /\ base' \in Seq(Cells) /\ marker_active' \in BOOLEAN
        /\ before = s \o live.tail
        /\ marker_active' => text = << >> /\ ~live.committed_any /\ live.tail = << >>
    BY <1>1, <1>2, MarkerStep
  <1>4. rendered \in Seq(Cells) /\ live \in LiveTexts
    BY <1>1 DEF TypeOK, LiveTexts
  <1>5. s \in Seq(Cells)
    BY <1>3, <1>4, AheadFacts
  <1>6. /\ next \in LiveTexts /\ next.committed_any = live.committed_any
        /\ apply_realtime_edit(s \o live.tail, transition.edit) = s \o next.tail
        /\ transition.edit # NoEdit =>
             PartOfEdit(s \o live.tail, transition.edit) \subseteq Extensions(Cells, s)
        /\ text = << >> /\ live.tail = << >> => transition.edit = NoEdit /\ next.tail = << >>
    <2> HIDE DEF s
    <2> QED BY <1>4, <1>5, PartialFacts
  <1>7. rendered' = rendered /\ stage' = stage /\ delivery' = delivery /\ fallback' = fallback
    BY <1>2 DEF apply_partial, EditFailed, given
  <1> HIDE DEF s, transition
  <1>8. CASE Edited(before, transition)
    <2>1. screen' = s \o next.tail /\ live' = next /\ UNCHANGED <<failed, tail_safe, torn>>
      BY <1>3, <1>6, <1>8 DEF Edited
    <2>2. next.tail \in Seq(Cells)
      BY <1>6 DEF LiveTexts
    <2>3. screen' \in Seq(Cells)
      BY <1>5, <2>1, <2>2, ConcatProperties
    <2>4. TypeOK'
      BY <1>1, <1>3, <1>6, <1>7, <2>1, <2>3 DEF TypeOK, LiveTexts, given
    <2>5. Flags'
      BY <1>1, <1>6, <1>7, <2>1 DEF Flags
    <2>6. WhileLive'
      <3>1. marker_active' => ~live'.committed_any /\ live'.tail = << >>
        BY <1>3, <1>6, <2>1
      <3>2. ~torn'
        BY <1>1, <2>1
      <3>3. screen' = Ahead(base', marker_active', rendered') \o live'.tail
        BY <1>7, <2>1 DEF s
      <3> QED BY <3>1, <3>2, <3>3 DEF WhileLive
    <2> QED BY <1>7, <2>4, <2>5, <2>6 DEF IInv, Working
  <1>9. CASE EditFailed(before, transition)
    <2>1. /\ transition.edit # NoEdit /\ screen' \in PartOfEdit(before, transition.edit)
          /\ failed' = TRUE /\ tail_safe' = FALSE /\ torn' = TRUE /\ live' = live
      BY <1>9 DEF EditFailed, Fail
    <2>2. ~marker_active'
      BY <1>3, <1>6, <2>1
    <2>3. s = base' \o rendered
      BY <1>3, <1>4, <2>2, AheadFacts DEF s
    <2>4. screen' \in Extensions(Cells, base' \o rendered)
      BY <1>3, <1>6, <2>1, <2>3
    <2>5. screen' \in Seq(Cells)
      <3>1. PICK t \in Seq(Cells) : screen' = s \o t
        BY <2>3, <2>4 DEF Extensions
      <3> QED BY <1>5, <3>1, ConcatProperties
    <2>6. TypeOK'
      BY <1>1, <1>3, <1>7, <2>1, <2>5 DEF TypeOK, given
    <2>7. Flags'
      BY <1>1, <1>7, <2>1 DEF Flags
    <2>8. WhileLive'
      BY <1>7, <2>1, <2>2, <2>4 DEF WhileLive
    <2> QED BY <1>7, <2>6, <2>7, <2>8 DEF IInv, Working
  <1> QED BY <1>2, <1>8, <1>9 DEF apply_partial, transition

LEMMA CommitStep ==
  ASSUME IInv, stage = "live", delivery = "Live", ~failed, NEW text \in Texts,
         apply_live_text(text, TRUE), UNCHANGED <<stage, erred, given, fallback>>,
         segments' \in 0 .. MaxSegments
  PROVE  IInv'
  <1>1. TypeOK /\ Flags /\ WhileLive /\ ~torn
    BY DEF IInv, Working, Flags
  <1>2. PICK before \in Screens(screen) :
           /\ IF ReplacesMarker(text)
              THEN cleanup_marker(screen, before)
              ELSE before = screen /\ UNCHANGED <<marker_active, base>>
           /\ apply_commit(before, text)
    BY DEF apply_live_text
  <1> DEFINE s == Ahead(base', marker_active', rendered)
             transition == commit(live, text)
             next == transition.next
             segment == segment_text(live.committed_any, text)
             chunks == parse_banana_chunks(segment)
             plan == clipboard_replacement_plan(segment, chunks)
             raw == apply_realtime_edit(before, transition.edit)
             prepared == Backspaced(raw, plan.backspaces)
             Pastes(image) ==
                deliver_chunks(SubSeq(chunks, plan.start, Len(chunks)), plan.has_space_before, image)
             Whole(image) == deliver_chunks(chunks, FALSE, image)
  <1>3. /\ base' \in Seq(Cells) /\ marker_active' \in BOOLEAN
        /\ before = s \o live.tail
        /\ marker_active' => text = << >> /\ ~live.committed_any /\ live.tail = << >>
    BY <1>1, <1>2, MarkerStep
  <1>4. rendered \in Seq(Cells) /\ live \in LiveTexts
    BY <1>1 DEF TypeOK, LiveTexts
  <1>5. s \in Seq(Cells)
    BY <1>3, <1>4, AheadFacts
  <1>6. /\ next \in LiveTexts /\ next.tail = << >> /\ segment \in Seq(Cells)
        /\ next.committed_any = (live.committed_any \/ text # << >>)
        /\ apply_realtime_edit(s \o live.tail, transition.edit) = s \o segment
        /\ PartOfEdit(s \o live.tail, transition.edit) \subseteq Extensions(Cells, s)
        /\ text = << >> => segment = << >>
        /\ text = << >> /\ live.tail = << >> => transition.edit = NoEdit
    <2> HIDE DEF s
    <2>1. CommitsOnScreen(live, text, s)
      BY <1>4, <1>5, CommitFacts
    <2> QED BY <2>1 DEF CommitsOnScreen
  <1>7. stage' = stage /\ delivery' = delivery /\ fallback' = fallback
    BY DEF given
  <1>8. \/ ~HasPlaceholder(chunks) /\ Edited(before, transition) /\ rendered' = rendered \o segment
        \/ EditFailed(before, transition)
        \/ /\ HasPlaceholder(chunks)
           /\ live' = next
           /\ \E image \in BOOLEAN :
                \/ /\ screen' = Typed(prepared, Pastes(image))
                   /\ rendered' = rendered \o Whole(image)
                   /\ UNCHANGED <<failed, tail_safe, torn>>
                \/ /\ \/ \E n \in 0 .. plan.backspaces : screen' = Backspaced(raw, n)
                      \/ screen' \in PartlyTyped(prepared, Pastes(image))
                   /\ Fail
                   /\ UNCHANGED rendered
    BY <1>2 DEF apply_commit
  <1> HIDE DEF transition, segment, chunks, plan
  \* What is typed after s is committed text.
  <1>9. ASSUME NEW typed \in Seq(Cells), screen' = s \o typed, rendered' = rendered \o typed,
               live' = next, UNCHANGED <<failed, tail_safe, torn>>, text = << >> => typed = << >>
        PROVE  IInv'
    <2>1. rendered' \in Seq(Cells) /\ screen' \in Seq(Cells)
      <3> HIDE DEF s
      <3> QED BY <1>4, <1>5, <1>9, ConcatProperties
    <2>2. TypeOK'
      BY <1>1, <1>3, <1>6, <1>7, <1>9, <2>1 DEF TypeOK, LiveTexts, given
    <2>3. Flags'
      <3>1. ASSUME ~live'.committed_any
            PROVE  rendered' = << >>
        <4>1. text = << >> /\ ~live.committed_any
          BY <1>4, <1>6, <1>9, <3>1 DEF LiveTexts
        <4>2. rendered = << >> /\ typed = << >>
          BY <1>1, <1>9, <4>1 DEF Flags
        <4>3. << >> \o << >> = << >>
          BY CellFacts, ConcatEmptySeq
        <4> QED BY <1>9, <4>2, <4>3
      <3> QED BY <1>1, <1>7, <1>9, <3>1 DEF Flags
    <2>4. WhileLive'
      <3>1. marker_active' => ~live'.committed_any /\ live'.tail = << >>
        BY <1>3, <1>4, <1>6, <1>9 DEF LiveTexts
      <3>2. screen' = Ahead(base', marker_active', rendered')
        <4>1. \A t \in Seq(Cells) :
                 Ahead(base', marker_active', rendered) \o t = Ahead(base', marker_active', rendered \o t)
          BY <1>3, <1>4, AheadFacts, SMTT(40)
        <4> QED BY <1>9, <4>1
      <3>3. screen' = Ahead(base', marker_active', rendered') \o live'.tail
        <4>1. screen' \o << >> = screen' /\ live'.tail = << >>
          BY <1>6, <1>9, <2>1, ConcatEmptySeq
        <4> QED BY <3>2, <4>1
      <3> QED BY <1>1, <1>9, <3>1, <3>3 DEF WhileLive
    <2> QED BY <1>7, <2>2, <2>3, <2>4 DEF IInv, Working
  \* A call that fails leaves s.
  <1>10. ASSUME screen' \in Extensions(Cells, s), Fail, rendered' = rendered,
                live' \in {live, next}, ~marker_active'
         PROVE  IInv'
    <2>1. s = base' \o rendered
      BY <1>3, <1>4, <1>10, AheadFacts, ZenonT(60)
    <2>2. screen' \in Seq(Cells)
      <3> HIDE DEF s
      <3>1. PICK t \in Seq(Cells) : screen' = s \o t
        BY <1>10 DEF Extensions
      <3> QED BY <1>5, <3>1, ConcatProperties
    <2>3. live' \in LiveTexts
      BY <1>4, <1>6, <1>10
    <2>4. TypeOK'
      <3> HIDE DEF s
      <3> QED BY <1>1, <1>3, <1>4, <1>7, <1>10, <2>2, <2>3 DEF TypeOK, LiveTexts, Fail, given
    <2>5. Flags'
      <3>1. ~live'.committed_any => ~live.committed_any
        BY <1>4, <1>6, <1>10 DEF LiveTexts
      <3> HIDE DEF s
      <3> QED BY <1>1, <1>7, <1>10, <3>1 DEF Flags, Fail
    <2>6. WhileLive'
      <3> HIDE DEF s
      <3> QED BY <1>10, <2>1 DEF WhileLive, Fail
    <2> QED BY <1>7, <2>4, <2>5, <2>6 DEF IInv, Working
  <1>11. CASE Edited(before, transition) /\ rendered' = rendered \o segment
    <2>1. screen' = s \o segment /\ live' = next /\ UNCHANGED <<failed, tail_safe, torn>>
      BY <1>3, <1>6, <1>11 DEF Edited
    <2> HIDE DEF s
    <2> QED BY <1>6, <1>9, <1>11, <2>1
  <1>12. CASE EditFailed(before, transition)
    <2>1. /\ transition.edit # NoEdit /\ screen' \in PartOfEdit(before, transition.edit)
          /\ Fail /\ live' = live /\ rendered' = rendered
      BY <1>12 DEF EditFailed
    <2>2. ~marker_active'
      BY <1>3, <1>6, <2>1
    <2> HIDE DEF s
    <2>3. screen' \in Extensions(Cells, s)
      BY <1>3, <1>6, <2>1
    <2> QED BY <1>10, <2>1, <2>2, <2>3
  <1>13. ASSUME HasPlaceholder(chunks), live' = next, NEW image \in BOOLEAN
         PROVE  /\ ~marker_active' /\ text # << >>
                /\ plan.backspaces \in 0 .. Len(segment)
                /\ raw = s \o segment
                /\ Pastes(image) \in Seq(Cells) /\ prepared \in Extensions(Cells, s)
                /\ Typed(prepared, Pastes(image)) = s \o Whole(image)
                /\ Whole(image) \in Seq(Cells)
    <2> HIDE DEF s
    <2>1. Writable(Cells)
      BY CellFacts
    <2>2. raw = s \o segment
      BY <1>3, <1>6
    <2>3. HasPlaceholder(parse_banana_chunks(segment))
      BY <1>13 DEF chunks
    <2>4. /\ plan.backspaces \in 0 .. Len(segment)
          /\ Pastes(image) \in Seq(Cells) /\ Backspaced(s \o segment, plan.backspaces) \in Extensions(Cells, s)
          /\ Typed(Backspaced(s \o segment, plan.backspaces), Pastes(image)) = s \o Whole(image)
      <3>1. Replaced(Cells, s, segment, image)
        BY <1>5, <1>6, <2>1, <2>3, ReplacingIsDelivering
      <3> QED BY <3>1 DEF Replaced, chunks, plan
    <2>5. segment # << >>
      <3>1. Banana \in Cells
        BY <2>1 DEF Writable
      <3>2. segment = << >> => chunks = << >>
        BY <1>6, <3>1, ParsingLosesNothing DEF chunks
      <3>3. ~HasPlaceholder(<< >>)
        <4>1. DOMAIN << >> = {}
          BY EmptySeq
        <4> QED BY <4>1 DEF HasPlaceholder
      <3> QED BY <1>13, <3>2, <3>3
    <2>6. Whole(image) \in Seq(Cells)
      <3> DEFINE no == FALSE
      <3> HIDE DEF no
      <3>1. chunks \in Seq(Chunk(Cells))
        <4>1. Banana \in Cells
          BY <2>1 DEF Writable
        <4> QED BY <1>6, <4>1, ParsingLosesNothing DEF chunks
      <3>2. deliver_chunks(chunks, no, image) \in Seq(Cells)
        BY <2>1, <3>1, DeliveryType
      <3> QED BY <3>2 DEF no
    <2> HIDE DEF raw
    <2>7. prepared = Backspaced(s \o segment, plan.backspaces)
      BY <2>2
    <2> HIDE DEF prepared, Pastes, Whole
    <2> QED BY <1>3, <1>6, <2>2, <2>4, <2>5, <2>6, <2>7
  <1>14. ASSUME HasPlaceholder(chunks), live' = next, NEW image \in BOOLEAN,
                screen' = Typed(prepared, Pastes(image)), rendered' = rendered \o Whole(image),
                UNCHANGED <<failed, tail_safe, torn>>
         PROVE  IInv'
    <2>1. /\ text # << >> /\ Whole(image) \in Seq(Cells)
          /\ Typed(prepared, Pastes(image)) = s \o Whole(image)
      BY <1>13, <1>14
    <2> HIDE DEF s, prepared, Pastes, Whole, raw
    <2> QED BY <1>9, <1>14, <2>1
  <1>15. ASSUME HasPlaceholder(chunks), live' = next, NEW image \in BOOLEAN,
                \/ \E n \in 0 .. plan.backspaces : screen' = Backspaced(raw, n)
                \/ screen' \in PartlyTyped(prepared, Pastes(image)),
                Fail, UNCHANGED rendered
         PROVE  IInv'
    <2>1. /\ ~marker_active' /\ plan.backspaces \in 0 .. Len(segment) /\ raw = s \o segment
          /\ Pastes(image) \in Seq(Cells) /\ prepared \in Extensions(Cells, s)
      BY <1>13, <1>15
    <2> HIDE DEF s, prepared, Pastes, raw
    <2>2. screen' \in Extensions(Cells, s)
      <3>1. CASE \E n \in 0 .. plan.backspaces : screen' = Backspaced(raw, n)
        <4>1. PICK n \in 0 .. plan.backspaces : screen' = Backspaced(s \o segment, n)
          BY <2>1, <3>1
        <4>2. n \in 0 .. Len(segment)
          <5>1. Len(segment) \in Nat
            BY <1>6, LenProperties
          <5> QED BY <2>1, <5>1
        <4> QED BY <1>5, <1>6, <4>1, <4>2, CutKeepsText
      <3>2. CASE screen' \in PartlyTyped(prepared, Pastes(image))
        BY <1>5, <2>1, <3>2, TypingKeepsText
      <3> QED BY <1>15, <3>1, <3>2
    <2> QED BY <1>10, <1>15, <2>1, <2>2
  <1> HIDE DEF s, prepared, Pastes, Whole, raw
  <1> QED BY <1>8, <1>11, <1>12, <1>14, <1>15

LEMMA DeferredStep ==
  ASSUME IInv, stage = "live", delivery = "Deferred", NEW text \in Texts,
         accumulate_committed_text(text), UNCHANGED <<stage, erred, given, fallback>>,
         segments' \in 0 .. MaxSegments
  PROVE  IInv'
  <1>1. TypeOK /\ Flags /\ WhileDeferred
    BY DEF IInv, Working
  <1> DEFINE next == commit(live, text).next
             segment == segment_text(live.committed_any, text)
             joined == Joined(rendered, text)
             separator == <<Space>>
  <1>2. /\ rendered \in Seq(Cells) /\ live \in LiveTexts /\ live.committed_any \in BOOLEAN
        /\ rendered = live.committed_text /\ (live.committed_any <=> rendered # << >>)
    BY <1>1 DEF TypeOK, LiveTexts, WhileDeferred
  <1>3. /\ next \in LiveTexts /\ next.tail = << >> /\ segment \in Seq(Cells)
        /\ next.committed_any = (live.committed_any \/ text # << >>)
        /\ next.committed_text = live.committed_text \o segment
    <2>1. CommitsOnScreen(live, text, << >>)
      BY <1>2, CellFacts, CommitFacts
    <2> QED BY <2>1 DEF CommitsOnScreen
  <1>4. text \in Seq(Cells) /\ separator \in Seq(Cells) /\ << >> \in Seq(Cells)
    BY CellFacts
  <1>5. joined = rendered \o segment
    <2>1. CASE text = << >>
      <3>1. joined = rendered \o << >> /\ segment = << >>
        BY <2>1 DEF Joined, segment_text
      <3> QED BY <3>1
    <2>2. CASE text # << >> /\ rendered = << >>
      <3>1. joined = rendered \o text /\ segment = text
        BY <1>2, <2>2 DEF Joined, segment_text
      <3> QED BY <3>1
    <2>3. CASE text # << >> /\ rendered # << >>
      <3>1. joined = rendered \o separator \o text /\ segment = separator \o text
        BY <1>2, <2>3 DEF Joined, segment_text
      <3> HIDE DEF joined, segment, separator
      <3>2. \A x, y, z \in Seq(Cells) : (x \o y) \o z = x \o (y \o z)
        BY ConcatLaws
      <3>3. (rendered \o separator) \o text = rendered \o (separator \o text)
        BY <1>2, <1>4, <3>2
      <3> QED BY <3>1, <3>3
    <2> QED BY <2>1, <2>2, <2>3
  <1>6. live' = next /\ rendered' = joined /\ UNCHANGED <<screenVars, failed, tail_safe, torn>>
    BY DEF accumulate_committed_text
  <1>7. rendered' # << >> <=> rendered # << >> \/ text # << >>
    <2>1. CASE text = << >>
      <3>1. joined = rendered \o << >>
        BY <2>1 DEF Joined
      <3>2. rendered \o << >> = rendered
        BY <1>2, ConcatEmptySeq
      <3> QED BY <1>6, <2>1, <3>1, <3>2
    <2>2. CASE text # << >> /\ rendered = << >>
      <3>1. joined = << >> \o text
        BY <2>2 DEF Joined
      <3>2. << >> \o text = text
        BY <1>4, ConcatEmptySeq
      <3> QED BY <1>6, <2>2, <3>1, <3>2
    <2>3. CASE text # << >> /\ rendered # << >>
      <3> HIDE DEF segment, joined
      <3>1. Len(rendered) \in Nat \ {0} /\ Len(segment) \in Nat
        BY <1>2, <1>3, <2>3, EmptySeq, LenProperties
      <3>2. Len(rendered \o segment) = Len(rendered) + Len(segment)
        BY <1>2, <1>3, ConcatProperties
      <3>3. Len(rendered') # 0
        BY <1>5, <1>6, <3>1, <3>2
      <3> QED BY <2>3, <3>3, EmptySeq
    <2> QED BY <2>1, <2>2, <2>3
  <1> HIDE DEF next, segment, joined
  <1>8. rendered' \in Seq(Cells)
    BY <1>2, <1>3, <1>5, <1>6, ConcatProperties
  <1>9. TypeOK'
    BY <1>1, <1>3, <1>6, <1>8 DEF TypeOK, LiveTexts, given, screenVars
  <1>10. Flags'
    BY <1>1, <1>2, <1>3, <1>6, <1>7 DEF Flags
  <1>11. WhileDeferred'
    <2>1. live'.committed_any <=> rendered' # << >>
      BY <1>2, <1>3, <1>6, <1>7
    <2>2. live'.tail = << >> /\ rendered' = live'.committed_text
      BY <1>2, <1>3, <1>5, <1>6
    <2>3. ~torn' /\ ~marker_active' /\ screen' = base'
      BY <1>1, <1>6 DEF WhileDeferred, screenVars
    <2> QED BY <2>1, <2>2, <2>3 DEF WhileDeferred
  <1> QED BY <1>9, <1>10, <1>11 DEF IInv, Working, given

LEMMA EventStep == IInv /\ (Partial \/ Committed \/ Error) => IInv'
  <1> SUFFICES ASSUME IInv, Partial \/ Committed \/ Error
               PROVE  IInv'
    OBVIOUS
  <1>1. CASE Partial
    <2>1. CASE delivery = "Live"
      <3>1. PICK text \in Texts : apply_live_text(text, FALSE)
        BY <1>1, <2>1 DEF Partial
      <3> QED BY <1>1, <2>1, <3>1, PartialStep DEF Partial
    <2>2. CASE delivery # "Live"
      <3>1. UNCHANGED vars
        BY <1>1, <2>2 DEF Partial, vars
      <3> QED BY <3>1, ZenonT(60) DEF vars, screenVars, textVars, given, IInv, TypeOK, Working, Flags,
                          WhileLive, WhileDeferred, ScreenIsTranscript, CommittedTextKept,
                          FallbackOnCleanLine, OnScreen, Tail0, Marker0
    <2> QED BY <2>1, <2>2
  <1>2. CASE Committed
    <2>1. segments' \in 0 .. MaxSegments
      BY <1>2, LiveDeliveryAssumption DEF Committed, IInv, TypeOK
    <2>2. PICK text \in Texts :
             \/ delivery = "Live" /\ apply_live_text(text, TRUE)
             \/ delivery = "Deferred" /\ accumulate_committed_text(text)
      BY <1>2 DEF Committed
    <2>3. stage = "live" /\ ~failed /\ UNCHANGED <<stage, erred, given, fallback>>
      BY <1>2 DEF Committed
    <2>4. CASE delivery = "Live" /\ apply_live_text(text, TRUE)
      BY <2>1, <2>3, <2>4, CommitStep
    <2>5. CASE delivery = "Deferred" /\ accumulate_committed_text(text)
      BY <2>1, <2>3, <2>5, DeferredStep
    <2> QED BY <2>2, <2>4, <2>5
  <1>3. CASE Error
    <2>1. /\ erred' = TRUE /\ failed' = TRUE /\ stage = "live"
          /\ UNCHANGED <<stage, screenVars, live, tail_safe, rendered, torn, given, fallback, segments>>
      BY <1>3 DEF Error
    <2>2. TypeOK'
      BY <2>1 DEF IInv, TypeOK, screenVars, given
    <2>3. Flags' /\ (delivery' = "Live" => WhileLive') /\ (delivery' = "Deferred" => WhileDeferred')
      BY <2>1 DEF IInv, Working, Flags, WhileLive, WhileDeferred, screenVars, given
    <2> QED BY <2>1, <2>2, <2>3 DEF IInv, Working
  <1> QED BY <1>1, <1>2, <1>3

-----------------------------------------------------------------------------
(* The end of a recording.                                                  *)

LEMMA DoneType ==
  ASSUME TypeOK, stage' = "done", screen' \in Seq(Cells), marker_active' = FALSE,
         base' \in Seq(Cells), fallback' \in Seq(Cells), torn' \in BOOLEAN, live' \in LiveTexts,
         UNCHANGED <<failed, tail_safe, rendered, erred, given, segments>>
  PROVE  TypeOK'
  BY DEF TypeOK, given, LiveTexts

LEMMA CleanedLive ==
  ASSUME NEW l \in LiveTexts
  PROVE  cleanup(l).next \in LiveTexts
  <1>1. << >> \in Seq(Cells)
    BY CellFacts
  <1>2. cleanup(l).next = [l EXCEPT !.tail = << >>]
    BY DEF cleanup, replace_tail
  <1> QED BY <1>1, <1>2 DEF LiveTexts

\* What may be on the screen once the tail has been deleted, all of it or a part:
\* then the marker is gone, unless there was a tail.
LEMMA TailDeleted ==
  ASSUME TypeOK, Flags, delivery = "Live" => WhileLive, delivery = "Deferred" => WhileDeferred,
         NEW n \in 0 .. Len(live.tail), ~torn
  PROVE  LET r == IF delivery = "Live" THEN rendered ELSE << >>
         IN  /\ r \in Seq(Cells) /\ (marker_active => r = << >>)
             /\ Ahead(base, marker_active, r) \in Seq(Cells)
             /\ Backspaced(screen, n) \in Extensions(Cells, Ahead(base, marker_active, r))
             /\ n = Len(live.tail) => Backspaced(screen, n) = Ahead(base, marker_active, r)
             /\ live.tail # << >> => ~marker_active /\ delivery = "Live"
  <1> DEFINE r == IF delivery = "Live" THEN rendered ELSE << >>
             s == Ahead(base, marker_active, r)
             t == live.tail
  <1>1. /\ base \in Seq(Cells) /\ marker_active \in BOOLEAN /\ r \in Seq(Cells) /\ t \in Seq(Cells)
        /\ delivery \in {"Live", "Deferred"}
    BY CellFacts DEF TypeOK
  <1>2. s \in Seq(Cells)
    <2> HIDE DEF r
    <2> QED BY <1>1, AheadFacts
  <1>3. marker_active => r = << >>
    BY DEF Flags, WhileLive, WhileDeferred
  <1>4. screen = s \o t
    <2>1. CASE delivery = "Live"
      BY <2>1 DEF WhileLive
    <2>2. CASE delivery = "Deferred"
      <3>1. ~marker_active /\ screen = base /\ t = << >> /\ r = << >>
        BY <2>2 DEF WhileDeferred
      <3>2. s = base \o r
        <4>1. ~marker_active
          BY <3>1
        <4> HIDE DEF r
        <4> QED BY <1>1, <4>1, AheadFacts
      <3>3. base \o << >> = base
        BY <1>1, ConcatEmptySeq
      <3> HIDE DEF s, r, t
      <3> QED BY <3>1, <3>2, <3>3
    <2> QED BY <1>1, <2>1, <2>2
  <1>5. t # << >> => ~marker_active /\ delivery = "Live"
    BY <1>1 DEF WhileLive, WhileDeferred
  <1> HIDE DEF s, r
  <1>6. Backspaced(screen, n) \in Extensions(Cells, s)
    BY <1>1, <1>2, <1>4, CutKeepsText
  <1>7. n = Len(t) => Backspaced(screen, n) = s
    <2>1. Backspaced(screen, n) = s \o SubSeq(t, 1, Len(t) - n)
      BY <1>1, <1>2, <1>4, BackspacedFacts
    <2>2. Len(t) \in Nat
      BY <1>1, LenProperties
    <2>3. SubSeq(t, 1, 0) = << >> /\ s \o << >> = s
      BY <1>2, SubSeqEmpty, ConcatEmptySeq
    <2>4. n = Len(t) => Len(t) - n = 0
      BY <2>2
    <2> QED BY <2>1, <2>3, <2>4
  <1> QED BY <1>1, <1>2, <1>3, <1>5, <1>6, <1>7 DEF s, r

\* The end without a fallback.
LEMMA FinishStep == IInv /\ finish_without_fallback => IInv'
  <1> SUFFICES ASSUME IInv, finish_without_fallback
               PROVE  IInv'
    OBVIOUS
  <1> DEFINE r == IF delivery = "Live" THEN rendered ELSE << >>
             s == Ahead(base, marker_active, r)
  <1>1. /\ TypeOK /\ Flags
        /\ delivery = "Live" => WhileLive
        /\ delivery = "Deferred" => WhileDeferred
    BY DEF IInv, Working, finish_without_fallback
  <1>2. /\ delivery = "Live" \/ audio # "usable"
        /\ stage' = "done" /\ UNCHANGED <<failed, tail_safe, rendered, erred, given, fallback, segments>>
    BY DEF finish_without_fallback
  <1>3. fallback = << >> /\ fallback' = << >> /\ delivery' = delivery /\ audio' = audio /\ rendered' = rendered
    BY <1>1, <1>2 DEF Flags, given
  <1>4. PICK n \in 0 .. Len(live.tail) :
           LET after == Backspaced(screen, n)
           IN  \/ /\ TailCleaned(after) /\ cleanup_marker(after, screen')
                  /\ UNCHANGED torn
               \/ /\ TailNotCleaned(after) /\ cleanup_marker(after, screen')
                  /\ torn' = TRUE
    BY DEF finish_without_fallback, Shorter
  <1> DEFINE after == Backspaced(screen, n)
  <1>5. /\ base \in Seq(Cells) /\ marker_active \in BOOLEAN /\ r \in Seq(Cells) /\ live \in LiveTexts
        /\ delivery \in {"Live", "Deferred"} /\ torn \in BOOLEAN
        /\ live.tail \in Seq(Cells) /\ Len(live.tail) \in Nat
    <2>1. /\ base \in Seq(Cells) /\ marker_active \in BOOLEAN /\ r \in Seq(Cells) /\ live \in LiveTexts
          /\ delivery \in {"Live", "Deferred"} /\ torn \in BOOLEAN
          /\ live.tail \in Seq(Cells)
      BY <1>1, CellFacts DEF TypeOK, LiveTexts
    <2> QED BY <2>1, LenProperties
  \* It suffices to know how the screen begins, and all of it if nothing failed.
  <1>6. ASSUME base' \in Seq(Cells), ~marker_active', marker_active' \in BOOLEAN, live' \in LiveTexts,
               screen' \in Extensions(Cells, base' \o r), torn' \in BOOLEAN,
               ~torn' => screen' = base' \o r
        PROVE  IInv'
    <2> HIDE DEF r
    <2>1. PICK t \in Seq(Cells) : screen' = (base' \o r) \o t
      BY <1>6 DEF Extensions
    <2>2. base' \o r \in Seq(Cells)
      BY <1>5, <1>6, ConcatProperties
    <2>3. screen' \in Seq(Cells) /\ IsPrefix(base' \o r, screen')
      <3> DEFINE whole == base' \o r
      <3>1. whole \in Seq(Cells) /\ screen' = whole \o t
        BY <2>1, <2>2
      <3> HIDE DEF whole
      <3>2. IsPrefix(whole, whole \o t) /\ whole \o t \in Seq(Cells)
        BY <3>1, ConcatProperties, PrefixOfConcat
      <3> QED BY <3>1, <3>2 DEF whole
    <2>4. TypeOK'
      <3>1. fallback' \in Seq(Cells) /\ marker_active' = FALSE
        BY <1>3, <1>6, CellFacts
      <3> QED BY <1>1, <1>2, <1>6, <2>3, <3>1, DoneType
    <2>5. CommittedTextKept'
      <3>1. r = IF delivery' = "Live" THEN rendered' ELSE << >>
        BY <1>3 DEF r
      <3> QED BY <2>3, <3>1 DEF CommittedTextKept
    <2>6. FallbackOnCleanLine'
      BY <1>3 DEF FallbackOnCleanLine
    <2>7. ScreenIsTranscript'
      <3> SUFFICES ASSUME ~torn'
                   PROVE  \E image \in BOOLEAN :
                             screen' = base' \o Marker0' \o OnScreen(image)' \o Tail0' \o fallback'
        BY DEF ScreenIsTranscript
      <3>1. Marker0' = << >> /\ Tail0' = << >> /\ fallback' = << >>
        BY <1>2, <1>3, <1>6 DEF Marker0, Tail0
      <3>2. OnScreen(TRUE)' = r
        BY <1>1, <1>2, <1>3 DEF OnScreen, TypeOK, r
      <3> DEFINE none == << >>
                 b == base'
      <3>3. b \o none = b /\ (b \o r) \o none = b \o r
        BY <1>6, <2>2, ConcatEmptySeq
      <3>4. screen' = b \o r
        BY <1>6
      <3> HIDE DEF b, none
      <3>5. screen' = b \o none \o r \o none \o none
        BY <3>3, <3>4
      <3>6. screen' = base' \o Marker0' \o OnScreen(TRUE)' \o Tail0' \o fallback'
        BY <3>1, <3>2, <3>5 DEF b, none
      <3> QED BY <3>6
    <2> QED BY <1>2, <2>4, <2>5, <2>6, <2>7 DEF IInv
  <1>7. CASE TailCleaned(after) /\ cleanup_marker(after, screen') /\ UNCHANGED torn
    <2>1. ~torn
      BY <1>1, <1>7 DEF TailCleaned, Flags
    <2>2. after = s
      <3>1. after = Backspaced(screen, Len(live.tail)) /\ Len(live.tail) \in 0 .. Len(live.tail)
        BY <1>5, <1>7 DEF TailCleaned
      <3> QED BY <1>1, <2>1, <3>1, TailDeleted
    <2>3. marker_active => r = << >>
      BY <1>1, <2>1, TailDeleted
    <2> HIDE DEF r
    <2>4. ~marker_active' /\ marker_active' \in BOOLEAN /\ base' \in Seq(Cells) /\ screen' = base' \o r
      <3> HIDE DEF after
      <3> QED BY <1>5, <1>7, <2>2, <2>3, MarkerGone
    <2>5. live' \in LiveTexts
      BY <1>5, <1>7, CleanedLive DEF TailCleaned
    <2>6. screen' \in Extensions(Cells, base' \o r)
      <3> DEFINE whole == base' \o r
      <3>1. whole \in Seq(Cells) /\ screen' = whole
        BY <1>5, <2>4, ConcatProperties
      <3> HIDE DEF whole
      <3>2. whole = whole \o << >> /\ << >> \in Seq(Cells)
        BY <3>1, ConcatEmptySeq, EmptySeq
      <3>3. screen' \in Extensions(Cells, whole)
        BY <3>1, <3>2 DEF Extensions
      <3> QED BY <3>3 DEF whole
    <2>7. torn' \in BOOLEAN
      BY <1>5, <1>7
    <2> QED BY <1>6, <2>4, <2>5, <2>6, <2>7
  <1>8. CASE TailNotCleaned(after) /\ cleanup_marker(after, screen') /\ torn' = TRUE
    <2>1. live' = live
      BY <1>8 DEF TailNotCleaned
    <2>2. ~marker_active /\ after \in Extensions(Cells, base \o r)
      <3>1. CASE ~tail_safe /\ after = screen
        <4>1. torn
          BY <1>1, <3>1 DEF Flags
        <4>2. delivery = "Live"
          BY <1>1, <1>5, <4>1 DEF WhileDeferred
        <4> QED BY <1>1, <3>1, <4>1, <4>2 DEF WhileLive
      <3>2. CASE tail_safe /\ live.tail # << >>
        <4>1. ~torn
          BY <1>1, <3>2 DEF Flags
        <4>2. after \in Extensions(Cells, s) /\ ~marker_active
          BY <1>1, <3>2, <4>1, TailDeleted
        <4>3. s = base \o r
          <5> HIDE DEF r
          <5> QED BY <1>5, <4>2, AheadFacts
        <4> QED BY <4>2, <4>3
      <3> QED BY <1>8, <3>1, <3>2 DEF TailNotCleaned
    <2>3. marker_active' = FALSE /\ screen' = after /\ base' = base
      BY <1>8, <2>2 DEF cleanup_marker
    <2> HIDE DEF r
    <2> QED BY <1>5, <1>6, <1>8, <2>1, <2>2, <2>3
  <1> QED BY <1>4, <1>7, <1>8

\* Parts of a delivery at the end, after what was on the screen.
LEMMA EndTyped ==
  ASSUME NEW b \in Seq(Cells), NEW typed \in Seq(Cells), NEW part,
         part = b \o typed \/ part \in PartlyTyped(b, typed)
  PROVE  /\ part \in Seq(Cells) /\ IsPrefix(b \o << >>, part)
         /\ \E n \in 0 .. Len(typed) : part = b \o SubSeq(typed, 1, n)
  <1>1. Len(typed) \in Nat /\ SubSeq(typed, 1, Len(typed)) = typed
    BY LenProperties, SubSeqFull
  <1>2. PICK n \in 0 .. Len(typed) : part = b \o SubSeq(typed, 1, n)
    <2>1. Len(typed) \in 0 .. Len(typed)
      BY <1>1
    <2> QED BY <1>1, <2>1 DEF PartlyTyped
  <1>3. SubSeq(typed, 1, n) \in Seq(Cells)
    BY PrefixFacts
  <1>4. b \o << >> = b
    BY ConcatEmptySeq
  <1>5. part \in Seq(Cells) /\ IsPrefix(b, part)
    <2> DEFINE v == SubSeq(typed, 1, n)
    <2>1. v \in Seq(Cells) /\ part = b \o v
      BY <1>2, <1>3
    <2> HIDE DEF v
    <2> QED BY <2>1, PrefixOfConcat, ConcatProperties
  <1> QED BY <1>2, <1>4, <1>5

\* An empty text is delivered as nothing.
LEMMA NothingDelivered ==
  ASSUME NEW image
  PROVE  deliver_chunks(parse_banana_chunks(<< >>), FALSE, image) = << >>
  <1>1. Writable(Cells) /\ Banana \in Cells /\ << >> \in Seq(Cells)
    BY CellFacts DEF Writable
  <1>2. parse_banana_chunks(<< >>) = << >>
    BY <1>1, ParsingLosesNothing
  <1> DEFINE no == FALSE
             chunks == << >>
             all == Delivered(chunks, no, image)
  <1>3. chunks \in Seq(Chunk(Cells)) /\ Len(chunks) = 0
    BY EmptySeq
  <1> HIDE DEF no, chunks
  <1>4. all \in Seq(Seq(Cells)) /\ Len(all) = Len(chunks)
    BY <1>1, <1>3, DeliveredType
  <1> HIDE DEF all
  <1>5. all = << >>
    BY <1>3, <1>4, EmptySeq
  <1>6. FlattenSeq(all) = << >>
    BY <1>3, <1>4, <1>5 DEF FlattenSeq
  <1>7. deliver_chunks(chunks, no, image) = << >>
    BY <1>6 DEF deliver_chunks, Delivered, all
  <1> QED BY <1>2, <1>7 DEF no, chunks

\* Every text can be delivered.
LEMMA TextDelivered ==
  ASSUME NEW text \in Seq(Cells), NEW image
  PROVE  deliver_chunks(parse_banana_chunks(text), FALSE, image) \in Seq(Cells)
  <1> DEFINE no == FALSE
             chunks == parse_banana_chunks(text)
  <1>1. Writable(Cells) /\ Banana \in Cells
    BY CellFacts DEF Writable
  <1>2. chunks \in Seq(Chunk(Cells))
    BY <1>1, ParsingLosesNothing
  <1> HIDE DEF no, chunks
  <1>3. deliver_chunks(chunks, no, image) \in Seq(Cells)
    BY <1>1, <1>2, DeliveryType
  <1> QED BY <1>3 DEF no, chunks

\* The end of a deferred recording.
LEMMA TranscriptStep == IInv /\ deliver_transcript => IInv'
  <1> SUFFICES ASSUME IInv, deliver_transcript
               PROVE  IInv'
    OBVIOUS
  <1>1. TypeOK /\ Flags /\ WhileDeferred
    BY DEF IInv, Working, deliver_transcript
  <1>2. /\ delivery = "Deferred" /\ audio = "usable" /\ stage' = "done"
        /\ UNCHANGED <<live, failed, tail_safe, rendered, erred, given, fallback, segments>>
    BY DEF deliver_transcript
  <1> DEFINE Typing(image) == deliver_chunks(parse_banana_chunks(live.committed_text), FALSE, image)
  <1>3. PICK image \in BOOLEAN :
           \/ cleanup_marker(Typed(screen, Typing(image)), screen') /\ UNCHANGED torn
           \/ /\ torn' = TRUE
              /\ \E part \in PartlyTyped(screen, Typing(image)) : cleanup_marker(part, screen')
    BY DEF deliver_transcript
  <1> DEFINE typed == Typing(image)
  <1>4. /\ base \in Seq(Cells) /\ live.committed_text \in Seq(Cells) /\ live \in LiveTexts
        /\ fallback = << >> /\ rendered = live.committed_text /\ screen = base /\ ~marker_active
        /\ torn \in BOOLEAN
    BY <1>1 DEF TypeOK, Flags, WhileDeferred, LiveTexts
  <1>5. typed \in Seq(Cells)
    BY <1>4, TextDelivered
  <1>6. typed = deliver_chunks(parse_banana_chunks(rendered), FALSE, image)
    BY <1>4
  <1> HIDE DEF Typing, typed
  <1>7. /\ base' = base /\ marker_active' = FALSE
        /\ \/ screen' = base \o typed /\ torn' = torn
           \/ screen' \in PartlyTyped(base, typed) /\ torn' = TRUE
    BY <1>3, <1>4 DEF cleanup_marker, Typed, typed
  <1>8. screen' \in Seq(Cells) /\ IsPrefix(base \o << >>, screen')
    BY <1>4, <1>5, <1>7, EndTyped
  <1>9. TypeOK'
    <2>1. << >> \in Seq(Cells)
      BY CellFacts
    <2> QED BY <1>1, <1>2, <1>4, <1>7, <1>8, <2>1, DoneType
  <1>10. CommittedTextKept'
    BY <1>2, <1>7, <1>8 DEF CommittedTextKept, given
  <1>11. FallbackOnCleanLine'
    BY <1>2, <1>4 DEF FallbackOnCleanLine
  <1>12. ScreenIsTranscript'
    <2> SUFFICES ASSUME ~torn'
                 PROVE  screen' = base' \o Marker0' \o OnScreen(image)' \o Tail0' \o fallback'
      BY DEF ScreenIsTranscript
    <2>1. Marker0' = << >> /\ Tail0' = << >> /\ fallback' = << >>
      BY <1>2, <1>4, <1>7 DEF Marker0, Tail0
    <2>2. OnScreen(image)' = typed
      BY <1>2, <1>6 DEF OnScreen, given
    <2> DEFINE none == << >>
    <2>3. base \o none = base /\ (base \o typed) \o none = base \o typed
      BY <1>4, <1>5, ConcatProperties, ConcatEmptySeq
    <2> HIDE DEF none
    <2>4. screen' = base \o none \o typed \o none \o none
      BY <1>7, <2>3
    <2> QED BY <1>7, <2>1, <2>2, <2>4 DEF none
  <1> QED BY <1>2, <1>9, <1>10, <1>11, <1>12 DEF IInv

\* The end with the batch fallback, or with the batch failing too.
LEMMA FallbackStep == IInv /\ finish_fallback => IInv'
  <1> SUFFICES ASSUME IInv, finish_fallback
               PROVE  IInv'
    OBVIOUS
  <1> DEFINE r == IF delivery = "Live" THEN rendered ELSE << >>
             s == Ahead(base, marker_active, r)
  <1>1. /\ TypeOK /\ Flags
        /\ delivery = "Live" => WhileLive
        /\ delivery = "Deferred" => WhileDeferred
    BY DEF IInv, Working, finish_fallback
  <1>2. /\ audio = "usable" /\ stage' = "done"
        /\ UNCHANGED <<failed, tail_safe, rendered, erred, given, segments>>
    BY DEF finish_fallback
  <1>3. rendered = << >> /\ r = << >>
    <2>1. ~live.committed_any
      <3>1. Rec!realtime_next_step = "FallbackBatch"
        BY DEF finish_fallback
      <3> QED BY <3>1, <1>1 DEF Rec!realtime_next_step, Rec!Usable, TypeOK
    <2> QED BY <1>1, <2>1 DEF Flags
  <1>4. PICK after \in Shorter, text \in Texts, image \in BOOLEAN :
           /\ TailCleaned(after)
           /\ \E clean \in Screens(after) :
                /\ cleanup_marker(after, clean)
                /\ LET typed == deliver_chunks(parse_banana_chunks(text), FALSE, image)
                   IN  \/ screen' = Typed(clean, typed) /\ fallback' = typed /\ UNCHANGED torn
                       \/ screen' \in PartlyTyped(clean, typed) /\ fallback' = typed /\ torn' = TRUE
    BY DEF finish_fallback
  <1> DEFINE typed == deliver_chunks(parse_banana_chunks(text), FALSE, image)
  <1>5. PICK clean :
           /\ cleanup_marker(after, clean)
           /\ \/ screen' = Typed(clean, typed) /\ fallback' = typed /\ UNCHANGED torn
              \/ screen' \in PartlyTyped(clean, typed) /\ fallback' = typed /\ torn' = TRUE
    BY <1>4
  <1>6. typed \in Seq(Cells)
    <2>1. text \in Seq(Cells)
      BY CellFacts
    <2> QED BY <2>1, TextDelivered
  <1> HIDE DEF typed
  <1>7. /\ base \in Seq(Cells) /\ marker_active \in BOOLEAN /\ r \in Seq(Cells) /\ live \in LiveTexts
        /\ delivery \in {"Live", "Deferred"} /\ torn \in BOOLEAN
        /\ live.tail \in Seq(Cells) /\ Len(live.tail) \in 0 .. Len(live.tail)
    <2>1. /\ base \in Seq(Cells) /\ marker_active \in BOOLEAN /\ r \in Seq(Cells) /\ live \in LiveTexts
          /\ delivery \in {"Live", "Deferred"} /\ torn \in BOOLEAN
          /\ live.tail \in Seq(Cells)
      BY <1>1, CellFacts DEF TypeOK, LiveTexts
    <2>2. Len(live.tail) \in Nat
      BY <2>1, LenProperties
    <2> QED BY <2>1, <2>2
  <1>8. ~torn /\ after = Backspaced(screen, Len(live.tail)) /\ live' = cleanup(live).next
    BY <1>1, <1>4 DEF TailCleaned, Flags
  <1>9. after = s
    BY <1>1, <1>7, <1>8, TailDeleted
  <1>10. ~marker_active' /\ marker_active' \in BOOLEAN /\ base' \in Seq(Cells) /\ clean = base' \o r
    <2>1. marker_active => r = << >>
      BY <1>3
    <2> HIDE DEF r
    <2> QED BY <1>5, <1>7, <1>9, <2>1, MarkerGone
  <1>11. clean = base'
    <2>1. base' \o << >> = base'
      BY <1>10, ConcatEmptySeq
    <2> HIDE DEF r
    <2> QED BY <1>3, <1>10, <2>1
  <1>12. /\ screen' \in Seq(Cells) /\ IsPrefix(base' \o << >>, screen')
         /\ \E n \in 0 .. Len(typed) : screen' = base' \o SubSeq(typed, 1, n)
    <2> DEFINE b == base'
    <2>1. b \in Seq(Cells) /\ (screen' = b \o typed \/ screen' \in PartlyTyped(b, typed))
      BY <1>5, <1>10, <1>11 DEF Typed
    <2> HIDE DEF b
    <2>2. /\ screen' \in Seq(Cells) /\ IsPrefix(b \o << >>, screen')
          /\ \E n \in 0 .. Len(typed) : screen' = b \o SubSeq(typed, 1, n)
      BY <1>6, <2>1, EndTyped, SMTT(40)
    <2> QED BY <2>2 DEF b
  <1>13. fallback' = typed /\ torn' \in BOOLEAN /\ rendered' = << >>
    BY <1>2, <1>3, <1>5, <1>7
  <1>14. TypeOK'
    <2>1. live' \in LiveTexts
      BY <1>7, <1>8, CleanedLive
    <2> QED BY <1>1, <1>2, <1>6, <1>10, <1>12, <1>13, <2>1, DoneType
  <1>15. CommittedTextKept'
    BY <1>12, <1>13 DEF CommittedTextKept
  <1>16. FallbackOnCleanLine'
    BY <1>12, <1>13 DEF FallbackOnCleanLine
  <1>17. ScreenIsTranscript'
    <2> SUFFICES ASSUME ~torn'
                 PROVE  screen' = base' \o Marker0' \o OnScreen(image)' \o Tail0' \o fallback'
      BY DEF ScreenIsTranscript
    <2>1. Marker0' = << >> /\ Tail0' = << >> /\ fallback' = typed
      BY <1>2, <1>10, <1>13 DEF Marker0, Tail0
    <2>2. OnScreen(image)' = << >>
      BY <1>2, <1>13, NothingDelivered DEF OnScreen, given
    <2> DEFINE none == << >>
               b == base'
    <2>3. b \o none = b /\ b \in Seq(Cells)
      BY <1>10, ConcatEmptySeq
    <2>4. screen' = b \o typed
      BY <1>5, <1>11 DEF Typed
    <2> HIDE DEF none, b
    <2>5. screen' = b \o none \o none \o none \o typed
      BY <2>3, <2>4
    <2> QED BY <2>1, <2>2, <2>5 DEF none, b
  <1> QED BY <1>2, <1>14, <1>15, <1>16, <1>17 DEF IInv

-----------------------------------------------------------------------------
(* The theorems.                                                            *)

LEMMA NextIInv == IInv /\ [Next]_vars => IInv'
  <1> SUFFICES ASSUME IInv, [Next]_vars
               PROVE  IInv'
    OBVIOUS
  <1>1. CASE Partial \/ Committed \/ Error
    BY <1>1, EventStep
  <1>2. CASE finish_without_fallback
    BY <1>2, FinishStep
  <1>3. CASE deliver_transcript
    BY <1>3, TranscriptStep
  <1>4. CASE finish_fallback
    BY <1>4, FallbackStep
  <1>5. CASE UNCHANGED vars
    BY <1>5, ZenonT(60) DEF vars, screenVars, textVars, given, IInv, TypeOK, Working, Flags,
                WhileLive, WhileDeferred, ScreenIsTranscript, CommittedTextKept,
                FallbackOnCleanLine, OnScreen, Tail0, Marker0
  <1> QED BY <1>1, <1>2, <1>3, <1>4, <1>5 DEF Next, Done

\* The invariant behind the theorems below, for any texts and any number of segments.
THEOREM Invariance == Spec => []IInv
  BY InitIInv, NextIInv, PTL DEF Spec

\* Every variable keeps its type.
THEOREM TypeCorrect == Spec => []TypeOK
  <1>1. IInv => TypeOK
    BY DEF IInv
  <1> QED BY <1>1, Invariance, PTL

\* Unless a call to wtype failed part-way, the screen is the user's text, what was
\* committed with the clipboard pasted in it, and the tail (realtime_mode.rs:551-609,
\* live_text.rs:58-133).
THEOREM ScreenRight == Spec => []ScreenIsTranscript
  <1>1. IInv => ScreenIsTranscript
    <2> SUFFICES ASSUME IInv, stage = "live", ~torn
                 PROVE  screen = base \o Marker0 \o OnScreen(TRUE) \o Tail0 \o fallback
      BY DEF IInv, TypeOK, ScreenIsTranscript
    <2>1. TypeOK /\ Working
      BY DEF IInv
    <2>2. /\ base \in Seq(Cells) /\ rendered \in Seq(Cells) /\ live.tail \in Seq(Cells)
          /\ marker_active \in BOOLEAN /\ delivery \in {"Live", "Deferred"}
      BY <2>1 DEF TypeOK
    <2>3. fallback = << >> /\ Tail0 = live.tail
      BY <2>1 DEF Working, Flags, Tail0
    <2> DEFINE none == << >>
    <2>4. CASE delivery = "Live"
      <3> DEFINE front == Ahead(base, marker_active, rendered)
                 whole == front \o live.tail
      <3>1. screen = whole /\ OnScreen(TRUE) = rendered
        BY <2>1, <2>4 DEF Working, WhileLive, OnScreen
      <3>2. front \in Seq(Cells)
        BY <2>2, AheadFacts
      <3>3. whole = base \o Marker0 \o rendered \o live.tail
        BY DEF Ahead, Marker0
      <3> HIDE DEF front
      <3>4. whole \in Seq(Cells)
        BY <2>2, <3>2, ConcatProperties
      <3> HIDE DEF whole
      <3>5. whole \o none = whole
        BY <3>4, ConcatEmptySeq
      <3> QED BY <2>3, <3>1, <3>3, <3>5
    <2>5. CASE delivery = "Deferred"
      <3>1. screen = base /\ Marker0 = none /\ Tail0 = none /\ OnScreen(TRUE) = none
        BY <2>1, <2>3, <2>5 DEF Working, WhileDeferred, OnScreen, Marker0
      <3>2. base \o none = base
        BY <2>2, ConcatEmptySeq
      <3>3. fallback = none
        BY <2>3
      <3> HIDE DEF none
      <3>4. screen = base \o none \o none \o none \o none
        BY <3>1, <3>2
      <3> QED BY <3>1, <3>3, <3>4
    <2> QED BY <2>2, <2>4, <2>5
  <1> QED BY <1>1, Invariance, PTL

\* No Backspace reaches the user's text or a committed segment, whatever fails
\* (realtime_mode.rs:551-609, 648-686).
THEOREM CommittedStays == Spec => []CommittedTextKept
  <1>1. IInv => CommittedTextKept
    <2> SUFFICES ASSUME IInv, stage = "live"
                 PROVE  CommittedTextKept
      BY DEF IInv, TypeOK
    <2> DEFINE r == IF delivery = "Live" THEN rendered ELSE << >>
    <2>1. TypeOK /\ Working
      BY DEF IInv
    <2>2. /\ base \in Seq(Cells) /\ r \in Seq(Cells) /\ live.tail \in Seq(Cells)
          /\ marker_active \in BOOLEAN /\ delivery \in {"Live", "Deferred"} /\ torn \in BOOLEAN
      BY <2>1, CellFacts DEF TypeOK
    <2>3. base \o r \in Seq(Cells)
      <3> HIDE DEF r
      <3> QED BY <2>2, ConcatProperties
    <2>4. screen \in Extensions(Cells, base \o r)
      <3>1. CASE torn
        <4>1. delivery = "Live"
          BY <2>1, <2>2, <3>1 DEF Working, WhileDeferred
        <4> QED BY <2>1, <3>1, <4>1 DEF Working, WhileLive
      <3>2. CASE ~torn
        <4> DEFINE front == Ahead(base, marker_active, r)
        <4>1. 0 \in 0 .. Len(live.tail)
          BY <2>2, LenProperties
        <4>2. /\ front \in Seq(Cells) /\ Backspaced(screen, 0) \in Extensions(Cells, front)
              /\ marker_active => r = << >>
          BY <2>1, <3>2, <4>1, TailDeleted DEF Working
        <4>3. Backspaced(screen, 0) = screen
          <5>1. screen \in Seq(Cells)
            BY <2>1 DEF TypeOK
          <5> QED BY <5>1, NoEditFacts
        <4>4. front \in Extensions(Cells, base \o r)
          <5> DEFINE none == << >>
                     one == <<Marker>>
          <5>1. none \in Seq(Cells) /\ one \in Seq(Cells)
            BY CellFacts
          <5>2. (base \o r) \o none = base \o r
            BY <2>3, <5>1, ConcatEmptySeq
          <5>3. CASE marker_active
            <6>1. r = none /\ front = Ahead(base, marker_active, none)
              BY <4>2, <5>3
            <6>2. Ahead(base, marker_active, none) = (base \o one) \o none
              BY <5>3 DEF Ahead
            <6>3. (base \o one) \o none = base \o one /\ base \o none = base
              BY <2>2, <5>1, ConcatProperties, ConcatEmptySeq
            <6> HIDE DEF r, front, none, one
            <6>4. front = (base \o r) \o one
              BY <6>1, <6>2, <6>3
            <6> QED BY <5>1, <6>4 DEF Extensions
          <5>4. CASE ~marker_active
            <6> HIDE DEF r
            <6>1. front = base \o r
              BY <2>2, <5>4, AheadFacts
            <6> HIDE DEF front, none
            <6>2. front = (base \o r) \o none
              BY <5>2, <6>1
            <6> QED BY <5>1, <6>2 DEF Extensions
          <5> QED BY <5>3, <5>4
        <4>5. screen \in Extensions(Cells, base \o r)
          <5> DEFINE b == base \o r
          <5>1. b \in Seq(Cells)
            BY <2>3
          <5> HIDE DEF b, front
          <5>2. PICK t \in Seq(Cells) : front = b \o t
            BY <4>4 DEF Extensions, b
          <5>3. PICK u \in Seq(Cells) : screen = front \o u
            BY <4>2, <4>3 DEF Extensions
          <5>4. t \o u \in Seq(Cells) /\ (b \o t) \o u = b \o (t \o u)
            BY <5>1, ConcatLaws
          <5>5. screen \in Extensions(Cells, b)
            BY <5>2, <5>3, <5>4 DEF Extensions
          <5> QED BY <5>5 DEF b
        <4> QED BY <4>5
      <3> QED BY <2>2, <3>1, <3>2
    <2>5. IsPrefix(base \o r, screen)
      <3> DEFINE b == base \o r
      <3>1. b \in Seq(Cells) /\ screen \in Extensions(Cells, b)
        BY <2>3, <2>4
      <3> HIDE DEF b
      <3>2. PICK t \in Seq(Cells) : screen = b \o t
        BY <3>1 DEF Extensions
      <3>3. IsPrefix(b, screen)
        BY <3>1, <3>2, PrefixOfConcat
      <3> QED BY <3>3 DEF b
    <2> QED BY <2>5 DEF CommittedTextKept
  <1> QED BY <1>1, Invariance, PTL

\* The batch transcript is typed right after the user's own text, where nothing of
\* the recording is left (realtime_mode.rs:729-742).
THEOREM CleanLine == Spec => []FallbackOnCleanLine
  <1>1. IInv => FallbackOnCleanLine
    BY DEF IInv, TypeOK, Working, Flags, FallbackOnCleanLine
  <1> QED BY <1>1, Invariance, PTL

-----------------------------------------------------------------------------
(* The flags of Recording.                                                  *)

\* A segment that late partials are compared with was committed.
LateInv == live.latest_committed_segment # << >> => live.committed_any

\* LiveText changes by its own functions only.
LEMMA TextSteps ==
  ASSUME [Next]_vars
  PROVE  \/ live' = live
         \/ \E text \in Texts : live' = partial(live, text).next
         \/ \E text \in Texts : live' = commit(live, text).next
         \/ live' = cleanup(live).next
  <1>1. CASE Partial
    <2>1. CASE \E text \in Texts : apply_live_text(text, FALSE)
      BY <2>1 DEF apply_live_text, apply_partial, Edited, EditFailed
    <2>2. CASE UNCHANGED <<screenVars, textVars>>
      BY <2>2 DEF textVars
    <2> QED BY <1>1, <2>1, <2>2 DEF Partial
  <1>2. CASE Committed
    <2>1. ASSUME NEW text \in Texts, apply_live_text(text, TRUE)
          PROVE  live' = live \/ live' = commit(live, text).next
      <3>1. PICK before : apply_commit(before, text)
        BY <2>1 DEF apply_live_text
      <3> QED BY <3>1 DEF apply_commit, Edited, EditFailed
    <2>2. ASSUME NEW text \in Texts, accumulate_committed_text(text)
          PROVE  live' = commit(live, text).next
      BY <2>2 DEF accumulate_committed_text
    <2> QED BY <1>2, <2>1, <2>2 DEF Committed
  <1>3. CASE Error
    BY <1>3 DEF Error
  <1>4. CASE finish_without_fallback
    BY <1>4 DEF finish_without_fallback, TailCleaned, TailNotCleaned
  <1>5. CASE deliver_transcript
    BY <1>5 DEF deliver_transcript
  <1>6. CASE finish_fallback
    BY <1>6 DEF finish_fallback, TailCleaned
  <1>7. CASE UNCHANGED vars
    BY <1>7 DEF vars, textVars
  <1> QED BY <1>1, <1>2, <1>3, <1>4, <1>5, <1>6, <1>7 DEF Next, Done

LEMMA LateKept == TypeOK /\ LateInv /\ [Next]_vars => LateInv'
  <1> SUFFICES ASSUME TypeOK, LateInv, [Next]_vars
               PROVE  LateInv'
    OBVIOUS
  <1>1. live \in LiveTexts
    BY DEF TypeOK, LiveTexts
  <1>2. ASSUME NEW target
        PROVE  LET next == replace_tail(live, target).next
               IN  /\ next.latest_committed_segment = live.latest_committed_segment
                   /\ next.committed_any = live.committed_any
    BY <1>1 DEF replace_tail, LiveTexts
  <1>3. ASSUME NEW text \in Texts, live' = partial(live, text).next
        PROVE  LateInv'
    <2>1. \/ live' = live
          \/ live' = replace_tail(live, segment_text(live.committed_any, text)).next
      BY <1>3 DEF partial
    <2> QED BY <1>2, <2>1 DEF LateInv
  <1>4. ASSUME NEW text \in Texts, live' = commit(live, text).next
        PROVE  LateInv'
    <2>1. CASE text = << >>
      BY <1>2, <1>4, <2>1 DEF commit, cleanup, LateInv
    <2>2. CASE text # << >>
      BY <1>4, <2>2 DEF commit, AfterCommit, LateInv
    <2> QED BY <2>1, <2>2
  <1>5. CASE live' = cleanup(live).next
    BY <1>2, <1>5 DEF cleanup, LateInv
  <1>6. CASE live' = live
    BY <1>6 DEF LateInv
  <1> QED BY <1>3, <1>4, <1>5, <1>6, TextSteps

\* What the first visible text does to the marker.
LEMMA MarkerFlag ==
  ASSUME TypeOK, NEW text, NEW before,
         IF ReplacesMarker(text)
         THEN cleanup_marker(screen, before)
         ELSE before = screen /\ UNCHANGED <<marker_active, base>>
  PROVE  /\ text = << >> => marker_active' = marker_active
         /\ text # << >> => marker_active' = (marker_active /\ (live.committed_any \/ live.tail # << >>))
  <1>1. CASE ReplacesMarker(text)
    BY <1>1 DEF ReplacesMarker, cleanup_marker
  <1>2. CASE ~ReplacesMarker(text)
    BY <1>2 DEF ReplacesMarker, TypeOK
  <1> QED BY <1>1, <1>2

\* An event applied to the text is one that Recording allows.
LEMMA AppliedEvent ==
  ASSUME ~erred, ~failed, erred' = erred, NEW commits \in BOOLEAN, Rec!ApplyText(commits)
  PROVE  Rec!process_realtime_event(TRUE)
  <1>1. CASE commits
    <2>1. Rec!ApplyText(TRUE)
      BY <1>1
    <2> HIDE DEF Rec!ApplyText
    <2> QED BY <2>1 DEF Rec!process_realtime_event
  <1>2. CASE ~commits
    <2>1. Rec!ApplyText(FALSE)
      BY <1>2
    <2> QED BY <2>1 DEF Rec!process_realtime_event
  <1> QED BY <1>1, <1>2

\* A text that is not empty is not empty with a separator either.
LEMMA SegmentVisible ==
  ASSUME NEW any \in BOOLEAN, NEW text \in Texts, text # << >>
  PROVE  segment_text(any, text) # << >>
  <1>1. CASE ~any
    BY <1>1 DEF segment_text
  <1>2. CASE any
    <2> DEFINE separator == <<Space>>
               whole == separator \o text
    <2>1. separator \in Seq(Cells) /\ text \in Seq(Cells) /\ Len(separator) = 1
      BY CellFacts
    <2> HIDE DEF separator
    <2>2. Len(whole) = 1 + Len(text) /\ Len(text) \in Nat
      BY <2>1, ConcatProperties, LenProperties
    <2>3. whole # << >>
      <3> HIDE DEF whole
      <3> QED BY <2>2, EmptySeq
    <2> QED BY <1>2, <2>3 DEF segment_text, whole, separator
  <1> QED BY <1>1, <1>2

LEMMA NothingToPaste == ~HasPlaceholder(parse_banana_chunks(<< >>))
  <1>1. Banana \in Cells /\ << >> \in Seq(Cells)
    BY CellFacts DEF Writable
  <1>2. parse_banana_chunks(<< >>) = << >>
    BY <1>1, ParsingLosesNothing
  <1>3. DOMAIN << >> = {}
    BY EmptySeq
  <1> QED BY <1>2, <1>3 DEF HasPlaceholder

LEMMA PartialMaps ==
  ASSUME IInv, LateInv, ~erred, ~failed, delivery = "Live", NEW text \in Texts,
         apply_live_text(text, FALSE), UNCHANGED <<stage, erred, given>>
  PROVE  Rec!process_realtime_event(TRUE)
  <1> DEFINE transition == partial(live, text)
             next == transition.next
             late == live.latest_committed_segment # << >> /\ text = live.latest_committed_segment
             any == live.committed_any
  <1>1. TypeOK /\ live \in LiveTexts /\ any \in BOOLEAN /\ << >> \in Seq(Cells)
        /\ marker_active \in BOOLEAN
    BY CellFacts DEF IInv, TypeOK, LiveTexts
  <1>2. PICK before :
           /\ IF ReplacesMarker(text)
              THEN cleanup_marker(screen, before)
              ELSE before = screen /\ UNCHANGED <<marker_active, base>>
           /\ apply_partial(before, text)
    BY DEF apply_live_text
  <1>3. /\ text = << >> => marker_active' = marker_active
        /\ text # << >> => marker_active' = (marker_active /\ (any \/ live.tail # << >>))
    BY <1>1, <1>2, MarkerFlag
  <1>4. /\ next \in LiveTexts /\ next.committed_any = any
        /\ text = << >> /\ live.tail = << >> => transition.edit = NoEdit
    BY <1>1, PartialFacts
  <1>5. /\ late => next = live /\ transition.edit = NoEdit
        /\ ~late => next.tail = segment_text(any, text)
    BY <1>1 DEF partial, replace_tail, LiveTexts
  <1>6. ~late /\ text # << >> => next.tail # << >>
    BY <1>1, <1>5, SegmentVisible
  <1>7. ~late /\ text = << >> => next.tail = << >>
    BY <1>5 DEF segment_text
  <1>8. delivery' = delivery /\ erred' = erred
    BY DEF given
  <1>9. \/ live' = next /\ UNCHANGED <<failed, tail_safe>>
        \/ /\ transition.edit # NoEdit /\ live' = live
           /\ failed' = TRUE /\ tail_safe' = FALSE
    BY <1>2 DEF apply_partial, Edited, EditFailed, Fail
  <1> HIDE DEF transition
  <1>10. Rec!ApplyLive(FALSE)
    <2>1. CASE late
      <3>1. live' = live /\ UNCHANGED <<failed, tail_safe>> /\ any /\ text # << >>
        BY <1>5, <1>9, <2>1 DEF LateInv
      <3>2. marker_active' = marker_active
        BY <1>1, <1>3, <3>1
      <3> QED BY <1>8, <3>1, <3>2 DEF Rec!ApplyLive, Rec!keyVars
    <2>2. CASE ~late /\ text = << >>
      <3>1. CASE live' = next /\ UNCHANGED <<failed, tail_safe>>
        BY <1>3, <1>4, <1>7, <1>8, <2>2, <3>1 DEF Rec!ApplyLive, Rec!Keys
      <3>2. CASE transition.edit # NoEdit /\ live' = live /\ failed' = TRUE /\ tail_safe' = FALSE
        BY <1>3, <1>4, <1>8, <2>2, <3>2 DEF Rec!ApplyLive, Rec!Keys, Rec!Fail
      <3> QED BY <1>9, <3>1, <3>2
    <2>3. CASE ~late /\ text # << >>
      <3>1. CASE live' = next /\ UNCHANGED <<failed, tail_safe>>
        BY <1>1, <1>3, <1>4, <1>6, <1>8, <2>3, <3>1 DEF Rec!ApplyLive, Rec!Keys
      <3>2. CASE transition.edit # NoEdit /\ live' = live /\ failed' = TRUE /\ tail_safe' = FALSE
        BY <1>1, <1>3, <1>8, <2>3, <3>2 DEF Rec!ApplyLive, Rec!Keys, Rec!Fail
      <3> QED BY <1>9, <3>1, <3>2
    <2> QED BY <2>1, <2>2, <2>3
  <1>11. Rec!ApplyText(FALSE)
    BY <1>10 DEF Rec!ApplyText
  <1> QED BY <1>8, <1>11, AppliedEvent

LEMMA CommitMaps ==
  ASSUME IInv, ~erred, ~failed, delivery = "Live", NEW text \in Texts,
         apply_live_text(text, TRUE), UNCHANGED <<stage, erred, given>>
  PROVE  Rec!process_realtime_event(TRUE)
  <1> DEFINE transition == commit(live, text)
             next == transition.next
             any == live.committed_any
             chunks == parse_banana_chunks(segment_text(any, text))
  <1>1. TypeOK /\ live \in LiveTexts /\ any \in BOOLEAN /\ << >> \in Seq(Cells)
        /\ marker_active \in BOOLEAN
    BY CellFacts DEF IInv, TypeOK, LiveTexts
  <1>2. PICK before :
           /\ IF ReplacesMarker(text)
              THEN cleanup_marker(screen, before)
              ELSE before = screen /\ UNCHANGED <<marker_active, base>>
           /\ apply_commit(before, text)
    BY DEF apply_live_text
  <1>3. /\ text = << >> => marker_active' = marker_active
        /\ text # << >> => marker_active' = (marker_active /\ (any \/ live.tail # << >>))
    BY <1>1, <1>2, MarkerFlag
  <1>4. /\ next.tail = << >> /\ next.committed_any = (any \/ text # << >>)
        /\ text = << >> /\ live.tail = << >> => transition.edit = NoEdit
    <2>1. CommitsOnScreen(live, text, << >>)
      BY <1>1, CommitFacts
    <2> QED BY <2>1 DEF CommitsOnScreen
  <1>5. text = << >> => ~HasPlaceholder(chunks)
    BY NothingToPaste DEF segment_text
  <1>6. delivery' = delivery /\ erred' = erred
    BY DEF given
  <1>7. \/ live' = next /\ UNCHANGED <<failed, tail_safe>>
        \/ /\ transition.edit # NoEdit /\ live' = live
           /\ failed' = TRUE /\ tail_safe' = FALSE
        \/ /\ HasPlaceholder(chunks) /\ live' = next
           /\ failed' = TRUE /\ tail_safe' = FALSE
    BY <1>2 DEF apply_commit, Edited, EditFailed, Fail
  <1> HIDE DEF transition, chunks
  <1>8. Rec!ApplyLive(TRUE)
    <2>1. CASE text = << >>
      <3>1. CASE live' = next /\ UNCHANGED <<failed, tail_safe>>
        BY <1>1, <1>3, <1>4, <1>6, <2>1, <3>1 DEF Rec!ApplyLive, Rec!Keys
      <3>2. CASE transition.edit # NoEdit /\ live' = live /\ failed' = TRUE /\ tail_safe' = FALSE
        BY <1>3, <1>4, <1>6, <2>1, <3>2 DEF Rec!ApplyLive, Rec!Keys, Rec!Fail
      <3> QED BY <1>5, <1>7, <2>1, <3>1, <3>2
    <2>2. CASE text # << >>
      <3>1. CASE live' = next /\ UNCHANGED <<failed, tail_safe>>
        BY <1>1, <1>3, <1>4, <1>6, <2>2, <3>1 DEF Rec!ApplyLive, Rec!Keys
      <3>2. CASE transition.edit # NoEdit /\ live' = live /\ failed' = TRUE /\ tail_safe' = FALSE
        BY <1>1, <1>3, <1>6, <2>2, <3>2 DEF Rec!ApplyLive, Rec!Keys, Rec!Fail
      <3>3. CASE live' = next /\ failed' = TRUE /\ tail_safe' = FALSE
        BY <1>1, <1>3, <1>4, <1>6, <2>2, <3>3 DEF Rec!ApplyLive, Rec!Keys, Rec!Fail
      <3> QED BY <1>7, <3>1, <3>2, <3>3
    <2> QED BY <2>1, <2>2
  <1>9. Rec!ApplyText(TRUE)
    BY <1>8 DEF Rec!ApplyText
  <1> QED BY <1>6, <1>9, AppliedEvent

LEMMA DeferredMaps ==
  ASSUME IInv, stage = "live", ~erred, ~failed, delivery = "Deferred", NEW text \in Texts,
         accumulate_committed_text(text), UNCHANGED <<erred, given>>
  PROVE  Rec!process_realtime_event(TRUE)
  <1> DEFINE next == commit(live, text).next
  <1>1. live \in LiveTexts /\ live.committed_any \in BOOLEAN /\ live.tail = << >> /\ << >> \in Seq(Cells)
    BY CellFacts DEF IInv, TypeOK, LiveTexts, Working, WhileDeferred
  <1>2. next.tail = << >> /\ next.committed_any = (live.committed_any \/ text # << >>)
    <2>1. CommitsOnScreen(live, text, << >>)
      BY <1>1, CommitFacts
    <2> QED BY <2>1 DEF CommitsOnScreen
  <1>3. live' = next /\ UNCHANGED <<failed, tail_safe, marker_active>> /\ delivery' = delivery
    BY DEF accumulate_committed_text, screenVars, given
  <1> HIDE DEF next
  <1>4. Rec!ApplyText(TRUE)
    BY <1>1, <1>2, <1>3 DEF Rec!ApplyText, Rec!keyVars
  <1> QED BY <1>4, AppliedEvent

\* The end of a recording leaves the flags as Recording's end does.
LEMMA EndMaps ==
  ASSUME IInv, finish_without_fallback \/ deliver_transcript \/ finish_fallback
  PROVE  stage' = "done" /\ ~marker_active' /\ (Rec!cleanup_live_tail \/ Rec!cleanup_live_tail_failed)
  <1>1. /\ TypeOK /\ Flags /\ stage = "live" /\ delivery \in {"Live", "Deferred"} /\ tail_safe \in BOOLEAN
        /\ delivery = "Deferred" => ~torn /\ live.tail = << >>
    BY DEF IInv, TypeOK, Working, WhileDeferred, finish_without_fallback, deliver_transcript, finish_fallback
  <1>2. stage' = "done" /\ delivery' = delivery
    BY DEF finish_without_fallback, deliver_transcript, finish_fallback, given
  <1>3. ~marker_active'
    BY DEF finish_without_fallback, deliver_transcript, finish_fallback, cleanup_marker
  <1>4. ASSUME NEW after, TailCleaned(after)
        PROVE  Rec!cleanup_live_tail
    <2>1. tail_safe /\ live' = cleanup(live).next /\ live \in LiveTexts
      BY <1>1, <1>4 DEF TailCleaned, TypeOK, LiveTexts
    <2>2. live'.tail = << >>
      BY <2>1 DEF cleanup, replace_tail, LiveTexts
    <2> QED BY <1>1, <1>2, <2>1, <2>2 DEF Rec!cleanup_live_tail
  <1>5. ASSUME NEW after, TailNotCleaned(after)
        PROVE  Rec!cleanup_live_tail_failed
    <2>1. live' = live /\ (~tail_safe \/ live.tail # << >>)
      BY <1>5 DEF TailNotCleaned
    <2>2. delivery # "Deferred"
      BY <1>1, <2>1 DEF Flags
    <2> QED BY <1>2, <2>1, <2>2 DEF Rec!cleanup_live_tail_failed
  <1>6. CASE finish_without_fallback
    <2>1. \E after : TailCleaned(after) \/ TailNotCleaned(after)
      BY <1>6 DEF finish_without_fallback
    <2> QED BY <1>2, <1>3, <1>4, <1>5, <2>1
  <1>7. CASE deliver_transcript
    <2>1. delivery = "Deferred" /\ live' = live
      BY <1>7 DEF deliver_transcript
    <2> QED BY <1>1, <1>2, <1>3, <2>1 DEF Rec!cleanup_live_tail
  <1>8. CASE finish_fallback
    <2>1. \E after : TailCleaned(after)
      BY <1>8 DEF finish_fallback
    <2> QED BY <1>2, <1>3, <1>4, <2>1
  <1> QED BY <1>6, <1>7, <1>8

LEMMA StepMaps ==
  ASSUME IInv, LateInv, [Next]_vars
  PROVE  [IF stage' = "live"
          THEN Rec!process_realtime_event(TRUE)
          ELSE /\ Rec!cleanup_live_tail \/ Rec!cleanup_live_tail_failed
               /\ ~marker_active']_<<stage, live, erred, failed, tail_safe, marker_active>>
  <1> DEFINE Step == IF stage' = "live"
                     THEN Rec!process_realtime_event(TRUE)
                     ELSE /\ Rec!cleanup_live_tail \/ Rec!cleanup_live_tail_failed
                          /\ ~marker_active'
             Stutter == UNCHANGED <<stage, live, erred, failed, tail_safe, marker_active>>
  <1> SUFFICES Step \/ Stutter
    OBVIOUS
  <1>1. ASSUME stage' = "live", Rec!process_realtime_event(TRUE)
        PROVE  Step
    BY <1>1
  <1>2. CASE Partial
    <2>1. stage' = "live" /\ ~erred /\ ~failed /\ UNCHANGED <<stage, erred, given>>
      BY <1>2 DEF Partial
    <2>2. ASSUME delivery = "Live", NEW text \in Texts, apply_live_text(text, FALSE)
          PROVE  Step
      <3>1. Rec!process_realtime_event(TRUE)
        BY <2>1, <2>2, PartialMaps
      <3> QED BY <1>1, <2>1, <3>1
    <2>3. ASSUME UNCHANGED <<screenVars, textVars>>
          PROVE  Stutter
      BY <2>1, <2>3 DEF screenVars, textVars
    <2> HIDE DEF Step, Stutter
    <2> QED BY <1>2, <2>2, <2>3 DEF Partial
  <1>3. CASE Committed
    <2>1. stage' = "live" /\ stage = "live" /\ ~erred /\ ~failed /\ UNCHANGED <<stage, erred, given>>
      BY <1>3 DEF Committed
    <2>2. ASSUME delivery = "Live", NEW text \in Texts, apply_live_text(text, TRUE)
          PROVE  Rec!process_realtime_event(TRUE)
      BY <2>1, <2>2, CommitMaps
    <2>3. ASSUME delivery = "Deferred", NEW text \in Texts, accumulate_committed_text(text)
          PROVE  Rec!process_realtime_event(TRUE)
      BY <2>1, <2>3, DeferredMaps
    <2>4. Rec!process_realtime_event(TRUE)
      BY <1>3, <2>2, <2>3 DEF Committed
    <2> QED BY <1>1, <2>1, <2>4
  <1>4. CASE Error
    <2>1. /\ stage' = "live" /\ ~erred /\ erred' = TRUE /\ failed' = TRUE
          /\ UNCHANGED <<live, tail_safe, marker_active, delivery>>
      BY <1>4 DEF Error, screenVars, given
    <2>2. Rec!process_realtime_event(TRUE)
      BY <2>1 DEF Rec!process_realtime_event, Rec!textVars, Rec!keyVars
    <2> QED BY <1>1, <2>1, <2>2
  <1>5. CASE finish_without_fallback \/ deliver_transcript \/ finish_fallback
    BY <1>5, EndMaps
  <1>6. CASE UNCHANGED vars
    BY <1>6 DEF vars, screenVars, textVars
  <1> HIDE DEF Step, Stutter
  <1> QED BY <1>2, <1>3, <1>4, <1>5, <1>6 DEF Next, Done

\* Of the text Recording keeps flags: whether something was committed, whether a tail is
\* visible, whether it is safe to edit.  Every event and every end of a recording here
\* changes them, and the marker, as Recording says: the flags its proofs reason with are
\* those of the texts (realtime_mode.rs:551-609, 648-765).
THEOREM TextImplemented == Spec => ImplementsRecordingText
  <1>1. Init => LateInv
    BY DEF Init, NewLiveText, LateInv
  <1>2. Spec => []LateInv
    <2>1. IInv /\ LateInv /\ [Next]_vars => LateInv'
      BY LateKept DEF IInv
    <2> QED BY <1>1, <2>1, Invariance, PTL DEF Spec
  <1>3. IInv /\ LateInv /\ [Next]_vars =>
          [IF stage' = "live"
           THEN Rec!process_realtime_event(TRUE)
           ELSE /\ Rec!cleanup_live_tail \/ Rec!cleanup_live_tail_failed
                /\ ~marker_active']_<<stage, live, erred, failed, tail_safe, marker_active>>
    BY StepMaps
  <1> QED BY <1>2, <1>3, Invariance, PTL DEF Spec, ImplementsRecordingText
=============================================================================

---------------------------- MODULE StoresProofs ----------------------------
(***************************************************************************)
(* Proofs about Stores, for any terms, processes, limits and numbers of     *)
(* commands and mishaps: parse reads what a keyterms file means, the files  *)
(* stay loadable, successful commands are not lost, the daemon runs in the  *)
(* stored mode and temporary files are cleaned up.                          *)
(***************************************************************************)
EXTENDS Stores, FiniteSetTheorems, SequenceTheorems, WellFoundedInduction, TLAPS

-----------------------------------------------------------------------------
(* Induction over the lines of a file.                                      *)

\* A set of numbers that has zero and every successor is the set of them all: the
\* least number outside would be the successor of one inside.
LEMMA Induction ==
  ASSUME NEW A \in SUBSET Nat, 0 \in A, \A n \in A : n + 1 \in A
  PROVE  A = Nat
  <1> DEFINE less == {p \in Nat \X Nat : p[1] < p[2]}
             T == Nat \ A
  <1> SUFFICES ASSUME T # {} PROVE FALSE
    OBVIOUS
  <1>1. IsWellFoundedOn(less, Nat)
    BY NatLessThanWellFounded DEF OpToRel
  <1>2. PICK m \in T : \A n \in T : <<n, m>> \notin less
    <2> HIDE DEF less
    <2> QED BY <1>1, WFMin
  <1>3. m - 1 \in Nat /\ m - 1 < m /\ (m - 1) + 1 = m
    OBVIOUS
  <1>4. m - 1 \in A
    BY <1>2, <1>3
  <1> QED BY <1>3, <1>4

-----------------------------------------------------------------------------
(* Reading a keyterms file.                                                 *)

\* What one line makes of the terms read before it, and the terms after each line.
AddLine(lines, terms, n) ==
    IF lines[n] \in Range(terms[n - 1]) THEN terms[n - 1] ELSE Append(terms[n - 1], lines[n])

IsReading(lines, k, terms) ==
    terms = [n \in 0 .. k |-> IF n = 0 THEN <<>> ELSE AddLine(lines, terms, n)]

\* The loop of parse has a result for every file.
LEMMA ReadingExists ==
  ASSUME NEW lines \in Seq(Terms), NEW size \in Nat
  PROVE  \E terms : IsReading(lines, size, terms)
  <1> DEFINE Good(k, terms) ==
                /\ DOMAIN terms = 0 .. k /\ terms = [n \in DOMAIN terms |-> terms[n]]
                /\ terms[0] = <<>> /\ \A n \in 1 .. k : terms[n] = AddLine(lines, terms, n)
             A == {k \in Nat : \E terms : Good(k, terms)}
  <1>1. 0 \in A
    <2> DEFINE terms == [n \in 0 .. 0 |-> <<>>]
    <2>1. Good(0, terms)
      OBVIOUS
    <2> HIDE DEF Good
    <2> QED BY <2>1
  <1>2. ASSUME NEW k \in A
        PROVE  \E terms : Good(k + 1, terms)
    <2>1. PICK terms : Good(k, terms)
      <3> HIDE DEF Good
      <3> QED OBVIOUS
    <2> DEFINE more == [n \in 0 .. k + 1 |-> IF n <= k THEN terms[n]
                                             ELSE AddLine(lines, terms, n)]
    <2>2. \A n \in 0 .. k : more[n] = terms[n]
      OBVIOUS
    <2>3. \A n \in 1 .. k : more[n] = AddLine(lines, more, n)
      BY <2>1, <2>2 DEF AddLine
    <2>4. more[k + 1] = AddLine(lines, more, k + 1)
      BY <2>2 DEF AddLine
    <2>5. \A n \in 1 .. k + 1 : more[n] = AddLine(lines, more, n)
      <3>1. \A n \in 1 .. k + 1 : n \in 1 .. k \/ n = k + 1
        OBVIOUS
      <3> HIDE DEF more
      <3> QED BY <2>3, <2>4, <3>1
    <2>6. Good(k + 1, more)
      BY <2>1, <2>2, <2>5
    <2> HIDE DEF Good
    <2> QED BY <2>6
  <1>3. A = Nat
    <2> HIDE DEF Good
    <2>1. \A k \in A : k + 1 \in A
      BY <1>2
    <2>2. A \in SUBSET Nat
      OBVIOUS
    <2> HIDE DEF A
    <2> QED BY <1>1, <2>1, <2>2, Induction
  <1>4. PICK terms : Good(size, terms)
    <2> HIDE DEF Good
    <2> QED BY <1>3
  <1> DEFINE loop == [n \in 0 .. size |-> IF n = 0 THEN <<>> ELSE AddLine(lines, terms, n)]
  <1>5. \A n \in 0 .. size : terms[n] = loop[n]
    BY <1>4
  <1>6. terms = loop
    BY <1>4, <1>5
  <1> QED BY <1>6 DEF IsReading

\* The first occurrences among the first n lines.
FirstUpTo(c, n) == {j \in First(c) : j <= n}

\* There are finitely many of them, and one more after a line that is new.
LEMMA FirstOccurrences ==
  ASSUME NEW c \in Seq(Terms), NEW n \in 0 .. Len(c)
  PROVE  /\ IsFiniteSet(FirstUpTo(c, n)) /\ Cardinality(FirstUpTo(c, n)) \in Nat
         /\ n = 0 => Cardinality(FirstUpTo(c, n)) = 0
         /\ n + 1 \in First(c) =>
              Cardinality(FirstUpTo(c, n + 1)) = Cardinality(FirstUpTo(c, n)) + 1
         /\ n + 1 \notin First(c) => FirstUpTo(c, n + 1) = FirstUpTo(c, n)
  <1>1. Len(c) \in Nat /\ DOMAIN c = 1 .. Len(c) /\ First(c) \subseteq 1 .. Len(c)
    BY DEF First
  <1>2. IsFiniteSet(1 .. Len(c)) /\ FirstUpTo(c, n) \subseteq 1 .. Len(c)
    BY <1>1, FS_Interval DEF FirstUpTo
  <1>3. IsFiniteSet(FirstUpTo(c, n)) /\ Cardinality(FirstUpTo(c, n)) \in Nat
    BY <1>2, FS_Subset, FS_CardinalityType
  <1>4. n = 0 => Cardinality(FirstUpTo(c, n)) = 0
    <2>1. n = 0 => FirstUpTo(c, n) = {}
      BY <1>1 DEF FirstUpTo
    <2> QED BY <2>1, FS_EmptySet
  <1>5. CASE n + 1 \in First(c)
    <2>1. FirstUpTo(c, n + 1) = FirstUpTo(c, n) \cup {n + 1} /\ n + 1 \notin FirstUpTo(c, n)
      BY <1>1, <1>5 DEF FirstUpTo
    <2>2. Cardinality(FirstUpTo(c, n + 1)) = Cardinality(FirstUpTo(c, n)) + 1
      BY <1>3, <2>1, FS_AddElement
    <2> QED BY <1>3, <1>4, <1>5, <2>2
  <1>6. CASE n + 1 \notin First(c)
    <2>1. FirstUpTo(c, n + 1) = FirstUpTo(c, n)
      BY <1>1, <1>6 DEF FirstUpTo
    <2> QED BY <1>3, <1>4, <1>6, <2>1
  <1> QED BY <1>5, <1>6

\* What parse has read after n lines: the n lines, each once, in the order of
\* their first occurrences.
ReadSoFar(c, n, read) ==
    /\ read \in Seq(Terms)
    /\ Range(read) = {c[i] : i \in 1 .. n}
    /\ Len(read) = Cardinality(FirstUpTo(c, n))
    /\ \A i \in FirstUpTo(c, n) : Rank(c, i) \in 1 .. Len(read) /\ read[Rank(c, i)] = c[i]
    /\ \A k \in 1 .. Len(read) : \E i \in FirstUpTo(c, n) : Rank(c, i) = k

\* One line keeps that.
LEMMA ReadLine ==
  ASSUME NEW c \in Seq(Terms), NEW n \in 0 .. Len(c) - 1, NEW terms,
         ReadSoFar(c, n, terms[n]), terms[n + 1] = AddLine(c, terms, n + 1)
  PROVE  ReadSoFar(c, n + 1, terms[n + 1])
  <1> DEFINE read == terms[n]  new == c[n + 1]
  <1>1. /\ Len(c) \in Nat /\ DOMAIN c = 1 .. Len(c) /\ n + 1 \in 1 .. Len(c)
        /\ new \in Terms
    BY ElementOfSeq
  <1>2. \A i : i \in 1 .. n + 1 <=> i \in 1 .. n \/ i = n + 1
    BY <1>1
  <1>3. {c[i] : i \in 1 .. n + 1} = {c[i] : i \in 1 .. n} \cup {new}
    BY <1>2
  <1>4. n + 1 \in First(c) <=> new \notin Range(read)
    <2>1. n + 1 \in First(c) <=> \A j \in 1 .. n : c[j] # c[n + 1]
      BY <1>1 DEF First
    <2> QED BY <2>1 DEF ReadSoFar
  <1>5. CASE new \in Range(read)
    <2>1. terms[n + 1] = read
      BY <1>5 DEF AddLine
    <2>2. FirstUpTo(c, n + 1) = FirstUpTo(c, n)
      BY <1>4, <1>5, FirstOccurrences
    <2>3. {c[i] : i \in 1 .. n + 1} = {c[i] : i \in 1 .. n}
      BY <1>3, <1>5 DEF ReadSoFar
    <2> QED BY <2>1, <2>2, <2>3 DEF ReadSoFar
  <1>6. CASE new \notin Range(read)
    <2> DEFINE more == Append(read, new)
    <2>1. terms[n + 1] = more
      BY <1>6 DEF AddLine
    <2>2. /\ read \in Seq(Terms) /\ Len(read) \in Nat /\ more \in Seq(Terms)
          /\ Len(more) = Len(read) + 1
          /\ \A k \in 1 .. Len(read) : more[k] = read[k]
          /\ more[Len(read) + 1] = new
      BY <1>1, AppendProperties DEF ReadSoFar
    <2>3. /\ FirstUpTo(c, n + 1) = FirstUpTo(c, n) \cup {n + 1}
          /\ Cardinality(FirstUpTo(c, n + 1)) = Len(read) + 1
      <3>1. n + 1 \in First(c)
        BY <1>4, <1>6
      <3>2. Cardinality(FirstUpTo(c, n + 1)) = Len(read) + 1
        BY <3>1, FirstOccurrences DEF ReadSoFar
      <3> QED BY <1>1, <3>1, <3>2 DEF FirstUpTo, First
    <2>4. Range(more) = {c[i] : i \in 1 .. n + 1}
      <3>1. Range(more) = {more[k] : k \in 1 .. Len(read) + 1}
        <4>1. DOMAIN more = 1 .. Len(read) + 1
          <5> HIDE DEF more
          <5> QED BY <2>2
        <4> QED BY <4>1 DEF Range
      <3>2. Range(read) = {read[k] : k \in 1 .. Len(read)}
        BY <2>2 DEF Range
      <3>3. \A k : k \in 1 .. Len(read) + 1 <=> k \in 1 .. Len(read) \/ k = Len(read) + 1
        BY <2>2
      <3> HIDE DEF more, read, new
      <3>4. Range(more) = Range(read) \cup {new}
        BY <2>2, <3>1, <3>2, <3>3
      <3> QED BY <1>3, <3>4 DEF ReadSoFar, read
    <2>5. Rank(c, n + 1) = Len(more)
      BY <2>2, <2>3 DEF Rank, FirstUpTo
    <2>6. \A i \in FirstUpTo(c, n + 1) :
             Rank(c, i) \in 1 .. Len(more) /\ more[Rank(c, i)] = c[i]
      <3>1. \A i \in FirstUpTo(c, n) : Rank(c, i) \in 1 .. Len(read) /\ read[Rank(c, i)] = c[i]
        BY DEF ReadSoFar
      <3> HIDE DEF more, read
      <3> QED BY <2>2, <2>3, <2>5, <3>1
    <2>7. \A k \in 1 .. Len(more) : \E i \in FirstUpTo(c, n + 1) : Rank(c, i) = k
      <3>1. \A k \in 1 .. Len(read) : \E i \in FirstUpTo(c, n) : Rank(c, i) = k
        BY DEF ReadSoFar
      <3>2. \A k \in 1 .. Len(more) : k \in 1 .. Len(read) \/ k = Len(more)
        BY <2>2
      <3> HIDE DEF more, read
      <3> QED BY <2>3, <2>5, <3>1, <3>2
    <2>8. Len(more) = Cardinality(FirstUpTo(c, n + 1))
      BY <2>2, <2>3
    <2> HIDE DEF more
    <2> QED BY <2>1, <2>2, <2>4, <2>6, <2>7, <2>8 DEF ReadSoFar
  <1> QED BY <1>5, <1>6

\* All lines do.
LEMMA ReadAll ==
  ASSUME NEW c \in Seq(Terms)
  PROVE  ReadSoFar(c, Len(c), Dedup(c))
  <1> DEFINE terms == CHOOSE t : IsReading(c, Len(c), t)
             A == {n \in Nat : n <= Len(c) => ReadSoFar(c, n, terms[n])}
  <1>1. Len(c) \in Nat
    OBVIOUS
  <1>2. Dedup(c) = terms[Len(c)]
    BY DEF Dedup, IsReading, AddLine
  <1>3. IsReading(c, Len(c), terms)
    BY <1>1, ReadingExists
  <1> HIDE DEF terms
  <1>4. terms[0] = <<>> /\ \A n \in 1 .. Len(c) : terms[n] = AddLine(c, terms, n)
    BY <1>1, <1>3 DEF IsReading
  <1>5. 0 \in A
    <2>1. Cardinality(FirstUpTo(c, 0)) = 0 /\ FirstUpTo(c, 0) = {}
      <3>1. 0 \in 0 .. Len(c)
        BY <1>1
      <3>2. Cardinality(FirstUpTo(c, 0)) = 0
        BY <3>1, FirstOccurrences
      <3>3. FirstUpTo(c, 0) = {}
        BY <1>1 DEF FirstUpTo, First
      <3> QED BY <3>2, <3>3
    <2>2. Len(<<>>) = 0 /\ Range(<<>>) = {}
      BY DEF Range
    <2>3. ReadSoFar(c, 0, <<>>)
      BY <2>1, <2>2, EmptySeq DEF ReadSoFar
    <2> QED BY <1>4, <2>3
  <1>6. ASSUME NEW n \in A
        PROVE  n + 1 \in A
    <2> SUFFICES ASSUME n + 1 <= Len(c)
                 PROVE  ReadSoFar(c, n + 1, terms[n + 1])
      OBVIOUS
    <2>1. n \in 0 .. Len(c) - 1 /\ ReadSoFar(c, n, terms[n])
      BY <1>1
    <2>2. terms[n + 1] = AddLine(c, terms, n + 1)
      BY <1>1, <1>4, <2>1
    <2> QED BY <2>1, <2>2, ReadLine
  <1>7. A = Nat
    <2>1. A \in SUBSET Nat
      OBVIOUS
    <2> HIDE DEF A
    <2> QED BY <1>5, <1>6, <2>1, Induction
  <1> QED BY <1>1, <1>2, <1>7

-----------------------------------------------------------------------------
(* What parse returns.                                                      *)

Distinct(s) == \A i, j \in DOMAIN s : s[i] = s[j] => i = j

\* The loop of parse keeps the first occurrence of each line, in order
\* (keyterms.rs:102-119).
THEOREM ReadsWhatIsMeant ==
  ASSUME NEW c \in Seq(Terms)
  PROVE  Dedup(c) \in Seq(Terms) /\ Distinct(Dedup(c)) /\ Meant(c) = Dedup(c)
  <1> DEFINE terms == Dedup(c)
  <1>1. ReadSoFar(c, Len(c), terms)
    BY ReadAll
  <1>2. /\ Len(c) \in Nat /\ DOMAIN c = 1 .. Len(c)
        /\ FirstUpTo(c, Len(c)) = First(c)
    BY DEF FirstUpTo, First
  <1> HIDE DEF terms
  <1>3. /\ terms \in Seq(Terms) /\ Len(terms) = Cardinality(First(c))
        /\ \A i \in First(c) : Rank(c, i) \in 1 .. Len(terms) /\ terms[Rank(c, i)] = c[i]
        /\ \A k \in 1 .. Len(terms) : \E i \in First(c) : Rank(c, i) = k
    BY <1>1, <1>2 DEF ReadSoFar
  <1>4. Distinct(terms)
    <2> SUFFICES ASSUME NEW k \in 1 .. Len(terms), NEW l \in 1 .. Len(terms),
                        terms[k] = terms[l]
                 PROVE  k = l
      BY <1>3 DEF Distinct
    <2>1. PICK i \in First(c) : Rank(c, i) = k
      BY <1>3
    <2>2. PICK j \in First(c) : Rank(c, j) = l
      BY <1>3
    <2>3. c[i] = c[j]
      BY <1>3, <2>1, <2>2
    <2>4. i = j
      BY <1>2, <2>3 DEF First
    <2> QED BY <2>1, <2>2, <2>4
  <1>5. Meant(c) = terms
    <2>1. c # Missing /\ c # Invalid
      BY StoresAssumption
    <2>2. Meant(c) = [k \in 1 .. Len(terms) |-> c[CHOOSE i \in First(c) : Rank(c, i) = k]]
      BY <1>3, <2>1 DEF Meant
    <2>3. \A k \in 1 .. Len(terms) : terms[k] = c[CHOOSE i \in First(c) : Rank(c, i) = k]
      BY <1>3
    <2>4. terms = [k \in 1 .. Len(terms) |-> terms[k]]
      BY <1>3, IsASeq
    <2> QED BY <2>2, <2>3, <2>4
  <1> QED BY <1>3, <1>4, <1>5 DEF terms

\* Terms that are distinct are read as they are.
LEMMA DistinctIsMeant ==
  ASSUME NEW s \in Seq(Terms), Distinct(s)
  PROVE  Meant(s) = s /\ Dedup(s) = s
  <1>1. Len(s) \in Nat /\ DOMAIN s = 1 .. Len(s) /\ s # Missing /\ s # Invalid
    BY StoresAssumption
  <1>2. First(s) = 1 .. Len(s)
    BY <1>1 DEF First, Distinct
  <1>3. \A i \in 1 .. Len(s) : Rank(s, i) = i
    <2> TAKE i \in 1 .. Len(s)
    <2>1. {j \in First(s) : j <= i} = 1 .. i
      BY <1>1, <1>2
    <2>2. Cardinality(1 .. i) = i
      BY <1>1, FS_Interval
    <2> QED BY <2>1, <2>2 DEF Rank
  <1>4. Cardinality(First(s)) = Len(s)
    BY <1>1, <1>2, FS_Interval
  <1>5. \A k \in 1 .. Len(s) : (CHOOSE i \in First(s) : Rank(s, i) = k) = k
    BY <1>2, <1>3
  <1>6. s = [k \in 1 .. Len(s) |-> s[k]]
    BY IsASeq
  <1>7. Meant(s) = s
    BY <1>1, <1>4, <1>5, <1>6 DEF Meant
  <1> QED BY <1>7, ReadsWhatIsMeant

-----------------------------------------------------------------------------
(* The lists commands work on.                                              *)

Lists == {s \in Seq(Terms) : Distinct(s) /\ Len(s) <= MaxTerms}
KeytermsFiles == {Missing, Invalid} \cup Seq(Terms)
ModeFiles == {Missing, Invalid} \cup Modes

\* What parse accepts is a list, and what the file means.
LEMMA ParseType ==
  ASSUME NEW c \in KeytermsFiles
  PROVE  parse(c) = None \/ (parse(c) \in Lists /\ Meant(c) = parse(c))
  <1>1. CASE c = Missing
    <2>1. <<>> \in Seq(Terms) /\ Len(<<>>) = 0 /\ Distinct(<<>>)
      BY EmptySeq DEF Distinct
    <2> QED BY <1>1, <2>1, StoresAssumption DEF parse, Meant, Lists
  <1>2. CASE c = Invalid
    BY <1>2, StoresAssumption DEF parse
  <1>3. CASE c \in Seq(Terms)
    <2>1. Dedup(c) \in Seq(Terms) /\ Distinct(Dedup(c)) /\ Meant(c) = Dedup(c)
      BY <1>3, ReadsWhatIsMeant
    <2>2. Len(Dedup(c)) \in Nat /\ c # Missing /\ c # Invalid
      BY <1>3, <2>1, StoresAssumption
    <2>3. CASE Len(Dedup(c)) > MaxTerms
      BY <2>2, <2>3 DEF parse
    <2>4. CASE ~(Len(Dedup(c)) > MaxTerms)
      <3>1. Len(Dedup(c)) <= MaxTerms
        BY <2>2, <2>4, StoresAssumption
      <3>2. parse(c) = Dedup(c)
        BY <2>2, <2>4 DEF parse
      <3> QED BY <2>1, <3>1, <3>2 DEF Lists
    <2> QED BY <2>3, <2>4
  <1> QED BY <1>1, <1>2, <1>3 DEF KeytermsFiles

\* A list is read back as it was written.
LEMMA ListIsRead ==
  ASSUME NEW s \in Lists
  PROVE  parse(s) = s /\ Meant(s) = s /\ s # None
  <1>1. s \in Seq(Terms) /\ Distinct(s) /\ Len(s) \in Nat /\ Len(s) <= MaxTerms
    BY DEF Lists
  <1>2. Meant(s) = s /\ Dedup(s) = s
    BY <1>1, DistinctIsMeant
  <1>3. s # None /\ s # Missing /\ s # Invalid /\ ~(Len(s) > MaxTerms)
    BY <1>1, StoresAssumption
  <1> QED BY <1>2, <1>3 DEF parse

\* Adding a new term below the limit makes a list.
LEMMA AddType ==
  ASSUME NEW s \in Lists, NEW t \in Terms, CanAdd(s, t)
  PROVE  Append(s, t) \in Lists
  <1> DEFINE more == Append(s, t)
  <1>1. s \in Seq(Terms) /\ Distinct(s) /\ Len(s) \in Nat /\ DOMAIN s = 1 .. Len(s)
    BY DEF Lists
  <1>2. /\ more \in Seq(Terms) /\ Len(more) = Len(s) + 1 /\ DOMAIN more = 1 .. Len(s) + 1
        /\ \A i \in 1 .. Len(s) : more[i] = s[i]
        /\ more[Len(s) + 1] = t
    BY <1>1, AppendProperties
  <1>3. \A i \in 1 .. Len(s) : s[i] # t
    BY <1>1 DEF CanAdd, Range
  <1>4. Len(s) + 1 <= MaxTerms
    BY <1>1, StoresAssumption DEF CanAdd
  <1> HIDE DEF more
  <1>5. \A i \in DOMAIN more : i \in 1 .. Len(s) \/ i = Len(s) + 1
    BY <1>1, <1>2
  <1>6. Distinct(more)
    BY <1>1, <1>2, <1>3, <1>5 DEF Distinct
  <1> QED BY <1>2, <1>4, <1>6 DEF Lists, more

\* Removing a term by its place makes a list, and is what removing it by its name
\* makes.
LEMMA RemoveType ==
  ASSUME NEW s \in Lists, NEW k \in 1 .. Len(s)
  PROVE  /\ RemoveAt(s, k) \in Lists /\ Len(RemoveAt(s, k)) = Len(s) - 1
         /\ Without(s, s[k]) = RemoveAt(s, k)
  <1> DEFINE less == RemoveAt(s, k)  pre == SubSeq(s, 1, k - 1)  post == SubSeq(s, k + 1, Len(s))
  <1>1. /\ s \in Seq(Terms) /\ Distinct(s) /\ Len(s) \in Nat /\ DOMAIN s = 1 .. Len(s)
        /\ Len(s) <= MaxTerms
    BY DEF Lists
  <1>2. /\ pre \in Seq(Terms) /\ Len(pre) = k - 1
        /\ \A i \in 1 .. k - 1 : pre[i] = s[i]
    BY <1>1, SubSeqProperties
  <1>3. /\ post \in Seq(Terms) /\ Len(post) = Len(s) - k
        /\ \A i \in 1 .. Len(s) - k : post[i] = s[k + i]
    <2>1. \A i \in k + 1 .. Len(s) : s[i] \in Terms
      BY <1>1
    <2>2. /\ post \in Seq(Terms)
          /\ Len(post) = IF k + 1 <= Len(s) THEN Len(s) - (k + 1) + 1 ELSE 0
          /\ \A i \in 1 .. Len(s) - (k + 1) + 1 : post[i] = s[k + 1 + i - 1]
      BY <1>1, <2>1, SubSeqProperties
    <2>3. \A i \in 1 .. Len(s) - k : k + 1 + i - 1 = k + i /\ i \in 1 .. Len(s) - (k + 1) + 1
      BY <1>1
    <2> HIDE DEF post
    <2>4. Len(post) = Len(s) - k
      <3>1. Len(post) = IF k + 1 <= Len(s) THEN Len(s) - (k + 1) + 1 ELSE 0
        BY <2>2
      <3>2. k \in Int /\ k <= Len(s) /\ Len(s) \in Int
        BY <1>1
      <3> QED BY <3>1, <3>2
    <2>5. ASSUME NEW i \in 1 .. Len(s) - k
          PROVE  post[i] = s[k + i]
      <3>1. post[i] = s[k + 1 + i - 1]
        BY <2>2, <2>3
      <3> QED BY <2>3, <3>1
    <2> QED BY <2>2, <2>4, <2>5
  <1>4. less = pre \o post
    BY DEF RemoveAt
  <1> HIDE DEF less, pre, post
  <1>5. /\ less \in Seq(Terms) /\ Len(less) = Len(s) - 1
        /\ \A i \in 1 .. Len(s) - 1 : less[i] = IF i < k THEN s[i] ELSE s[i + 1]
    <2>2. /\ less \in Seq(Terms) /\ Len(less) = Len(pre) + Len(post)
          /\ \A i \in 1 .. Len(pre) + Len(post) :
                less[i] = IF i <= Len(pre) THEN pre[i] ELSE post[i - Len(pre)]
      BY <1>2, <1>3, <1>4, ConcatProperties
    <2>3. Len(pre) + Len(post) = Len(s) - 1
      BY <1>1, <1>2, <1>3
    <2>4. ASSUME NEW i \in 1 .. Len(s) - 1
          PROVE  less[i] = IF i < k THEN s[i] ELSE s[i + 1]
      <3>1. CASE i < k
        <4>1. i \in 1 .. k - 1 /\ i <= Len(pre) /\ i \in 1 .. Len(pre) + Len(post)
          BY <1>1, <1>2, <2>3, <3>1
        <4>2. less[i] = pre[i]
          BY <2>2, <4>1
        <4> QED BY <1>2, <3>1, <4>1, <4>2
      <3>2. CASE ~(i < k)
        <4>1. i - (k - 1) \in 1 .. Len(s) - k /\ k + (i - (k - 1)) = i + 1 /\ ~(i <= k - 1)
          BY <1>1, <3>2
        <4>2. less[i] = post[i - (k - 1)]
          BY <1>2, <2>2, <2>3, <4>1
        <4> QED BY <1>3, <3>2, <4>1, <4>2
      <3> QED BY <3>1, <3>2
    <2> QED BY <2>2, <2>3, <2>4
  <1>6. Distinct(less)
    <2>1. DOMAIN less = 1 .. Len(s) - 1
      BY <1>1, <1>5
    <2>2. ASSUME NEW i \in 1 .. Len(s) - 1
          PROVE  \E m \in 1 .. Len(s) : less[i] = s[m] /\ m = IF i < k THEN i ELSE i + 1
      BY <1>1, <1>5
    <2>3. ASSUME NEW i \in 1 .. Len(s) - 1, NEW j \in 1 .. Len(s) - 1, less[i] = less[j]
          PROVE  i = j
      <3>1. PICK m \in 1 .. Len(s) : less[i] = s[m] /\ m = IF i < k THEN i ELSE i + 1
        BY <2>2
      <3>2. PICK n \in 1 .. Len(s) : less[j] = s[n] /\ n = IF j < k THEN j ELSE j + 1
        BY <2>2
      <3>3. m = n
        BY <1>1, <2>3, <3>1, <3>2 DEF Distinct
      <3> QED BY <1>1, <3>1, <3>2, <3>3
    <2> QED BY <2>1, <2>3 DEF Distinct
  <1>7. Without(s, s[k]) = less
    <2>1. (CHOOSE i \in DOMAIN s : s[i] = s[k] /\ \A j \in 1 .. i - 1 : s[j] # s[k]) = k
      BY <1>1 DEF Distinct
    <2> QED BY <2>1 DEF Without, less
  <1>8. Len(less) <= MaxTerms
    BY <1>1, <1>5, StoresAssumption
  <1>9. less \in Lists
    BY <1>5, <1>6, <1>8 DEF Lists
  <1> QED BY <1>5, <1>7, <1>9 DEF less

-----------------------------------------------------------------------------
(* The inductive invariant.                                                 *)

Jobs == {"none", "add", "remove", "edit", "mode"}
Steps == {"none", "load", "editing", "create", "write", "restart"}

Processes == [job : Jobs, at : Steps, arg : Terms \cup Modes \cup {None},
              base : Lists \cup {None}, terms : Lists, selected : Nat,
              temp : TempNames \cup {None}]

\* A command works on the list it loaded, a term of it is selected, and what it
\* is about to store is its effect on that list.
CommandInv(c) ==
    /\ c.job = "none" <=> c.at = "none"
    /\ c.at = "load" => c.job \in {"add", "remove", "edit"} /\ c.selected = 0
    /\ c.at = "editing" => c.job = "edit" /\ c.base = c.terms
                             /\ (Len(c.terms) > 0 => c.selected < Len(c.terms))
    /\ c.at \in {"create", "write"} /\ c.job # "mode" =>
         c.base \in Lists /\ c.terms = Effect(c, c.base)
    /\ c.at = "restart" => c.job = "mode"
    /\ c.job = "mode" => c.arg \in Modes
    /\ c.job \in {"add", "remove"} => c.arg \in Terms
    /\ c.at # "write" => c.temp = None

Commands == {c \in Processes : CommandInv(c)}

FileType(fs) ==
    /\ fs = [f \in Files |-> fs[f]]
    /\ fs["keyterms"] \in KeytermsFiles /\ fs["mode"] \in ModeFiles

Readable(fs) == parse(fs["keyterms"]) # None /\ load_mode(fs["mode"]) # None

TypeInv ==
    /\ proc \in [Pids -> Commands]
    /\ FileType(contents) /\ FileType(durable)
    /\ temps \subseteq TempNames

\* What a power failure leaves can be read as well.
ReadableInv == ~broken => Readable(contents) /\ Readable(durable)

IInv == TypeInv /\ ReadableInv /\ UpdatesKept /\ RunningMode /\ NoTempLeft

-----------------------------------------------------------------------------
(* What the steps of a command do to it.                                    *)

\* A command that stays a command keeps the processes well-typed.
LEMMA StaysType ==
  ASSUME proc \in [Pids -> Commands], NEW p \in Pids, NEW c \in Commands, Stays(p, c)
  PROVE  proc' \in [Pids -> Commands]
  BY DEF Stays

\* No command runs: that is one of the states of a process.
LEMMA NoProcType == NoProc \in Commands
  <1>1. <<>> \in Lists
    BY EmptySeq, StoresAssumption DEF Lists, Distinct
  <1>2. NoProc \in Processes
    BY <1>1 DEF NoProc, Processes, Jobs, Steps
  <1> QED BY <1>2 DEF Commands, CommandInv, NoProc

\* The first step of a command.
LEMMA StartType ==
  ASSUME TypeInv, NEW p \in Pids, Start(p)
  PROVE  proc' \in [Pids -> Commands]
  <1> DEFINE Begun(job, arg) == [NoProc EXCEPT !.job = job, !.arg = arg,
                                 !.at = IF job = "mode" THEN "create" ELSE "load"]
  <1>1. <<>> \in Lists
    BY EmptySeq, StoresAssumption DEF Lists, Distinct
  <1>2. \A t \in Terms : Begun("add", t) \in Commands /\ Begun("remove", t) \in Commands
    BY <1>1 DEF Commands, Processes, CommandInv, NoProc, Jobs, Steps
  <1>3. Begun("edit", None) \in Commands
    BY <1>1 DEF Commands, Processes, CommandInv, NoProc, Jobs, Steps
  <1>4. \A m \in Modes : Begun("mode", m) \in Commands
    BY <1>1 DEF Commands, Processes, CommandInv, NoProc, Jobs, Steps
  <1>5. PICK job, arg : Begun(job, arg) \in Commands /\ Stays(p, Begun(job, arg))
    <2> HIDE DEF Begun
    <2>1. CASE \E t \in Terms : start(p, "add", t) \/ start(p, "remove", t)
      BY <1>2, <2>1 DEF start, Begun
    <2>2. CASE start(p, "edit", None)
      BY <1>3, <2>2 DEF start, Begun
    <2>3. CASE \E m \in Modes : start(p, "mode", m)
      BY <1>4, <2>3 DEF start, Begun
    <2> QED BY <2>1, <2>2, <2>3 DEF Start
  <1> HIDE DEF Begun
  <1> QED BY <1>5, StaysType DEF TypeInv

\* A command loads a list and knows its effect on it.
LEMMA LoadType ==
  ASSUME TypeInv, NEW p \in Pids, load(p)
  PROVE  proc' \in [Pids -> Commands]
  <1> DEFINE c == proc[p]  terms == parse(contents["keyterms"])
             loaded == [c EXCEPT !.base = Meant(contents["keyterms"])]
  <1>1. CASE ~Accepts(c, terms)
    <2>1. Stays(p, NoProc)
      BY <1>1 DEF load, Exits
    <2> QED BY <2>1, StaysType, NoProcType DEF TypeInv
  <1>2. CASE Accepts(c, terms)
    <2>1. terms # None
      BY <1>2 DEF Accepts
    <2>2. terms \in Lists /\ Meant(contents["keyterms"]) = terms /\ Len(terms) \in Nat
      BY <2>1, ParseType DEF TypeInv, FileType, Lists
    <2>3. /\ c \in Processes /\ CommandInv(c) /\ c.at = "load"
          /\ c.job \in {"add", "remove", "edit"} /\ c.temp = None
          /\ c.job \in {"add", "remove"} => c.arg \in Terms
      BY DEF load, TypeInv, Commands, CommandInv
    <2> HIDE DEF terms, c
    <2>4. CASE c.job = "edit"
      <3> DEFINE x == [c EXCEPT !.base = terms, !.at = "editing", !.terms = terms]
      <3>1. Stays(p, x)
        BY <1>2, <2>2, <2>3, <2>4 DEF load, c, terms, Processes
      <3>2. x \in Processes
        BY <2>2, <2>3 DEF Processes, Steps
      <3>3. CommandInv(x)
        BY <2>2, <2>3, <2>4 DEF CommandInv, Processes
      <3> HIDE DEF x
      <3> QED BY <3>1, <3>2, <3>3, StaysType DEF TypeInv, Commands
    <2>5. CASE c.job \in {"add", "remove"}
      <3> DEFINE new == Effect(c, terms)
                 x == [c EXCEPT !.base = terms, !.at = "create", !.terms = new]
      <3>1. Stays(p, x)
        BY <1>2, <2>2, <2>3, <2>5 DEF load, c, terms, Processes
      <3>2. new \in Lists
        <4>1. CASE c.job = "add"
          <5>1. new = Append(terms, c.arg) /\ CanAdd(terms, c.arg) /\ c.arg \in Terms
            BY <1>2, <2>1, <2>3, <4>1 DEF Effect, Accepts
          <5> QED BY <2>2, <5>1, AddType
        <4>2. CASE c.job = "remove"
          <5>1. new = Without(terms, c.arg) /\ c.arg \in Range(terms)
            BY <1>2, <2>1, <2>3, <4>2 DEF Effect, Accepts
          <5>2. PICK k \in 1 .. Len(terms) : terms[k] = c.arg
            BY <2>2, <5>1 DEF Range, Lists
          <5> QED BY <2>2, <5>1, <5>2, RemoveType
        <4> QED BY <2>5, <4>1, <4>2
      <3>3. x \in Processes
        BY <2>2, <2>3, <3>2 DEF Processes, Steps
      <3>4. Effect(x, terms) = new
        BY <2>3 DEF Effect, Processes
      <3> HIDE DEF new
      <3>5. CommandInv(x)
        BY <2>2, <2>3, <2>5, <3>4 DEF CommandInv, Processes
      <3> HIDE DEF x
      <3> QED BY <3>1, <3>3, <3>5, StaysType DEF TypeInv, Commands
    <2> QED BY <2>3, <2>4, <2>5
  <1> QED BY <1>1, <1>2

\* move_selection stays inside the list.
LEMMA SelectionType ==
  ASSUME NEW len \in Nat, NEW selected \in Nat, len > 0 => selected < len, NEW d \in {-1, 1}
  PROVE  /\ move_selection(selected, len, d) \in Nat
         /\ len > 0 => move_selection(selected, len, d) < len
  <1>1. CASE len = 0
    BY <1>1 DEF move_selection
  <1>2. CASE len > 0
    <2> DEFINE x == selected + len + d
    <2>1. x \in Int /\ move_selection(selected, len, d) = x % len
      BY <1>2 DEF move_selection
    <2> HIDE DEF x
    <2>2. x % len \in 0 .. len - 1
      BY <1>2, <2>1
    <2> QED BY <1>2, <2>1, <2>2
  <1> QED BY <1>1, <1>2

\* The editor selects a term of its list and removes no other.
LEMMA EditType ==
  ASSUME TypeInv, NEW p \in Pids, edit(p)
  PROVE  proc' \in [Pids -> Commands]
  <1> DEFINE c == proc[p]  len == Len(c.terms)
  <1>1. /\ c \in Processes /\ CommandInv(c) /\ c.at = "editing" /\ c.base = c.terms
        /\ c.terms \in Lists /\ len \in Nat /\ c.selected \in Nat /\ c.temp = None
        /\ len > 0 => c.selected < len
        /\ c.job = "edit"
    BY DEF edit, TypeInv, Commands, CommandInv, Processes, Lists
  <1>2. CASE \E d \in {-1, 1} :
               Stays(p, [c EXCEPT !.selected = move_selection(@, len, d)])
    <2>1. PICK d \in {-1, 1} : Stays(p, [c EXCEPT !.selected = move_selection(@, len, d)])
      BY <1>2
    <2> DEFINE s == move_selection(c.selected, len, d)  x == [c EXCEPT !.selected = s]
    <2>2. s \in Nat /\ (len > 0 => s < len)
      BY <1>1, SelectionType
    <2>3. Stays(p, x)
      BY <2>1
    <2> HIDE DEF s
    <2>4. x \in Processes
      BY <1>1, <2>2 DEF Processes
    <2>5. CommandInv(x)
      BY <1>1, <2>2 DEF CommandInv, Processes
    <2> HIDE DEF x
    <2> QED BY <2>3, <2>4, <2>5, StaysType DEF TypeInv, Commands
  <1>3. CASE /\ len > 0
             /\ Stays(p, [c EXCEPT !.at = "create", !.arg = c.terms[c.selected + 1],
                                   !.terms = RemoveAt(@, c.selected + 1)])
    <2> DEFINE k == c.selected + 1  t == c.terms[k]  less == RemoveAt(c.terms, k)
               x == [c EXCEPT !.at = "create", !.arg = t, !.terms = less]
    <2>1. k \in 1 .. len
      BY <1>1, <1>3
    <2>2. t \in Terms
      BY <1>1, <2>1, ElementOfSeq DEF Lists
    <2>3. less \in Lists /\ Without(c.terms, t) = less
      BY <1>1, <2>1, RemoveType
    <2>4. Stays(p, x)
      BY <1>3
    <2> HIDE DEF t, less
    <2>5. x \in Processes
      BY <1>1, <2>2, <2>3 DEF Processes, Steps
    <2>6. Effect(x, c.terms) = less
      <3>1. c.terms # None /\ x.job = c.job /\ x.arg = t
        BY <1>1, ListIsRead DEF Processes
      <3> QED BY <1>1, <2>3, <3>1 DEF Effect
    <2>7. CommandInv(x)
      BY <1>1, <2>2, <2>3, <2>6 DEF CommandInv, Processes
    <2> HIDE DEF x
    <2> QED BY <2>4, <2>5, <2>7, StaysType DEF TypeInv, Commands
  <1>4. CASE Exits(p)
    BY <1>4, StaysType, NoProcType DEF Exits, TypeInv
  <1> QED BY <1>2, <1>3, <1>4 DEF edit

\* Creating the temporary file gives the command its name, or ends it.
LEMMA CreateType ==
  ASSUME TypeInv, NEW p \in Pids, create(p)
  PROVE  proc' \in [Pids -> Commands] /\ temps' \subseteq TempNames
  <1> DEFINE c == proc[p]
  <1>1. c \in Processes /\ CommandInv(c) /\ c.at = "create"
    BY DEF create, TypeInv, Commands
  <1>2. CASE \E n \in TempNames :
               temps' = temps \cup {n} /\ Stays(p, [c EXCEPT !.at = "write", !.temp = n])
    <2>1. PICK n \in TempNames :
             temps' = temps \cup {n} /\ Stays(p, [c EXCEPT !.at = "write", !.temp = n])
      BY <1>2
    <2> DEFINE x == [c EXCEPT !.at = "write", !.temp = n]
    <2>2. x \in Processes
      BY <1>1 DEF Processes, Steps
    <2>3. CommandInv(x)
      BY <1>1 DEF CommandInv, Processes, Effect
    <2>4. Stays(p, x)
      BY <2>1
    <2> HIDE DEF x
    <2>5. proc' \in [Pids -> Commands]
      BY <2>2, <2>3, <2>4, StaysType DEF TypeInv, Commands
    <2> QED BY <2>1, <2>5 DEF TypeInv
  <1>3. CASE Exits(p) /\ temps' \subseteq temps
    BY <1>3, StaysType, NoProcType DEF Exits, TypeInv
  <1> QED BY <1>2, <1>3 DEF create, Names

\* Replacing a file ends the command or takes it to its next step.
LEMMA ReplaceType ==
  ASSUME TypeInv, NEW p \in Pids, replace(p)
  PROVE  proc' \in [Pids -> Commands]
  <1> DEFINE c == proc[p]
  <1>1. /\ c \in Processes /\ CommandInv(c) /\ c.at = "write" /\ c.terms \in Lists
        /\ Len(c.terms) \in Nat
    BY DEF replace, TypeInv, Commands, Processes, Lists
  <1>2. CASE c.job = "mode"
    <2> DEFINE x == [c EXCEPT !.at = "restart", !.temp = None]
    <2>1. Stays(p, x)
      BY <1>2 DEF replace
    <2>2. x \in Processes /\ CommandInv(x)
      BY <1>1, <1>2 DEF Processes, Steps, CommandInv
    <2> QED BY <2>1, <2>2, StaysType DEF TypeInv, Commands
  <1>3. CASE c.job = "edit"
    <2> DEFINE s == Selection(c)
               x == [c EXCEPT !.at = "editing", !.selected = s, !.base = Meant(c.terms),
                              !.temp = None, !.arg = None]
    <2>1. Stays(p, x)
      BY <1>3 DEF replace, FileOf
    <2>2. Meant(c.terms) = c.terms
      BY <1>1, ListIsRead
    <2>3. s \in Nat /\ (Len(c.terms) > 0 => s < Len(c.terms))
      <3> DEFINE last == IF c.terms = <<>> THEN 0 ELSE Len(c.terms) - 1
      <3>1. last \in Nat /\ (Len(c.terms) > 0 => last < Len(c.terms)) /\ c.selected \in Nat
        BY <1>1 DEF Processes, Lists
      <3>2. s = Min({c.selected, last})
        BY DEF Selection
      <3> HIDE DEF last
      <3>3. Min({c.selected, last}) \in {c.selected, last} /\ Min({c.selected, last}) <= last
        <4> DEFINE S == {c.selected, last}
        <4>1. \E m \in S : \A n \in S : m <= n
          BY <3>1
        <4>2. Min(S) \in S /\ \A n \in S : Min(S) <= n
          BY <4>1 DEF Min
        <4> QED BY <4>2
      <3> QED BY <1>1, <3>1, <3>2, <3>3
    <2> HIDE DEF s
    <2>4. x \in Processes
      BY <1>1, <2>2, <2>3 DEF Processes, Steps
    <2>5. CommandInv(x)
      BY <1>1, <1>3, <2>2, <2>3 DEF CommandInv, Processes
    <2> HIDE DEF x
    <2> QED BY <2>1, <2>4, <2>5, StaysType DEF TypeInv, Commands
  <1>4. CASE c.job \notin {"mode", "edit"}
    <2>1. Stays(p, NoProc)
      BY <1>4 DEF replace, Exits
    <2> QED BY <2>1, StaysType, NoProcType DEF TypeInv
  <1> QED BY <1>2, <1>3, <1>4

\* A command's step and the files.
LEMMA CommandType ==
  ASSUME TypeInv, NEW p \in Pids, Command(p)
  PROVE  TypeInv'
  <1>1. CASE Start(p)
    <2>1. UNCHANGED files
      BY <1>1 DEF Start, start
    <2> QED BY <1>1, <2>1, StartType DEF TypeInv, files, FileType
  <1>2. CASE load(p)
    BY <1>2, LoadType DEF load, TypeInv, files, FileType
  <1>3. CASE edit(p)
    BY <1>3, EditType DEF edit, TypeInv, files, FileType
  <1>4. CASE create(p)
    BY <1>4, CreateType DEF create, TypeInv, FileType
  <1>5. CASE replace(p)
    <2> DEFINE c == proc[p]  f == FileOf(c.job)  new == IF f = "mode" THEN c.arg ELSE c.terms
    <2>1. /\ c \in Processes /\ CommandInv(c) /\ f \in Files
          /\ contents' = [contents EXCEPT ![f] = new] /\ durable' = durable
          /\ temps' \subseteq temps
      BY <1>5 DEF replace, TypeInv, Commands, FileOf, Files, Durable
    <2>2. f = "keyterms" => new \in KeytermsFiles
      BY <2>1 DEF Processes, Lists, KeytermsFiles
    <2>3. f = "mode" => new \in ModeFiles
      <3>1. f = "mode" => c.job = "mode"
        BY DEF FileOf
      <3> QED BY <2>1, <3>1 DEF CommandInv, ModeFiles
    <2> HIDE DEF new, f
    <2>4. FileType(contents')
      BY <2>1, <2>2, <2>3 DEF TypeInv, FileType, Files
    <2>5. FileType(durable') /\ temps' \subseteq TempNames
      BY <2>1 DEF TypeInv
    <2> QED BY <1>5, <2>4, <2>5, ReplaceType DEF TypeInv, FileType
  <1>6. CASE fail(p)
    <2>1. Stays(p, NoProc) /\ temps' \subseteq temps /\ UNCHANGED <<contents, durable>>
      BY <1>6 DEF fail, Exits
    <2> QED BY <2>1, StaysType, NoProcType DEF TypeInv, FileType
  <1>7. CASE restart(p) \/ restart_fails(p)
    <2>1. Stays(p, NoProc) /\ UNCHANGED files
      BY <1>7 DEF restart, restart_fails, Exits
    <2> QED BY <2>1, StaysType, NoProcType DEF TypeInv, FileType, files
  <1> QED BY <1>1, <1>2, <1>3, <1>4, <1>5, <1>6, <1>7 DEF Command

\* Every step keeps the types, whatever becomes of the processes and the files.
LEMMA TypeInvStep ==
  ASSUME TypeInv, [Next]_vars
  PROVE  TypeInv'
  <1>1. CASE \E p \in Pids : Command(p)
    BY <1>1, CommandType
  <1>2. CASE \E p \in Pids : Kill(p)
    <2>1. PICK p \in Pids : Stays(p, NoProc) /\ UNCHANGED files
      BY <1>2 DEF Kill, Exits
    <2> QED BY <2>1, StaysType, NoProcType DEF TypeInv, FileType, files
  <1>3. CASE daemon_starts \/ daemon_fails
    BY <1>3 DEF daemon_starts, daemon_fails, TypeInv, FileType, files
  <1>4. CASE \E f \in Files : WriteBack(f)
    <2>1. PICK f \in Files : /\ durable' = [durable EXCEPT ![f] = contents[f]]
                             /\ UNCHANGED <<contents, temps, proc>>
      BY <1>4 DEF WriteBack
    <2>2. FileType(durable')
      BY <2>1 DEF TypeInv, FileType, Files
    <2> QED BY <2>1, <2>2 DEF TypeInv, FileType
  <1>5. CASE PowerFailure
    <2>1. /\ contents' = durable /\ durable' = durable /\ temps' \subseteq temps
          /\ proc' = [p \in Pids |-> NoProc]
      BY <1>5 DEF PowerFailure
    <2> QED BY <2>1, NoProcType DEF TypeInv, FileType
  <1>6. CASE \/ \E f \in Files : HandEdit(f, Invalid)
             \/ \E t \in Terms : HandEdit("keyterms", <<t, t>>)
    <2>1. PICK f \in Files, c \in {Invalid} \cup Seq(Terms) :
             /\ contents' = [contents EXCEPT ![f] = c]
             /\ UNCHANGED <<durable, temps, proc>>
             /\ c = Invalid \/ (f = "keyterms" /\ c \in Seq(Terms))
      <3>1. \A t \in Terms : <<t, t>> \in Seq(Terms)
        OBVIOUS
      <3>2. "keyterms" \in Files
        BY DEF Files
      <3> QED BY <1>6, <3>1, <3>2 DEF HandEdit
    <2>2. FileType(contents')
      BY <2>1 DEF TypeInv, FileType, Files, KeytermsFiles, ModeFiles
    <2> QED BY <2>1, <2>2 DEF TypeInv, FileType
  <1>7. CASE UNCHANGED vars
    BY <1>7 DEF vars, files, TypeInv, FileType
  <1> QED BY <1>1, <1>2, <1>3, <1>4, <1>5, <1>6, <1>7 DEF Next

-----------------------------------------------------------------------------
(* The properties, step by step.                                            *)

\* What a command stores can be read, and is its effect on the list it loaded.
LEMMA Replaces ==
  ASSUME TypeInv, NEW p \in Pids, replace(p)
  PROVE  \/ /\ proc[p].job = "mode" /\ load_mode(contents'["mode"]) # None
            /\ contents'["keyterms"] = contents["keyterms"]
            /\ UNCHANGED <<due, overlap>>
            /\ proc'[p].at = "restart"
         \/ /\ proc[p].job # "mode" /\ contents'["mode"] = contents["mode"]
            /\ parse(contents'["keyterms"]) # None
            /\ overlap' = (overlap \/ proc[p].base # Meant(contents["keyterms"]))
            /\ due' = IF overlap' THEN None ELSE Effect(proc[p], due)
            /\ Meant(contents'["keyterms"]) = Effect(proc[p], proc[p].base)
            /\ proc[p].base \in Lists
  <1> DEFINE c == proc[p]
  <1>1. /\ c \in Processes /\ CommandInv(c) /\ c.at = "write" /\ c.terms \in Lists
        /\ proc \in [Pids -> Commands]
        /\ contents = [f \in Files |-> contents[f]]
    BY DEF replace, TypeInv, Commands, Processes, FileType
  <1>2. CASE c.job = "mode"
    <2>1. /\ contents' = [contents EXCEPT !["mode"] = c.arg] /\ UNCHANGED <<due, overlap>>
          /\ c.arg \in Modes
      BY <1>1, <1>2 DEF replace, FileOf, CommandInv
    <2>2. contents'["mode"] = c.arg /\ contents'["keyterms"] = contents["keyterms"]
      BY <1>1, <2>1 DEF Files
    <2>3. load_mode(c.arg) # None
      BY <2>1, StoresAssumption DEF load_mode
    <2>4. Stays(p, [c EXCEPT !.at = "restart", !.temp = None])
      BY <1>2 DEF replace
    <2>5. proc'[p].at = "restart"
      BY <1>1, <2>4 DEF Stays, Processes
    <2> QED BY <1>2, <2>1, <2>2, <2>3, <2>5
  <1>3. CASE c.job # "mode"
    <2>1. /\ contents' = [contents EXCEPT !["keyterms"] = c.terms]
          /\ overlap' = (overlap \/ c.base # Meant(contents["keyterms"]))
          /\ due' = IF overlap' THEN None ELSE Effect(c, due)
      BY <1>3 DEF replace, FileOf
    <2>2. contents'["keyterms"] = c.terms /\ contents'["mode"] = contents["mode"]
      BY <1>1, <2>1 DEF Files
    <2>3. parse(c.terms) # None /\ Meant(c.terms) = c.terms
      BY <1>1, ListIsRead
    <2>4. c.base \in Lists /\ c.terms = Effect(c, c.base)
      BY <1>1, <1>3 DEF CommandInv
    <2> QED BY <1>3, <2>1, <2>2, <2>3, <2>4
  <1> QED BY <1>2, <1>3

\* The steps that leave the contents of the files alone.
Others ==
    \/ \E p \in Pids : \/ Start(p) \/ load(p) \/ edit(p) \/ create(p) \/ fail(p)
                       \/ restart(p) \/ restart_fails(p) \/ Kill(p)
    \/ daemon_starts \/ daemon_fails

\* They leave what was stored and what is known of it.
LEMMA OthersKeep ==
  ASSUME Others
  PROVE  UNCHANGED <<contents, durable, due, overlap, broken>>
  BY DEF Others, Start, start, load, edit, create, fail, restart, restart_fails, Kill,
     daemon_starts, daemon_fails, files, history

\* There is nothing else that writes a file.
LEMMA NextCases ==
  ASSUME [Next]_vars
  PROVE  \/ Others \/ \E p \in Pids : replace(p)
         \/ \E f \in Files : WriteBack(f)
         \/ PowerFailure
         \/ \E f \in Files : HandEdit(f, Invalid)
         \/ \E t \in Terms : HandEdit("keyterms", <<t, t>>)
         \/ UNCHANGED vars
  BY DEF Next, Command, Others

\* What can be read stays readable, after a power failure too.
LEMMA ReadableStep ==
  ASSUME TypeInv, ReadableInv, [Next]_vars
  PROVE  ReadableInv'
  <1>1. CASE Others
    BY <1>1, OthersKeep DEF ReadableInv, Readable
  <1>2. CASE \E p \in Pids : replace(p)
    <2>1. PICK p \in Pids : replace(p)
      BY <1>2
    <2>2. UNCHANGED <<durable, broken>>
      BY <2>1 DEF replace, Durable
    <2> QED BY <2>1, <2>2, Replaces DEF ReadableInv, Readable
  <1>3. CASE \E f \in Files : WriteBack(f)
    <2>1. PICK f \in Files : /\ durable' = [durable EXCEPT ![f] = contents[f]]
                             /\ UNCHANGED <<contents, broken>>
      BY <1>3 DEF WriteBack, history
    <2>2. \A g \in Files : durable'[g] \in {durable[g], contents[g]}
      BY <2>1 DEF TypeInv, FileType
    <2> QED BY <2>1, <2>2 DEF ReadableInv, Readable, Files
  <1>4. CASE PowerFailure
    BY <1>4 DEF PowerFailure, ReadableInv, Readable
  <1>5. CASE broken'
    BY <1>5 DEF ReadableInv
  <1>6. CASE UNCHANGED vars
    BY <1>6 DEF vars, files, history, ReadableInv, Readable
  <1> QED BY <1>1, <1>2, <1>3, <1>4, <1>5, <1>6, NextCases DEF HandEdit

\* The effects of the commands add up: one that replaces the list it loaded makes
\* of the file what it makes of the history.
LEMMA UpdatesKeptStep ==
  ASSUME TypeInv, UpdatesKept, [Next]_vars
  PROVE  UpdatesKept'
  <1>1. CASE Others
    BY <1>1, OthersKeep DEF UpdatesKept
  <1>2. CASE \E p \in Pids : replace(p)
    <2>1. PICK p \in Pids : replace(p)
      BY <1>2
    <2> QED BY <2>1, Replaces DEF UpdatesKept
  <1>3. CASE \E f \in Files : WriteBack(f)
    BY <1>3 DEF WriteBack, history, UpdatesKept
  <1>4. CASE PowerFailure
    BY <1>4 DEF PowerFailure, UpdatesKept
  <1>5. CASE \/ \E f \in Files : HandEdit(f, Invalid)
             \/ \E t \in Terms : HandEdit("keyterms", <<t, t>>)
    <2>1. PICK f \in Files : \E c : HandEdit(f, c)
      BY <1>5 DEF Files
    <2>2. PICK c : HandEdit(f, c)
      BY <2>1
    <2>3. contents' = [contents EXCEPT ![f] = c] /\ contents = [g \in Files |-> contents[g]]
      BY <2>2 DEF HandEdit, TypeInv, FileType
    <2>4. CASE f = "mode"
      <3>1. contents'["keyterms"] = contents["keyterms"] /\ UNCHANGED <<due, overlap>>
        BY <2>2, <2>3, <2>4 DEF HandEdit, Files
      <3> QED BY <3>1 DEF UpdatesKept
    <2>5. CASE f = "keyterms"
      <3>1. contents'["keyterms"] = c /\ due' = Meant(c)
        BY <2>2, <2>3, <2>5 DEF HandEdit, Files
      <3> QED BY <3>1 DEF UpdatesKept
    <2> QED BY <2>4, <2>5 DEF Files
  <1>6. CASE UNCHANGED vars
    BY <1>6 DEF vars, files, history, UpdatesKept
  <1> QED BY <1>1, <1>2, <1>3, <1>4, <1>5, <1>6, NextCases

\* The running daemon has the stored mode until a command stores another, which
\* then is about to restart it.
LEMMA RunningModeStep ==
  ASSUME TypeInv, RunningMode, [Next]_vars
  PROVE  RunningMode'
  <1>1. CASE \E p \in Pids : Start(p) \/ load(p) \/ edit(p) \/ create(p) \/ fail(p)
    <2>1. PICK p \in Pids : Start(p) \/ load(p) \/ edit(p) \/ create(p) \/ fail(p)
      BY <1>1
    <2>2. /\ proc[p].at # "restart"
          /\ UNCHANGED <<contents, daemon, mode, unapplied>>
          /\ \E c : Stays(p, c)
      <3>1. CASE Start(p)
        <4>1. proc[p].at = "none"
          BY <3>1 DEF Start, start, TypeInv, Commands, CommandInv
        <4> QED BY <3>1, <4>1 DEF Start, start, files, history
      <3>2. CASE load(p)
        BY <3>2 DEF load, files, history, Exits
      <3>3. CASE edit(p)
        BY <3>3 DEF edit, files, history, Exits
      <3>4. CASE create(p)
        BY <3>4 DEF create, Exits
      <3>5. CASE fail(p)
        BY <3>5 DEF fail, history, Exits
      <3> QED BY <2>1, <3>1, <3>2, <3>3, <3>4, <3>5
    <2>3. \A q \in Pids : q # p => proc'[q] = proc[q]
      BY <2>2 DEF Stays, TypeInv
    <2> QED BY <2>2, <2>3 DEF RunningMode
  <1>2. CASE \E p \in Pids : replace(p)
    <2>1. PICK p \in Pids : replace(p)
      BY <1>2
    <2>2. UNCHANGED <<daemon, mode, unapplied>> /\ proc[p].at = "write" /\ \E c : Stays(p, c)
      BY <2>1 DEF replace, Exits
    <2>3. \A q \in Pids : q # p => proc'[q] = proc[q]
      BY <2>2 DEF Stays, TypeInv
    <2>4. contents'["mode"] = contents["mode"] \/ proc'[p].at = "restart"
      BY <2>1, Replaces
    <2> QED BY <2>2, <2>3, <2>4 DEF RunningMode
  <1>3. CASE daemon_starts
    BY <1>3 DEF daemon_starts, files, RunningMode
  <1>4. CASE daemon' # "running"
    BY <1>4 DEF RunningMode
  <1>5. CASE \E p \in Pids : restart(p) \/ restart_fails(p) \/ Kill(p)
    <2>1. PICK p \in Pids : restart(p) \/ restart_fails(p) \/ Kill(p)
      BY <1>5
    <2>2. CASE restart(p)
      BY <2>2 DEF restart, RunningMode
    <2>3. CASE restart_fails(p)
      BY <2>3 DEF restart_fails, RunningMode
    <2>4. CASE Kill(p)
      <3>1. /\ UNCHANGED <<contents, daemon, mode>> /\ Stays(p, NoProc)
            /\ unapplied' = (unapplied \/ proc[p].at = "restart")
        BY <2>4 DEF Kill, files, Exits
      <3>2. \A q \in Pids : q # p => proc'[q] = proc[q]
        BY <3>1 DEF Stays, TypeInv
      <3> QED BY <3>1, <3>2 DEF RunningMode
    <2> QED BY <2>1, <2>2, <2>3, <2>4
  <1>6. CASE \E f \in Files : WriteBack(f)
    BY <1>6 DEF WriteBack, history, RunningMode
  <1>7. CASE \/ \E f \in Files : HandEdit(f, Invalid)
             \/ \E t \in Terms : HandEdit("keyterms", <<t, t>>)
    <2>1. PICK f \in Files : \E c : HandEdit(f, c)
      BY <1>7 DEF Files
    <2>2. PICK c : HandEdit(f, c)
      BY <2>1
    <2>3. contents' = [contents EXCEPT ![f] = c] /\ contents = [g \in Files |-> contents[g]]
      BY <2>2 DEF HandEdit, TypeInv, FileType
    <2>4. f = "mode" \/ contents'["mode"] = contents["mode"]
      BY <2>3 DEF Files
    <2> QED BY <2>2, <2>4 DEF HandEdit, RunningMode
  <1>8. CASE UNCHANGED vars
    BY <1>8 DEF vars, files, history, RunningMode
  <1> QED BY <1>1, <1>2, <1>3, <1>4, <1>5, <1>6, <1>7, <1>8
          DEF Next, Command, daemon_fails, PowerFailure

\* A command that loses its temporary file has removed it, and one that is killed
\* leaves it behind.
LEMMA NoTempLeftStep ==
  ASSUME TypeInv, NoTempLeft, [Next]_vars
  PROVE  NoTempLeft'
  <1> DEFINE Held == {proc[p].temp : p \in Pids}
  <1>1. None \notin temps
    BY StoresAssumption DEF TypeInv
  <1>2. ASSUME NEW p \in Pids, NEW c, Stays(p, c), UNCHANGED stray,
               temps' \subseteq temps, proc[p].temp \notin temps' \/ c.temp = proc[p].temp
        PROVE  NoTempLeft'
    <2>1. \A q \in Pids : proc'[q] = IF q = p THEN c ELSE proc[q]
      BY <1>2 DEF Stays, TypeInv
    <2> QED BY <1>2, <2>1 DEF NoTempLeft
  <1>3. \A p \in Pids : proc[p].at # "write" => proc[p].temp = None
    BY DEF TypeInv, Commands, CommandInv
  <1>4. CASE \E p \in Pids : Start(p) \/ load(p) \/ edit(p) \/ restart(p) \/ restart_fails(p)
    <2>1. PICK p \in Pids : Start(p) \/ load(p) \/ edit(p) \/ restart(p) \/ restart_fails(p)
      BY <1>4
    <2>2. /\ proc[p].at # "write" /\ UNCHANGED <<temps, stray>>
          /\ \E c : Stays(p, c)
      <3>1. CASE Start(p)
        <4>1. proc[p].at = "none"
          BY <3>1 DEF Start, start, TypeInv, Commands, CommandInv
        <4> QED BY <3>1, <4>1 DEF Start, start, files, history
      <3>2. CASE load(p)
        BY <3>2 DEF load, files, history, Exits
      <3>3. CASE edit(p)
        BY <3>3 DEF edit, files, history, Exits
      <3>4. CASE restart(p)
        BY <3>4 DEF restart, files, history, Exits
      <3>5. CASE restart_fails(p)
        BY <3>5 DEF restart_fails, files, Exits
      <3> QED BY <2>1, <3>1, <3>2, <3>3, <3>4, <3>5
    <2>3. proc[p].temp \notin temps'
      BY <1>1, <1>3, <2>2
    <2> QED BY <1>2, <2>2, <2>3
  <1>5. CASE \E p \in Pids : create(p)
    <2>1. PICK p \in Pids : create(p)
      BY <1>5
    <2>2. proc[p].temp = None /\ stray' = stray \cap temps'
      BY <1>3, <2>1 DEF create
    <2>3. \/ \E n : temps' = temps \cup {n} /\ Stays(p, [proc[p] EXCEPT !.at = "write", !.temp = n])
          \/ temps' \subseteq temps /\ Stays(p, NoProc)
      BY <2>1 DEF create, Exits
    <2>4. CASE temps' \subseteq temps /\ Stays(p, NoProc)
      <3>1. \A q \in Pids : q # p => proc'[q] = proc[q]
        BY <2>4 DEF Stays, TypeInv
      <3> QED BY <1>1, <2>2, <2>4, <3>1 DEF NoTempLeft
    <2>5. ASSUME NEW n, temps' = temps \cup {n},
                 Stays(p, [proc[p] EXCEPT !.at = "write", !.temp = n])
          PROVE  NoTempLeft'
      <3>1. \A q \in Pids : q # p => proc'[q] = proc[q]
        BY <2>5 DEF Stays, TypeInv
      <3>2. proc'[p].temp = n
        BY <2>5 DEF Stays, TypeInv, Commands, Processes
      <3> QED BY <1>1, <2>2, <2>5, <3>1, <3>2 DEF NoTempLeft
    <2> QED BY <2>3, <2>4, <2>5
  <1>6. CASE \E p \in Pids : replace(p) \/ fail(p)
    <2>1. PICK p \in Pids : replace(p) \/ fail(p)
      BY <1>6
    <2>2. temps' = temps \ {proc[p].temp} /\ UNCHANGED stray /\ \E c : Stays(p, c)
      BY <2>1 DEF replace, fail, history, Exits
    <2> QED BY <1>2, <2>2
  <1>7. CASE \E p \in Pids : Kill(p)
    <2>1. PICK p \in Pids : /\ UNCHANGED temps /\ Stays(p, NoProc)
                            /\ stray' = stray \cup ({proc[p].temp} \ {None})
      BY <1>7 DEF Kill, files, Exits
    <2>2. \A q \in Pids : q # p => proc'[q] = proc[q]
      BY <2>1 DEF Stays, TypeInv
    <2> QED BY <1>1, <2>1, <2>2 DEF NoTempLeft
  <1>8. CASE PowerFailure
    BY <1>8 DEF PowerFailure, NoTempLeft
  <1>9. CASE UNCHANGED <<temps, stray, proc>>
    BY <1>9 DEF NoTempLeft
  <1>10. \/ \E p \in Pids : \/ Start(p) \/ load(p) \/ edit(p) \/ restart(p) \/ restart_fails(p)
                            \/ create(p) \/ replace(p) \/ fail(p) \/ Kill(p)
         \/ PowerFailure \/ UNCHANGED <<temps, stray, proc>>
    BY DEF Next, Command, daemon_starts, daemon_fails, WriteBack, HandEdit, vars, files, history
  <1> QED BY <1>4, <1>5, <1>6, <1>7, <1>8, <1>9, <1>10

-----------------------------------------------------------------------------
(* The theorems.                                                            *)

\* No file is there yet, and no command.
LEMMA InitInv == Init => IInv
  <1> SUFFICES ASSUME Init PROVE IInv
    OBVIOUS
  <1>1. contents["keyterms"] = Missing /\ contents["mode"] = Missing /\ durable = contents
    BY DEF Init, Files
  <1>2. TypeInv
    BY <1>1, NoProcType DEF Init, TypeInv, FileType, KeytermsFiles, ModeFiles
  <1>3. <<>> # None /\ Batch # None
    BY EmptySeq, StoresAssumption DEF Modes
  <1>4. ReadableInv
    BY <1>1, <1>3 DEF ReadableInv, Readable, parse, load_mode
  <1>5. UpdatesKept
    BY <1>1 DEF Init, UpdatesKept, Meant
  <1>6. RunningMode /\ NoTempLeft
    BY DEF Init, RunningMode, NoTempLeft
  <1> QED BY <1>2, <1>4, <1>5, <1>6 DEF IInv

\* IInv is an invariant of the two stores.
THEOREM Invariance == Spec => []IInv
  <1>1. IInv /\ [Next]_vars => IInv'
    BY TypeInvStep, ReadableStep, UpdatesKeptStep, RunningModeStep, NoTempLeftStep DEF IInv
  <1> QED BY <1>1, InitInv, PTL DEF Spec

\* keyterms.rs:144-183 and mode.rs:99-149: killed processes, failing writes and
\* power failures leave files that load, and so does every list a command makes:
\* without repetitions and no longer than MAX_TERMS.
THEOREM FilesLoad == Spec => []StaysLoadable
  <1>1. IInv => StaysLoadable
    BY DEF IInv, ReadableInv, Readable, StaysLoadable
  <1> QED BY <1>1, Invariance, PTL

\* keyterms.rs:36-92: each command that succeeds adds or removes its term and
\* changes nothing else, as long as nobody replaces the list under it.
THEOREM NoUpdateLost == Spec => []UpdatesKept
  <1>1. IInv => UpdatesKept
    BY DEF IInv
  <1> QED BY <1>1, Invariance, PTL

\* mode.rs:55-75: the mode is stored before the restart, so the running daemon has
\* it or a restart is on its way.
THEOREM ModeApplied == Spec => []RunningMode
  <1>1. IInv => RunningMode
    BY DEF IInv
  <1> QED BY <1>1, Invariance, PTL

\* keyterms.rs:179-181 and mode.rs:145-147: only a process that was killed leaves a
\* temporary file.
THEOREM TempsRemoved == Spec => []NoTempLeft
  <1>1. IInv => NoTempLeft
    BY DEF IInv
  <1> QED BY <1>1, Invariance, PTL
=============================================================================

---------------------------- MODULE SequenceLemmas ----------------------------
(***************************************************************************)
(* Induction over numbers and over sequences, stated for the set of values *)
(* that have a property, and from it what FlattenSeq of the community      *)
(* modules and Selected compute for every sequence. The bodies that        *)
(* ExtProcStream chunks and that its proxy joins are reasoned about here.  *)
(***************************************************************************)
EXTENDS Integers, Selection, SequencesExt, SequenceTheorems, WellFoundedInduction, TLAPS

\* A nonempty set of natural numbers has a least element.
LEMMA LeastNumber ==
    ASSUME NEW T, T \subseteq Nat, T # {}
    PROVE  \E n \in T : \A m \in T : n <= m
<1> DEFINE R == OpToRel(<, Nat)
<1>1. \A x, y \in Nat : <<y, x>> \in R <=> y < x
    BY DEF OpToRel
<1>2. IsWellFoundedOn(R, Nat)
    BY NatLessThanWellFounded
<1> HIDE DEF R
<1>3. \E x \in T : \A y \in T : ~ (<<y, x>> \in R)
    BY <1>2, WFMin
<1>4. PICK x \in T : \A y \in T : ~ (<<y, x>> \in R)
    BY <1>3
<1>5. ASSUME NEW m \in T
      PROVE  x <= m
  <2>1. ~ (<<m, x>> \in R)
      BY <1>4
  <2>2. m \in Nat /\ x \in Nat
      OBVIOUS
  <2>3. ~ (m < x)
      BY <1>1, <2>1, <2>2
  <2> QED
      BY <2>2, <2>3
<1> QED
    BY <1>5

\* Induction: a set that has 0 and with each number the next one has them all.
LEMMA SetInduction ==
    ASSUME NEW S, 0 \in S, \A n \in Nat : n \in S => n + 1 \in S
    PROVE  \A n \in Nat : n \in S
<1> SUFFICES ASSUME Nat \ S # {}
             PROVE  FALSE
    OBVIOUS
<1>1. PICK n \in Nat \ S : \A m \in Nat \ S : n <= m
    BY LeastNumber
<1>2. n # 0 /\ n - 1 \in Nat
    OBVIOUS
<1>3. n - 1 \in S
    BY <1>1, <1>2
<1>4. (n - 1) + 1 = n
    BY <1>2
<1> QED
    BY <1>2, <1>3, <1>4

\* The recursive function in FlattenSeq exists.
LEMMA FlattenExists ==
    ASSUME NEW seqs, NEW N \in Nat
    PROVE  \E f : f = [i \in 1 .. N |-> IF i = 1 THEN seqs[i] ELSE f[i - 1] \o seqs[i]]
<1> DEFINE Is(f, n) == f = [i \in 1 .. n |-> IF i = 1 THEN seqs[i] ELSE f[i - 1] \o seqs[i]]
           T == {n \in Nat : \E f : Is(f, n)}
<1>1. 0 \in T
  <2>1. [i \in 1 .. 0 |-> seqs[i]] = [i \in 1 .. 0 |-> IF i = 1 THEN seqs[i]
                                ELSE [j \in 1 .. 0 |-> seqs[j]][i - 1] \o seqs[i]]
      OBVIOUS
  <2>2. Is([i \in 1 .. 0 |-> seqs[i]], 0)
      BY <2>1
  <2> QED
      BY <2>2
<1>2. ASSUME NEW n \in Nat, n \in T
      PROVE  n + 1 \in T
  <2>1. PICK f : Is(f, n)
      BY <1>2
  <2> DEFINE last == IF n = 0 THEN seqs[1] ELSE f[n] \o seqs[n + 1]
             g == [i \in 1 .. n + 1 |-> IF i = n + 1 THEN last ELSE f[i]]
  <2>2. ASSUME NEW i \in 1 .. n + 1
        PROVE  g[i] = IF i = 1 THEN seqs[i] ELSE g[i - 1] \o seqs[i]
    <3>1. CASE i = n + 1
        BY <3>1
    <3>2. CASE i # n + 1
      <4>1. i \in 1 .. n /\ g[i] = f[i]
          BY <3>2
      <4>2. f[i] = IF i = 1 THEN seqs[i] ELSE f[i - 1] \o seqs[i]
          BY <2>1, <4>1
      <4>3. i # 1 => i - 1 \in 1 .. n /\ g[i - 1] = f[i - 1]
          BY <4>1
      <4> QED
          BY <4>1, <4>2, <4>3
    <3> QED
        BY <3>1, <3>2
  <2>3. g = [i \in 1 .. n + 1 |-> g[i]]
      OBVIOUS
  <2> HIDE DEF g
  <2>4. Is(g, n + 1)
      BY <2>2, <2>3
  <2> HIDE DEF Is
  <2>5. \E h : Is(h, n + 1)
      BY <2>4
  <2>6. n + 1 \in Nat
      OBVIOUS
  <2> QED
      BY <2>5, <2>6
<1> HIDE DEF T
<1>3. N \in T
    BY <1>1, <1>2, SetInduction
<1> QED
    BY <1>3 DEF T

\* What it computes.
LEMMA FlattenComputes ==
    ASSUME NEW seqs, Len(seqs) \in Nat, Len(seqs) # 0
    PROVE  \E f : /\ f = [i \in 1 .. Len(seqs) |-> IF i = 1 THEN seqs[i] ELSE f[i - 1] \o seqs[i]]
                  /\ FlattenSeq(seqs) = f[Len(seqs)]
<1> DEFINE flatten[i \in 1 .. Len(seqs)] ==
               IF i = 1 THEN seqs[i] ELSE flatten[i - 1] \o seqs[i]
<1>1. FlattenSeq(seqs) = flatten[Len(seqs)]
    BY DEF FlattenSeq
<1>2. flatten = [i \in 1 .. Len(seqs) |-> IF i = 1 THEN seqs[i] ELSE flatten[i - 1] \o seqs[i]]
    BY FlattenExists
<1> HIDE DEF flatten
<1> QED
    BY <1>1, <1>2

\* No sequences put together are the empty one.
LEMMA FlattenEmpty == FlattenSeq(<<>>) = <<>>
BY DEF FlattenSeq

\* The same with the types a caller has.
LEMMA FlattenSteps ==
    ASSUME NEW S, NEW seqs \in Seq(Seq(S)), Len(seqs) # 0
    PROVE  \E f : /\ f[1] = seqs[1]
                  /\ \A n \in Nat : n # 0 /\ n + 1 \in 1 .. Len(seqs) => f[n + 1] = f[n] \o seqs[n + 1]
                  /\ FlattenSeq(seqs) = f[Len(seqs)]
<1>1. Len(seqs) \in Nat
    OBVIOUS
<1>2. PICK f : /\ f = [i \in 1 .. Len(seqs) |-> IF i = 1 THEN seqs[i] ELSE f[i - 1] \o seqs[i]]
               /\ FlattenSeq(seqs) = f[Len(seqs)]
    BY <1>1, FlattenComputes
<1>3. 1 \in 1 .. Len(seqs)
    BY <1>1
<1>4. f[1] = seqs[1]
    BY <1>2, <1>3
<1>5. ASSUME NEW n \in Nat, n # 0, n + 1 \in 1 .. Len(seqs)
      PROVE  f[n + 1] = f[n] \o seqs[n + 1]
  <2>1. f[n + 1] = IF n + 1 = 1 THEN seqs[n + 1] ELSE f[(n + 1) - 1] \o seqs[n + 1]
      BY <1>2, <1>5
  <2>2. n + 1 # 1 /\ (n + 1) - 1 = n
      BY <1>5
  <2> QED
      BY <2>1, <2>2
<1> QED
    BY <1>2, <1>4, <1>5

\* Sequences of elements of S put together are a sequence of elements of S.
LEMMA FlattenType ==
    ASSUME NEW S, NEW seqs \in Seq(Seq(S))
    PROVE  FlattenSeq(seqs) \in Seq(S)
<1>0. Len(seqs) \in Nat
    OBVIOUS
<1>1. CASE Len(seqs) = 0
  <2>1. FlattenSeq(seqs) = seqs /\ seqs = <<>>
      BY <1>1 DEF FlattenSeq
  <2> QED
      BY <2>1
<1>2. CASE Len(seqs) # 0
  <2>1. PICK f : /\ f[1] = seqs[1]
                 /\ \A n \in Nat : n # 0 /\ n + 1 \in 1 .. Len(seqs) =>
                                      f[n + 1] = f[n] \o seqs[n + 1]
                 /\ FlattenSeq(seqs) = f[Len(seqs)]
      BY <1>2, FlattenSteps
  <2> DEFINE T == {n \in Nat : n \in 1 .. Len(seqs) => f[n] \in Seq(S)}
  <2>2. 0 \in T
      OBVIOUS
  <2>3. ASSUME NEW n \in Nat, n \in T
        PROVE  n + 1 \in T
    <3>1. CASE n + 1 \in 1 .. Len(seqs)
      <4>1. seqs[n + 1] \in Seq(S)
          BY <3>1
      <4>2. CASE n = 0
          BY <2>1, <4>1, <4>2
      <4>3. CASE n # 0
        <5>1. n \in 1 .. Len(seqs)
            BY <1>0, <3>1, <4>3
        <5>2. f[n] \in Seq(S) /\ f[n + 1] = f[n] \o seqs[n + 1]
            BY <2>1, <2>3, <3>1, <4>3, <5>1
        <5>3. \A a, b \in Seq(S) : a \o b \in Seq(S)
            OBVIOUS
        <5>4. f[n + 1] \in Seq(S)
            BY <4>1, <5>2, <5>3
        <5> QED
            BY <5>4
      <4> QED
          BY <4>2, <4>3
    <3> QED
        BY <3>1
  <2> HIDE DEF T
  <2>4. Len(seqs) \in T
      BY <1>0, <2>2, <2>3, SetInduction
  <2>5. Len(seqs) \in 1 .. Len(seqs)
      BY <1>0, <1>2
  <2> QED
      BY <2>1, <2>4, <2>5 DEF T
<1> QED
    BY <1>1, <1>2

\* One more sequence at the end puts its elements at the end.
LEMMA FlattenAppend ==
    ASSUME NEW S, NEW seqs \in Seq(Seq(S)), NEW t \in Seq(S)
    PROVE  FlattenSeq(Append(seqs, t)) = FlattenSeq(seqs) \o t
<1>0. Len(seqs) \in Nat
    OBVIOUS
<1>1. PICK more : more = Append(seqs, t)
    OBVIOUS
<1>2. /\ more \in Seq(Seq(S)) /\ Len(more) = Len(seqs) + 1 /\ more[Len(seqs) + 1] = t
      /\ \A i \in 1 .. Len(seqs) : more[i] = seqs[i]
    BY <1>1
<1>3. Len(more) # 0
    BY <1>0, <1>2
<1>4. PICK g : /\ g[1] = more[1]
               /\ \A n \in Nat : n # 0 /\ n + 1 \in 1 .. Len(more) => g[n + 1] = g[n] \o more[n + 1]
               /\ FlattenSeq(more) = g[Len(more)]
    BY <1>2, <1>3, FlattenSteps
<1>5. CASE Len(seqs) = 0
  <2>1. FlattenSeq(seqs) = seqs /\ seqs = <<>>
      BY <1>5 DEF FlattenSeq
  <2>2. FlattenSeq(more) = t
      BY <1>2, <1>4, <1>5
  <2>3. <<>> \o t = t
      OBVIOUS
  <2> QED
      BY <1>1, <2>1, <2>2, <2>3
<1>6. CASE Len(seqs) # 0
  <2>1. PICK f : /\ f[1] = seqs[1]
                 /\ \A n \in Nat : n # 0 /\ n + 1 \in 1 .. Len(seqs) =>
                                      f[n + 1] = f[n] \o seqs[n + 1]
                 /\ FlattenSeq(seqs) = f[Len(seqs)]
      BY <1>6, FlattenSteps
  <2> DEFINE T == {n \in Nat : n \in 1 .. Len(seqs) => f[n] = g[n]}
  <2>2. 0 \in T
      OBVIOUS
  <2>3. ASSUME NEW n \in Nat, n \in T
        PROVE  n + 1 \in T
    <3>1. CASE n + 1 \in 1 .. Len(seqs)
      <4>1. n + 1 \in 1 .. Len(more) /\ more[n + 1] = seqs[n + 1]
          BY <1>0, <1>2, <3>1
      <4>2. CASE n = 0
          BY <1>4, <2>1, <4>1, <4>2
      <4>3. CASE n # 0
        <5>1. f[n] = g[n]
            BY <1>0, <2>3, <3>1, <4>3
        <5>2. f[n + 1] = f[n] \o seqs[n + 1]
            BY <2>1, <3>1, <4>3
        <5>3. g[n + 1] = g[n] \o more[n + 1]
            BY <1>4, <4>1, <4>3
        <5>4. f[n + 1] = g[n + 1]
            BY <4>1, <5>1, <5>2, <5>3
        <5> QED
            BY <5>4
      <4> QED
          BY <4>2, <4>3
    <3> QED
        BY <3>1
  <2> HIDE DEF T
  <2>4. Len(seqs) \in T
      BY <1>0, <2>2, <2>3, SetInduction
  <2>5. f[Len(seqs)] = g[Len(seqs)]
      BY <1>0, <1>6, <2>4 DEF T
  <2>6. Len(seqs) + 1 \in 1 .. Len(more)
      BY <1>0, <1>2
  <2>7. g[Len(more)] = g[Len(seqs)] \o t
      BY <1>0, <1>2, <1>4, <1>6, <2>6
  <2> QED
      BY <1>1, <1>4, <2>1, <2>5, <2>7
<1> QED
    BY <1>5, <1>6

\* Induction over sequences: a set that has the empty one and with each sequence
\* every longer one has them all.
LEMMA SequenceInduction ==
    ASSUME NEW X, NEW S, <<>> \in S, \A s \in Seq(X), e \in X : s \in S => Append(s, e) \in S
    PROVE  \A s \in Seq(X) : s \in S
<1> DEFINE T == {n \in Nat : \A s \in Seq(X) : Len(s) = n => s \in S}
<1>1. 0 \in T
    OBVIOUS
<1>2. ASSUME NEW n \in Nat, n \in T
      PROVE  n + 1 \in T
  <2>1. ASSUME NEW s \in Seq(X), Len(s) = n + 1
        PROVE  s \in S
    <3>1. s # <<>>
        BY <2>1
    <3>2. PICK r \in Seq(X), e \in X : s = Append(r, e)
        BY <3>1, SequenceEmptyOrAppend
    <3>3. Len(r) = n
        BY <2>1, <3>2
    <3>4. r \in S
        BY <1>2, <3>3
    <3> QED
        BY <3>2, <3>4
  <2> QED
      BY <2>1
<1> HIDE DEF T
<1>3. \A n \in Nat : n \in T
    BY <1>1, <1>2, SetInduction
<1>4. ASSUME NEW s \in Seq(X)
      PROVE  s \in S
  <2>1. Len(s) \in T
      BY <1>3
  <2> QED
      BY <2>1 DEF T
<1> QED
    BY <1>4

\* Two lists of sequences are put together one after the other.
LEMMA FlattenConcat ==
    ASSUME NEW S, NEW a \in Seq(Seq(S)), NEW b \in Seq(Seq(S))
    PROVE  FlattenSeq(a \o b) = FlattenSeq(a) \o FlattenSeq(b)
<1> DEFINE T == {s \in Seq(Seq(S)) : FlattenSeq(a \o s) = FlattenSeq(a) \o FlattenSeq(s)}
<1>0. FlattenSeq(a) \in Seq(S)
    BY FlattenType
<1>1. <<>> \in T
  <2>1. a \o <<>> = a /\ FlattenSeq(a) \o <<>> = FlattenSeq(a) /\ <<>> \in Seq(Seq(S))
      BY <1>0, ConcatEmptySeq
  <2> QED
      BY <2>1, FlattenEmpty
<1>2. ASSUME NEW s \in Seq(Seq(S)), NEW e \in Seq(S), s \in T
      PROVE  Append(s, e) \in T
  <2>1. a \o Append(s, e) = Append(a \o s, e) /\ a \o s \in Seq(Seq(S))
      OBVIOUS
  <2>2. FlattenSeq(a \o Append(s, e)) = FlattenSeq(a \o s) \o e
      BY <2>1, FlattenAppend
  <2>3. FlattenSeq(Append(s, e)) = FlattenSeq(s) \o e /\ FlattenSeq(s) \in Seq(S)
      BY FlattenAppend, FlattenType
  <2>4. FlattenSeq(a \o s) = FlattenSeq(a) \o FlattenSeq(s)
      BY <1>2
  <2>5. (FlattenSeq(a) \o FlattenSeq(s)) \o e = FlattenSeq(a) \o (FlattenSeq(s) \o e)
    <3>1. PICK x \in Seq(S) : x = FlattenSeq(a)
        BY <1>0, Zenon
    <3>2. PICK y \in Seq(S) : y = FlattenSeq(s)
        BY <2>3, Zenon
    <3>3. (x \o y) \o e = x \o (y \o e)
        BY <1>2, ConcatAssociative, SMTT(20)
    <3> QED
        BY <3>1, <3>2, <3>3, Zenon
  <2>6. FlattenSeq(a \o Append(s, e)) = FlattenSeq(a) \o FlattenSeq(Append(s, e))
      BY <2>2, <2>3, <2>4, <2>5
  <2>7. Append(s, e) \in Seq(Seq(S))
      OBVIOUS
  <2> QED
      BY <2>6, <2>7
<1> HIDE DEF T
<1>3. b \in T
    BY <1>1, <1>2, SequenceInduction
<1> QED
    BY <1>3 DEF T

\* One sequence put together is itself.
LEMMA FlattenSingle ==
    ASSUME NEW S, NEW t \in Seq(S)
    PROVE  FlattenSeq(<<t>>) = t
<1>1. <<>> \in Seq(Seq(S)) /\ <<t>> = Append(<<>>, t) /\ <<>> \o t = t
    OBVIOUS
<1> QED
    BY <1>1, FlattenAppend, FlattenEmpty

\* Nothing put together is nothing.
LEMMA FlattenNothing ==
    ASSUME NEW seqs \in Seq({<<>>})
    PROVE  FlattenSeq(seqs) = <<>>
<1> DEFINE T == {s \in Seq({<<>>}) : FlattenSeq(s) = <<>>}
<1>0. <<>> \in Seq({}) /\ Seq({<<>>}) \subseteq Seq(Seq({})) /\ <<>> \o <<>> = <<>>
  <2>1. <<>> \in Seq({}) /\ <<>> \o <<>> = <<>>
      OBVIOUS
  <2>2. Seq({<<>>}) \subseteq Seq(Seq({}))
      BY <2>1, SeqMonotonic
  <2> QED
      BY <2>1, <2>2
<1>1. <<>> \in T
    BY FlattenEmpty
<1>2. ASSUME NEW s \in Seq({<<>>}), NEW e \in {<<>>}, s \in T
      PROVE  Append(s, e) \in T
  <2>1. FlattenSeq(Append(s, e)) = FlattenSeq(s) \o e
      BY <1>0, FlattenAppend
  <2> QED
      BY <1>0, <1>2, <2>1
<1> HIDE DEF T
<1>3. seqs \in T
    BY <1>1, <1>2, SequenceInduction
<1> QED
    BY <1>3 DEF T

-----------------------------------------------------------------------------
(***************************************************************************)
(* Selected.                                                               *)
(***************************************************************************)
\* A list of one element.
LEMMA SingletonType ==
    ASSUME NEW X, NEW x \in X
    PROVE  <<x>> \in Seq(X)
OBVIOUS

\* The pieces of a selection.
LEMMA SelectedPieces ==
    ASSUME NEW T, NEW s \in Seq(T), NEW S
    PROVE  [i \in DOMAIN s |-> IF s[i] \in S THEN <<s[i]>> ELSE <<>>] \in Seq(Seq(T \cap S))
<1>1. DOMAIN s = 1 .. Len(s) /\ Len(s) \in Nat
    OBVIOUS
<1>2. ASSUME NEW i \in DOMAIN s
      PROVE  (IF s[i] \in S THEN <<s[i]>> ELSE <<>>) \in Seq(T \cap S)
  <2>1. s[i] \in T
      OBVIOUS
  <2>2. s[i] \in S => <<s[i]>> \in Seq(T \cap S)
      BY <2>1, SingletonType
  <2>3. <<>> \in Seq(T \cap S)
      OBVIOUS
  <2> QED
      BY <2>2, <2>3, Zenon
<1>3. \A X : \A n \in Nat : \A f \in [1 .. n -> X] : f \in Seq(X)
    BY SeqDef
<1>4. [i \in DOMAIN s |-> IF s[i] \in S THEN <<s[i]>> ELSE <<>>] \in [1 .. Len(s) -> Seq(T \cap S)]
    BY <1>1, <1>2
<1> QED
    BY <1>1, <1>3, <1>4, Zenon

\* What is selected is in the list and in the set.
LEMMA SelectedType ==
    ASSUME NEW T, NEW s \in Seq(T), NEW S
    PROVE  Selected(s, S) \in Seq(T \cap S)
<1>1. [i \in DOMAIN s |-> IF s[i] \in S THEN <<s[i]>> ELSE <<>>] \in Seq(Seq(T \cap S))
    BY SelectedPieces
<1> QED
    BY <1>1, FlattenType DEF Selected

\* Nothing is selected from nothing.
LEMMA SelectedEmpty ==
    ASSUME NEW S
    PROVE  Selected(<<>>, S) = <<>>
<1>1. [i \in DOMAIN <<>> |-> IF <<>>[i] \in S THEN <<<<>>[i]>> ELSE <<>>] = <<>>
    OBVIOUS
<1> QED
    BY <1>1, FlattenEmpty DEF Selected

\* An element at the end of the list is at the end of the selection, or not in it.
LEMMA SelectedAppend ==
    ASSUME NEW T, NEW s \in Seq(T), NEW e \in T, NEW S
    PROVE  Selected(Append(s, e), S) = Selected(s, S) \o (IF e \in S THEN <<e>> ELSE <<>>)
<1> DEFINE P(l) == [i \in DOMAIN l |-> IF l[i] \in S THEN <<l[i]>> ELSE <<>>]
<1>1. P(s) \in Seq(Seq(T \cap S)) /\ Len(P(s)) = Len(s) /\ DOMAIN s = 1 .. Len(s) /\ Len(s) \in Nat
  <2>1. P(s) \in Seq(Seq(T \cap S))
      BY SelectedPieces
  <2>2. DOMAIN P(s) = DOMAIN s /\ DOMAIN s = 1 .. Len(s) /\ Len(s) \in Nat
      OBVIOUS
  <2>3. DOMAIN P(s) = 1 .. Len(P(s)) /\ Len(P(s)) \in Nat
      BY <2>1
  <2> HIDE DEF P
  <2>4. Len(P(s)) = Len(s)
      BY <2>2, <2>3
  <2> QED
      BY <2>1, <2>2, <2>4
<1>2. PICK more : more = Append(s, e)
    OBVIOUS
<1>3. /\ DOMAIN more = 1 .. Len(s) + 1 /\ more[Len(s) + 1] = e
      /\ \A i \in 1 .. Len(s) : more[i] = s[i]
    BY <1>1, <1>2
<1>4. PICK t : t = IF e \in S THEN <<e>> ELSE <<>>
    OBVIOUS
<1>5. t \in Seq(T \cap S)
  <2>1. e \in S => <<e>> \in Seq(T \cap S)
      BY SingletonType
  <2>2. <<>> \in Seq(T \cap S)
      OBVIOUS
  <2> QED
      BY <1>4, <2>1, <2>2, Zenon
<1>6. PICK a : a = Append(P(s), t)
    OBVIOUS
<1>7. P(more) = a
  <2>1. a \in Seq(Seq(T \cap S)) /\ Len(a) = Len(s) + 1 /\ a[Len(s) + 1] = t
        /\ \A i \in 1 .. Len(s) : a[i] = P(s)[i]
    <3> HIDE DEF P
    <3> QED
        BY <1>1, <1>5, <1>6
  <2>2. DOMAIN a = 1 .. Len(s) + 1 /\ a = [i \in DOMAIN a |-> a[i]]
      BY <2>1
  <2>3. ASSUME NEW i \in 1 .. Len(s) + 1
        PROVE  a[i] = IF more[i] \in S THEN <<more[i]>> ELSE <<>>
    <3>1. CASE i = Len(s) + 1
        BY <1>3, <1>4, <2>1, <3>1
    <3>2. CASE i # Len(s) + 1
      <4>1. i \in 1 .. Len(s)
          BY <1>1, <3>2
      <4>2. a[i] = P(s)[i] /\ more[i] = s[i] /\ i \in DOMAIN s
          BY <1>1, <1>3, <2>1, <4>1
      <4> QED
          BY <4>2
    <3> QED
        BY <3>1, <3>2
  <2>4. a = [i \in 1 .. Len(s) + 1 |-> IF more[i] \in S THEN <<more[i]>> ELSE <<>>]
      BY <2>2, <2>3
  <2> QED
      BY <1>3, <2>4
<1>8. Selected(more, S) = FlattenSeq(P(more)) /\ Selected(s, S) = FlattenSeq(P(s))
    BY DEF Selected
<1> HIDE DEF P
<1>9. FlattenSeq(a) = FlattenSeq(P(s)) \o t
    BY <1>1, <1>5, <1>6, FlattenAppend
<1> QED
    BY <1>2, <1>4, <1>7, <1>8, <1>9

\* A list without duplicates has none in a selection.
LEMMA SelectedInjective ==
    ASSUME NEW T, NEW s \in Seq(T), NEW S, \A i, j \in DOMAIN s : s[i] = s[j] => i = j
    PROVE  \A i, j \in DOMAIN Selected(s, S) : Selected(s, S)[i] = Selected(s, S)[j] => i = j
<1> DEFINE Inj(l) == \A i, j \in DOMAIN l : l[i] = l[j] => i = j
           Good == {l \in Seq(T) : Inj(l) => Inj(Selected(l, S))}
<1>1. <<>> \in Good
  <2>1. Selected(<<>>, S) = <<>>
      BY SelectedEmpty
  <2> QED
      BY <2>1
<1>2. ASSUME NEW l \in Seq(T), NEW e \in T, l \in Good
      PROVE  Append(l, e) \in Good
  <2>1. PICK more : more = Append(l, e)
      OBVIOUS
  <2>2. /\ DOMAIN l = 1 .. Len(l) /\ Len(l) \in Nat /\ DOMAIN more = 1 .. Len(l) + 1
        /\ more \in Seq(T) /\ more[Len(l) + 1] = e /\ \A i \in 1 .. Len(l) : more[i] = l[i]
      BY <2>1
  <2>3. SUFFICES ASSUME Inj(more)
                 PROVE  Inj(Selected(more, S))
      BY <2>1, <2>2
  <2>4. Inj(l) /\ \A i \in DOMAIN l : l[i] # e
    <3>1. ASSUME NEW i \in DOMAIN l, NEW j \in DOMAIN l, l[i] = l[j]
          PROVE  i = j
        BY <2>2, <2>3, <3>1
    <3>2. ASSUME NEW i \in DOMAIN l, l[i] = e
          PROVE  FALSE
      <4>1. i \in DOMAIN more /\ Len(l) + 1 \in DOMAIN more /\ i # Len(l) + 1
          BY <2>2
      <4> QED
          BY <2>2, <2>3, <3>2, <4>1
    <3> QED
        BY <3>1, <3>2
  <2>5. Inj(Selected(l, S))
      BY <1>2, <2>4
  <2>6. PICK b : b = Selected(l, S)
      OBVIOUS
  <2>7. b \in Seq(T \cap S) /\ Selected(more, S) = b \o (IF e \in S THEN <<e>> ELSE <<>>)
      BY <2>1, <2>6, SelectedType, SelectedAppend
  <2>8. \A i \in DOMAIN b : b[i] # e
    <3>1. PICK X : X = {l[i] : i \in DOMAIN l}
        OBVIOUS
    <3>2. l \in Seq(X)
        BY <2>2, <3>1
    <3>3. b \in Seq(X \cap S)
        BY <2>6, <3>2, SelectedType
    <3>4. \A x \in X : x # e
        BY <2>4, <3>1
    <3> QED
        BY <3>3, <3>4
  <2>9. CASE e \notin S
    <3>1. b \o <<>> = b
        BY <2>7
    <3> QED
        BY <2>5, <2>6, <2>7, <2>9, <3>1
  <2>10. CASE e \in S
    <3>1. PICK c : c = b \o <<e>>
        OBVIOUS
    <3>2. /\ DOMAIN b = 1 .. Len(b) /\ Len(b) \in Nat /\ DOMAIN c = 1 .. Len(b) + 1
          /\ c[Len(b) + 1] = e /\ \A i \in 1 .. Len(b) : c[i] = b[i]
        BY <2>7, <3>1
    <3>3. Inj(b)
        BY <2>5, <2>6
    <3>4. Inj(c)
        BY <2>8, <3>2, <3>3
    <3> QED
        BY <2>7, <2>10, <3>1, <3>4
  <2> QED
      BY <2>9, <2>10
<1> HIDE DEF Good
<1>3. s \in Good
    BY <1>1, <1>2, SequenceInduction
<1> QED
    BY <1>3 DEF Good

-----------------------------------------------------------------------------
\* A list of numbers has a largest one.
LEMMA LargestElement ==
    ASSUME NEW s \in Seq(Nat), s # <<>>
    PROVE  \E i \in DOMAIN s : \A j \in DOMAIN s : s[j] <= s[i]
<1> DEFINE T == {l \in Seq(Nat) : l # <<>> => \E i \in DOMAIN l : \A j \in DOMAIN l : l[j] <= l[i]}
<1>1. <<>> \in T
    OBVIOUS
<1>2. ASSUME NEW l \in Seq(Nat), NEW e \in Nat, l \in T
      PROVE  Append(l, e) \in T
  <2>1. PICK more : more = Append(l, e)
      OBVIOUS
  <2>2. /\ more \in Seq(Nat) /\ DOMAIN l = 1 .. Len(l) /\ Len(l) \in Nat
        /\ DOMAIN more = 1 .. Len(l) + 1 /\ more[Len(l) + 1] = e
        /\ \A i \in 1 .. Len(l) : more[i] = l[i] /\ l[i] \in Nat
      BY <2>1
  <2>3. Len(l) + 1 \in DOMAIN more
      BY <2>2
  <2>4. CASE l = <<>>
    <3>1. \A j \in DOMAIN more : more[j] <= more[Len(l) + 1]
        BY <2>2, <2>4
    <3> QED
        BY <2>1, <2>2, <2>3, <3>1
  <2>5. CASE l # <<>>
    <3>1. PICK i \in DOMAIN l : \A j \in DOMAIN l : l[j] <= l[i]
        BY <1>2, <2>5
    <3>2. i \in DOMAIN more /\ more[i] = l[i] /\ l[i] \in Nat
        BY <2>2
    <3>3. \A j \in DOMAIN more : more[j] = e \/ (more[j] \in Nat /\ more[j] <= l[i])
      <4>1. ASSUME NEW j \in DOMAIN more, j # Len(l) + 1
            PROVE  more[j] \in Nat /\ more[j] <= l[i]
        <5>1. j \in DOMAIN l /\ j \in 1 .. Len(l)
            BY <2>2, <4>1
        <5>2. l[j] <= l[i] /\ more[j] = l[j] /\ l[j] \in Nat
            BY <2>2, <3>1, <5>1
        <5> QED
            BY <5>2
      <4> QED
          BY <2>2, <4>1
    <3>4. CASE e <= l[i]
      <4>1. \A j \in DOMAIN more : more[j] <= more[i]
          BY <3>2, <3>3, <3>4
      <4> QED
          BY <2>1, <2>2, <3>2, <4>1
    <3>5. CASE ~ (e <= l[i])
      <4>1. \A j \in DOMAIN more : more[j] <= more[Len(l) + 1]
        <5>1. more[Len(l) + 1] = e
            BY <2>2
        <5>2. ASSUME NEW j \in DOMAIN more
              PROVE  more[j] <= e
          <6>1. more[j] = e \/ (more[j] \in Nat /\ more[j] <= l[i])
              BY <3>3, Zenon
          <6>2. \A x, y, z \in Nat : x <= y /\ ~ (z <= y) => x <= z
              OBVIOUS
          <6>3. e <= e
              OBVIOUS
          <6> QED
              BY <3>2, <3>5, <6>1, <6>2, <6>3, Zenon
        <5> QED
            BY <5>1, <5>2
      <4> QED
          BY <2>1, <2>2, <2>3, <4>1
    <3> QED
        BY <3>4, <3>5
  <2> QED
      BY <2>4, <2>5
<1> HIDE DEF T
<1>3. s \in T
    BY <1>1, <1>2, SequenceInduction
<1> QED
    BY <1>3 DEF T

\* A sequence by its first element and the others.
LEMMA FirstAndRest ==
    ASSUME NEW X, NEW e \in X, NEW q \in Seq(X), NEW r \in Seq(X), Len(r) = Len(q) + 1,
           r[1] = e, \A i \in 1 .. Len(q) : r[i + 1] = q[i]
    PROVE  r = <<e>> \o q
<1>1. Len(q) \in Nat /\ DOMAIN r = 1 .. Len(r) /\ <<e>> \in Seq(X) /\ Len(<<e>>) = 1 /\ <<e>>[1] = e
    OBVIOUS
<1>2. <<e>> \o q \in Seq(X) /\ Len(<<e>> \o q) = Len(q) + 1
    BY <1>1
<1>3. ASSUME NEW i \in 1 .. Len(q) + 1
      PROVE  r[i] = (<<e>> \o q)[i]
  <2>1. CASE i = 1
      BY <1>1, <2>1
  <2>2. CASE i # 1
    <3>1. i - 1 \in 1 .. Len(q) /\ (i - 1) + 1 = i
        BY <1>1, <2>2
    <3>2. r[i] = q[i - 1]
        BY <3>1
    <3>3. (<<e>> \o q)[i] = q[i - 1]
        BY <1>1, <3>1, <2>2
    <3> QED
        BY <3>2, <3>3
  <2> QED
      BY <2>1, <2>2
<1>4. PICK t \in Seq(X) : t = <<e>> \o q
    BY <1>2
<1>5. Len(t) = Len(r) /\ \A i \in 1 .. Len(r) : r[i] = t[i]
    BY <1>2, <1>3, <1>4
<1> QED
    BY <1>4, <1>5, SeqEqual
=============================================================================

-------------------------- MODULE SpeechTextProofs --------------------------
(***************************************************************************)
(* What the text operators of SpeechText compute, for every text.  Each is *)
(* a fold over the text, of which a lemma says what one more character     *)
(* adds (NfcSteps, CleanSteps, SplitSteps, JoinSteps, FlattenSteps).  What *)
(* holds of all texts then follows by induction on the set of those it     *)
(* holds of: no theorem has an operator as its parameter.                  *)
(***************************************************************************)
EXTENDS SpeechText, SequenceTheorems, WellFoundedInduction, TLAPS
-----------------------------------------------------------------------------
(* Induction, stated for sets.                                             *)

\* A set of naturals with 0 and every successor is that of all naturals.
LEMMA NatSetInduction ==
  ASSUME NEW A, A \subseteq Nat, 0 \in A, \A n \in A : n + 1 \in A
  PROVE  A = Nat
<1> DEFINE T == Nat \ A
           R == OpToRel(<, Nat)
<1>1. SUFFICES ASSUME T # {} PROVE FALSE
  OBVIOUS
<1>2. IsWellFoundedOn(R, Nat) /\ T \subseteq Nat
  BY NatLessThanWellFounded
<1>3. PICK x \in T : \A y \in T : ~ (<<y, x>> \in R)
  <2> HIDE DEF R, T
  <2> QED
    BY <1>1, <1>2, WFMin
<1>4. \A y \in T : ~ (y < x)
  BY <1>3 DEF OpToRel
<1>5. x \in Nat /\ x # 0 /\ x - 1 \in Nat /\ x - 1 < x
  OBVIOUS
<1>6. x - 1 \in A
  BY <1>4, <1>5
<1>7. (x - 1) + 1 \in A
  BY <1>6
<1> QED
  BY <1>5, <1>7

\* A set of sequences with the empty one, and with every sequence one longer
\* than one in it, is that of all sequences.
LEMMA SeqSetInduction ==
  ASSUME NEW S, NEW A, A \subseteq Seq(S), <<>> \in A,
         \A t \in A, c \in S : Append(t, c) \in A
  PROVE  A = Seq(S)
<1> DEFINE B == {n \in Nat : \A t \in Seq(S) : Len(t) = n => t \in A}
<1>1. 0 \in B
  <2>1. \A t \in Seq(S) : Len(t) = 0 => t = <<>>
    BY EmptySeq
  <2> QED
    BY <2>1
<1>2. ASSUME NEW n \in B PROVE n + 1 \in B
  <2>1. ASSUME NEW t \in Seq(S), Len(t) = n + 1 PROVE t \in A
    <3>1. t # <<>>
      BY <2>1
    <3>2. PICK s \in Seq(S), e \in S : t = Append(s, e)
      BY <3>1, SequenceEmptyOrAppend
    <3>3. Len(s) = n
      BY <2>1, <3>2
    <3> QED
      BY <3>2, <3>3
  <2> QED
    BY <2>1
<1>3. B = Nat
  <2>1. B \subseteq Nat
    OBVIOUS
  <2> HIDE DEF B
  <2> QED
    BY <1>1, <1>2, <2>1, NatSetInduction
<1>4. \A t \in Seq(S) : Len(t) \in B
  BY <1>3
<1> QED
  BY <1>4
-----------------------------------------------------------------------------
(* Folds over a sequence of n elements, with the elements of T as results. *)

\* The subsets of the first numbers.
LEMMA IndexSets ==
  /\ \A s \in SUBSET (1..0) : s = {}
  /\ \A k \in Nat : \A s \in SUBSET (1..(k + 1)) :
       /\ s \ {k + 1} \in SUBSET (1..k)
       /\ k + 1 \notin s => s \in SUBSET (1..k)
<1>1. 1..0 = {}
  OBVIOUS
<1>2. ASSUME NEW k \in Nat
      PROVE  \A i \in 1..(k + 1) : i # k + 1 => i \in 1..k
  OBVIOUS
<1>3. ASSUME NEW k \in Nat, NEW s \in SUBSET (1..(k + 1))
      PROVE  /\ s \ {k + 1} \in SUBSET (1..k)
             /\ k + 1 \notin s => s \in SUBSET (1..k)
  BY <1>2
<1> QED
  BY <1>1, <1>3

\* The last of some of the first n numbers.
LEMMA LastOfSome ==
  ASSUME NEW n \in Nat
  PROVE  \A s \in SUBSET (1..n) : s # {} => /\ Max(s) \in s
                                           /\ \A i \in s : i <= Max(s)
<1> DEFINE A == {k \in Nat : \A s \in SUBSET (1..k) :
                    s # {} => \E x \in s : \A i \in s : x >= i}
<1>1. 0 \in A
  BY IndexSets
<1>2. ASSUME NEW k \in A PROVE k + 1 \in A
  <2>1. ASSUME NEW s \in SUBSET (1..(k + 1)), s # {}
        PROVE  \E x \in s : \A i \in s : x >= i
    <3>1. CASE k + 1 \in s
      BY <3>1
    <3>2. CASE k + 1 \notin s
      <4>1. s \in SUBSET (1..k)
        BY <3>2
      <4> QED
        BY <2>1, <4>1
    <3> QED
      BY <3>1, <3>2
  <2> QED
    BY <2>1
<1>3. A = Nat
  <2>1. A \subseteq Nat
    OBVIOUS
  <2> HIDE DEF A
  <2> QED
    BY <1>1, <1>2, <2>1, NatSetInduction
<1>4. ASSUME NEW s \in SUBSET (1..n), s # {}
      PROVE  Max(s) \in s /\ \A i \in s : i <= Max(s)
  <2>1. \E x \in s : \A i \in s : x >= i
    BY <1>3, <1>4
  <2>2. Max(s) \in s /\ \A i \in s : Max(s) >= i
    BY <2>1 DEF Max
  <2>3. s \subseteq Int
    OBVIOUS
  <2> QED
    BY <2>2, <2>3
<1> QED
  BY <1>4

\* A set of the first k + 1 numbers with k + 1 in it.
LEMMA LastIsNext ==
  ASSUME NEW k \in Nat, NEW s \in SUBSET (1..(k + 1)), k + 1 \in s
  PROVE  Max(s) = k + 1
<1>1. k + 1 \in Nat /\ s # {}
  OBVIOUS
<1>2. Max(s) \in s /\ k + 1 <= Max(s)
  BY <1>1, LastOfSome
<1>3. Max(s) \in 1..(k + 1)
  BY <1>2
<1> QED
  BY <1>2, <1>3

\* The results of a fold with g, for every set of indices.
Folded(it, n, base, g, seq) ==
  \A s \in SUBSET (1..n) :
    it[s] = IF s = {} THEN base ELSE g[it[s \ {Max(s)}]][seq[Max(s)]]

StepFns(S, T) == [T -> [S -> T]]
Results(T, n, base, g, seq) ==
  {it \in [SUBSET (1..n) -> T] : Folded(it, n, base, g, seq)}

\* There are such results.
LEMMA FoldExists ==
  ASSUME NEW S, NEW T, NEW base \in T, NEW g \in StepFns(S, T),
         NEW n \in Nat, NEW seq, \A i \in 1..n : seq[i] \in S
  PROVE  Results(T, n, base, g, seq) # {}
<1> DEFINE A == {k \in Nat : k <= n => Results(T, k, base, g, seq) # {}}
<1> USE DEF StepFns
<1>1. 0 \in A
  <2> DEFINE it == [s \in SUBSET (1..0) |-> base]
  <2>1. \A s \in SUBSET (1..0) : s = {}
    BY IndexSets
  <2>2. it \in [SUBSET (1..0) -> T]
    OBVIOUS
  <2>3. \A s \in SUBSET (1..0) : it[s] = base
    OBVIOUS
  <2> HIDE DEF it
  <2>4. Folded(it, 0, base, g, seq)
    BY <2>1, <2>3 DEF Folded
  <2> QED
    BY <2>2, <2>4 DEF Results
<1>2. ASSUME NEW k \in A PROVE k + 1 \in A
  <2>0. k \in Nat
    OBVIOUS
  <2>1. SUFFICES ASSUME k + 1 <= n PROVE Results(T, k + 1, base, g, seq) # {}
    OBVIOUS
  <2>2. PICK old \in [SUBSET (1..k) -> T] : Folded(old, k, base, g, seq)
    <3>1. Results(T, k, base, g, seq) # {}
      BY <2>1
    <3> QED
      BY <3>1 DEF Results
  <2> DEFINE it == [s \in SUBSET (1..(k + 1)) |->
                      IF k + 1 \in s THEN g[old[s \ {k + 1}]][seq[k + 1]]
                      ELSE old[s]]
  <2>3. \A s \in SUBSET (1..(k + 1)) : s \ {k + 1} \in SUBSET (1..k)
    BY <2>0, IndexSets
  <2>4. \A s \in SUBSET (1..(k + 1)) : k + 1 \notin s => s \in SUBSET (1..k)
    BY <2>0, IndexSets
  <2>5. seq[k + 1] \in S
    BY <2>1
  <2>6. it \in [SUBSET (1..(k + 1)) -> T]
    <3>1. ASSUME NEW s \in SUBSET (1..(k + 1)) PROVE it[s] \in T
      <4>1. CASE k + 1 \in s
        <5>1. old[s \ {k + 1}] \in T
          BY <2>3
        <5> QED
          BY <2>5, <4>1, <5>1
      <4>2. CASE k + 1 \notin s
        BY <2>4, <4>2
      <4> QED
        BY <4>1, <4>2
    <3> QED
      BY <3>1
  <2>7. ASSUME NEW s \in SUBSET (1..(k + 1))
        PROVE  it[s] = IF s = {} THEN base
                       ELSE g[it[s \ {Max(s)}]][seq[Max(s)]]
    <3>1. CASE k + 1 \in s
      <4>1. Max(s) = k + 1
        BY <2>0, <3>1, LastIsNext
      <4>2. it[s \ {k + 1}] = old[s \ {k + 1}]
        BY <2>3
      <4> QED
        BY <3>1, <4>1, <4>2
    <3>2. CASE k + 1 \notin s
      <4>1. s \in SUBSET (1..k) /\ it[s] = old[s]
        BY <2>4, <3>2
      <4>2. CASE s = {}
        BY <2>2, <4>1, <4>2 DEF Folded
      <4>3. CASE s # {}
        <5>1. s \ {Max(s)} \in SUBSET (1..k) /\ k + 1 \notin s \ {Max(s)}
          BY <3>2, <4>1
        <5>2. it[s \ {Max(s)}] = old[s \ {Max(s)}]
          BY <5>1
        <5> QED
          BY <2>2, <4>1, <4>3, <5>2 DEF Folded
      <4> QED
        BY <4>2, <4>3
    <3> QED
      BY <3>1, <3>2
  <2>8. Folded(it, k + 1, base, g, seq)
    <3> HIDE DEF it
    <3> QED
      BY <2>7 DEF Folded
  <2> HIDE DEF it
  <2> QED
    BY <2>6, <2>8 DEF Results
<1>3. A = Nat
  <2>1. A \subseteq Nat
    OBVIOUS
  <2> HIDE DEF A
  <2> QED
    BY <1>1, <1>2, <2>1, NatSetInduction
<1>4. Results(T, n, base, g, seq) # {}
  <2>1. n \in A
    BY <1>3
  <2> QED
    BY <2>1
<1> QED
  BY <1>4

\* Results that are in T whenever those of one index less are.
LEMMA FoldTyped ==
  ASSUME NEW T, NEW n \in Nat, NEW it, it[{}] \in T,
         \A s \in SUBSET (1..n) : s # {} /\ it[s \ {Max(s)}] \in T => it[s] \in T
  PROVE  \A s \in SUBSET (1..n) : it[s] \in T
<1> DEFINE A == {k \in Nat : k <= n => \A s \in SUBSET (1..k) : it[s] \in T}
<1>1. 0 \in A
  <2>1. \A s \in SUBSET (1..0) : s = {}
    BY IndexSets
  <2> QED
    BY <2>1
<1>2. ASSUME NEW k \in A PROVE k + 1 \in A
  <2>0. k \in Nat
    OBVIOUS
  <2>1. ASSUME k + 1 <= n, NEW s \in SUBSET (1..(k + 1)) PROVE it[s] \in T
    <3>1. CASE k + 1 \in s
      <4>1. Max(s) = k + 1
        BY <2>0, <3>1, LastIsNext
      <4>2. s \ {Max(s)} \in SUBSET (1..k)
        BY <4>1
      <4>3. it[s \ {Max(s)}] \in T
        BY <2>1, <4>2
      <4>4. s \in SUBSET (1..n)
        BY <2>1
      <4> QED
        BY <3>1, <4>3, <4>4
    <3>2. CASE k + 1 \notin s
      <4>1. s \in SUBSET (1..k)
        BY <3>2
      <4> QED
        BY <2>1, <4>1
    <3> QED
      BY <3>1, <3>2
  <2> QED
    BY <2>1
<1>3. A = Nat
  <2>1. A \subseteq Nat
    OBVIOUS
  <2> HIDE DEF A
  <2> QED
    BY <1>1, <1>2, <2>1, NatSetInduction
<1> QED
  BY <1>3

\* The results for indices depend on the elements there alone.
LEMMA FoldDetermined ==
  ASSUME NEW base, NEW g, NEW n \in Nat, NEW m \in Nat, n <= m,
         NEW seq, NEW longer, \A i \in 1..n : longer[i] = seq[i],
         NEW it, Folded(it, n, base, g, seq),
         NEW other, Folded(other, m, base, g, longer)
  PROVE  \A s \in SUBSET (1..n) : other[s] = it[s]
<1> DEFINE A == {k \in Nat : k <= n => \A s \in SUBSET (1..k) : other[s] = it[s]}
<1>1. 0 \in A
  <2>1. \A s \in SUBSET (1..0) : s = {}
    BY IndexSets
  <2>2. it[{}] = base /\ other[{}] = base
    BY DEF Folded
  <2> QED
    BY <2>1, <2>2
<1>2. ASSUME NEW k \in A PROVE k + 1 \in A
  <2>0. k \in Nat
    OBVIOUS
  <2>1. ASSUME k + 1 <= n, NEW s \in SUBSET (1..(k + 1)) PROVE other[s] = it[s]
    <3>1. CASE k + 1 \in s
      <4>1. Max(s) = k + 1
        BY <2>0, <3>1, LastIsNext
      <4>2. s \ {Max(s)} \in SUBSET (1..k)
        BY <4>1
      <4>3. other[s \ {Max(s)}] = it[s \ {Max(s)}]
        BY <2>1, <4>2
      <4>4. s \in SUBSET (1..n) /\ s \in SUBSET (1..m)
        BY <2>1
      <4>5. longer[Max(s)] = seq[Max(s)]
        BY <2>1, <4>1
      <4>6. it[s] = g[it[s \ {Max(s)}]][seq[Max(s)]]
        BY <3>1, <4>4 DEF Folded
      <4>7. other[s] = g[other[s \ {Max(s)}]][longer[Max(s)]]
        BY <3>1, <4>4 DEF Folded
      <4> QED
        BY <4>3, <4>5, <4>6, <4>7
    <3>2. CASE k + 1 \notin s
      <4>1. s \in SUBSET (1..k)
        BY <3>2
      <4> QED
        BY <2>1, <4>1
    <3> QED
      BY <3>1, <3>2
  <2> QED
    BY <2>1
<1>3. A = Nat
  <2>1. A \subseteq Nat
    OBVIOUS
  <2> HIDE DEF A
  <2> QED
    BY <1>1, <1>2, <2>1, NatSetInduction
<1> QED
  BY <1>3

\* A fold takes the last element after the others.
LEMMA FoldLastStep ==
  ASSUME NEW S, NEW base, NEW g, NEW seq \in Seq(S), NEW e \in S,
         NEW it, Folded(it, Len(seq), base, g, seq),
         NEW other, Folded(other, Len(seq) + 1, base, g, Append(seq, e))
  PROVE  other[1..(Len(seq) + 1)] = g[it[1..Len(seq)]][e]
<1> DEFINE n == Len(seq)
           s == 1..(n + 1)
<1>1. n \in Nat /\ \A i \in 1..n : Append(seq, e)[i] = seq[i]
  BY AppendProperties, LenProperties
<1>2. Append(seq, e)[n + 1] = e
  BY AppendProperties
<1>3. \A t \in SUBSET (1..n) : other[t] = it[t]
  <2>1. n \in Nat /\ n + 1 \in Nat /\ n <= n + 1
    BY <1>1
  <2> DEFINE m == n + 1
             longer == Append(seq, e)
  <2>2. /\ Folded(it, n, base, g, seq) /\ Folded(other, m, base, g, longer)
        /\ \A i \in 1..n : longer[i] = seq[i]
        /\ m \in Nat /\ n <= m
    BY <1>1, <2>1
  <2> HIDE DEF n, m, longer
  <2> QED
    BY <1>1, <2>2, FoldDetermined
<1>4. Max(s) = n + 1
  <2>1. n + 1 \in s /\ s \in SUBSET (1..(n + 1))
    BY <1>1
  <2> HIDE DEF s
  <2> QED
    BY <1>1, <2>1, LastIsNext
<1>5. s \ {n + 1} = 1..n
  BY <1>1
<1>6. other[s] = g[other[s \ {Max(s)}]][Append(seq, e)[Max(s)]]
  <2>1. n + 1 \in s /\ s \in SUBSET (1..(n + 1))
    BY <1>1
  <2> HIDE DEF s
  <2> QED
    BY <2>1 DEF Folded
<1> QED
  BY <1>2, <1>3, <1>4, <1>5, <1>6
-----------------------------------------------------------------------------
(* nfc, character by character.                                            *)

\* What the next character makes of the composed ones.
Composing(done, c) ==
  IF c = Mark /\ done # <<>> /\ Last(done) \in DOMAIN Composed
    THEN Append(Front(done), Composed[Last(done)])
  ELSE Append(done, c)
ComposeFn == [done \in Texts |-> [c \in Characters |-> Composing(done, c)]]
NfcResults(text) ==
  CHOOSE iter : iter = [s \in SUBSET DOMAIN text |->
    IF s = {} THEN <<>> ELSE Composing(iter[s \ {Max(s)}], text[Max(s)])]

LEMMA CharacterFacts ==
  /\ Characters = {"a", "aa", "A", "AA", "mark", "zero", "sp", "nl", "bell"}
  /\ DOMAIN Composed = {"a", "A"}
  /\ Composed["a"] = "aa" /\ Composed["A"] = "AA"
  /\ Mark = "mark" /\ Whitespace = {"sp", "nl"}
<1>1. Characters = {"a", "aa", "A", "AA", "mark", "zero", "sp", "nl", "bell"}
  BY DEF Characters, Lower, Upper, Mark, Removed, Whitespace, Control
<1> QED
  BY <1>1 DEF Composed, Mark, Whitespace

LEMMA ComposingTyped ==
  ASSUME NEW done \in Texts, NEW c \in Characters
  PROVE  Composing(done, c) \in Texts
<1>1. CASE c = Mark /\ done # <<>> /\ Last(done) \in DOMAIN Composed
  <2>1. Len(done) \in Nat \ {0}
    BY <1>1, EmptySeq DEF Texts
  <2>2. \A i \in 1..(Len(done) - 1) : done[i] \in Characters
    BY <2>1, ElementOfSeq DEF Texts
  <2>3. Front(done) \in Texts
    BY <2>1, <2>2, SubSeqProperties DEF Front, Texts
  <2>4. Composed[Last(done)] \in Characters
    BY <1>1, CharacterFacts
  <2> QED
    BY <1>1, <2>3, <2>4, AppendProperties DEF Composing, Texts
<1>2. CASE ~(c = Mark /\ done # <<>> /\ Last(done) \in DOMAIN Composed)
  BY <1>2, AppendProperties DEF Composing, Texts
<1> QED
  BY <1>1, <1>2

LEMMA NfcFolds ==
  ASSUME NEW text \in Texts
  PROVE  /\ Folded(NfcResults(text), Len(text), <<>>, ComposeFn, text)
         /\ nfc(text) = NfcResults(text)[1..Len(text)]
         /\ nfc(text) \in Texts
<1> DEFINE n == Len(text)
           it == NfcResults(text)
<1>1. n \in Nat /\ DOMAIN text = 1..n /\ \A i \in 1..n : text[i] \in Characters
  BY LenProperties, ElementOfSeq DEF Texts
<1>2. ComposeFn \in StepFns(Characters, Texts) /\ <<>> \in Texts
  BY ComposingTyped, EmptySeq DEF ComposeFn, Texts, StepFns
<1>3. \A d \in Texts, c \in Characters : ComposeFn[d][c] = Composing(d, c)
  BY DEF ComposeFn
<1>4. PICK f \in [SUBSET (1..n) -> Texts] : Folded(f, n, <<>>, ComposeFn, text)
  <2> DEFINE base == <<>>
  <2>1. base \in Texts
    BY <1>2
  <2> HIDE DEF n, base
  <2>2. Results(Texts, n, base, ComposeFn, text) # {}
    BY <1>1, <1>2, <2>1, FoldExists
  <2> QED
    BY <2>2 DEF base, Results
<1>5. \A s \in SUBSET (1..n) : s # {} =>
        s \ {Max(s)} \in SUBSET (1..n) /\ text[Max(s)] \in Characters
  BY <1>1, LastOfSome
<1>6. f = [s \in SUBSET DOMAIN text |->
             IF s = {} THEN <<>> ELSE Composing(f[s \ {Max(s)}], text[Max(s)])]
  BY <1>1, <1>3, <1>4, <1>5 DEF Folded
<1>7. it = [s \in SUBSET DOMAIN text |->
             IF s = {} THEN <<>> ELSE Composing(it[s \ {Max(s)}], text[Max(s)])]
  BY <1>6 DEF NfcResults
<1> HIDE DEF it, n
<1>8. \A s \in SUBSET (1..n) : it[s] \in Texts
  <2>1. it[{}] \in Texts
    BY <1>1, <1>2, <1>7
  <2>2. \A s \in SUBSET (1..n) :
          s # {} /\ it[s \ {Max(s)}] \in Texts => it[s] \in Texts
    BY <1>1, <1>5, <1>7, ComposingTyped
  <2> QED
    BY <1>1, <2>1, <2>2, FoldTyped
<1>9. Folded(it, n, <<>>, ComposeFn, text)
  BY <1>1, <1>3, <1>5, <1>7, <1>8 DEF Folded
<1>10. nfc(text) = it[DOMAIN text]
  BY DEF nfc, FoldLeft, MapThenFoldSet, it, NfcResults, Composing
<1> QED
  BY <1>1, <1>8, <1>9, <1>10 DEF it, n

\* The composed text, and what one more character does to it.
LEMMA NfcSteps ==
  /\ nfc(<<>>) = <<>>
  /\ \A text \in Texts : nfc(text) \in Texts
  /\ \A text \in Texts, c \in Characters :
       nfc(Append(text, c)) = Composing(nfc(text), c)
<1>1. nfc(<<>>) = <<>>
  <2>1. <<>> \in Texts /\ Len(<<>>) = 0 /\ 1..0 = {}
    BY EmptySeq DEF Texts
  <2>2. nfc(<<>>) = NfcResults(<<>>)[1..0]
    BY <2>1, NfcFolds
  <2>3. NfcResults(<<>>)[{}] = <<>>
    BY <2>1, NfcFolds DEF Folded
  <2> QED
    BY <2>1, <2>2, <2>3
<1>2. ASSUME NEW text \in Texts, NEW c \in Characters
      PROVE  nfc(Append(text, c)) = Composing(nfc(text), c)
  <2>1. Append(text, c) \in Texts /\ Len(Append(text, c)) = Len(text) + 1
    BY AppendProperties DEF Texts
  <2>2. nfc(Append(text, c)) = ComposeFn[nfc(text)][c]
    <3> DEFINE base == <<>>
               it == NfcResults(text)
               other == NfcResults(Append(text, c))
    <3>1. /\ Folded(it, Len(text), base, ComposeFn, text)
          /\ Folded(other, Len(text) + 1, base, ComposeFn, Append(text, c))
          /\ nfc(text) = it[1..Len(text)]
          /\ nfc(Append(text, c)) = other[1..(Len(text) + 1)]
      <4>1. /\ Folded(it, Len(text), base, ComposeFn, text)
            /\ nfc(text) = it[1..Len(text)]
        BY NfcFolds
      <4>2. /\ Folded(other, Len(Append(text, c)), base, ComposeFn, Append(text, c))
            /\ nfc(Append(text, c)) = other[1..Len(Append(text, c))]
        BY <2>1, NfcFolds
      <4> QED
        BY <2>1, <4>1, <4>2
    <3> HIDE DEF base, it, other
    <3>2. other[1..(Len(text) + 1)] = ComposeFn[it[1..Len(text)]][c]
      BY <3>1, FoldLastStep DEF Texts
    <3> QED
      BY <3>1, <3>2
  <2> QED
    BY <2>2, NfcFolds DEF ComposeFn
<1> QED
  BY <1>1, <1>2, NfcFolds
-----------------------------------------------------------------------------
(* Cleaning, character by character.                                       *)

\* What is kept of the next character.
Cleaning(cleaned, c) ==
  IF ~Kept(c) THEN cleaned
  ELSE Append(cleaned, IF c \in Whitespace THEN "sp" ELSE c)
CleanFn == [cleaned \in Texts |-> [c \in Characters |-> Cleaning(cleaned, c)]]
CleanResults(text) ==
  CHOOSE iter : iter = [s \in SUBSET DOMAIN text |->
    IF s = {} THEN <<>> ELSE Cleaning(iter[s \ {Max(s)}], text[Max(s)])]

LEMMA CleaningTyped ==
  ASSUME NEW cleaned \in Texts, NEW c \in Characters
  PROVE  Cleaning(cleaned, c) \in Texts
<1>1. (IF c \in Whitespace THEN "sp" ELSE c) \in Characters
  BY CharacterFacts
<1> QED
  BY <1>1, AppendProperties DEF Cleaning, Texts

LEMMA CleanFolds ==
  ASSUME NEW text \in Texts
  PROVE  /\ Folded(CleanResults(text), Len(text), <<>>, CleanFn, text)
         /\ Cleaned(text) = CleanResults(text)[1..Len(text)]
         /\ CleanResults(text)[1..Len(text)] \in Texts
<1> DEFINE n == Len(text)
           it == CleanResults(text)
<1>1. /\ n \in Nat /\ DOMAIN text = 1..n
      /\ \A i \in 1..n : text[i] \in Characters
  BY LenProperties, ElementOfSeq DEF Texts
<1>2. CleanFn \in StepFns(Characters, Texts) /\ <<>> \in Texts
  BY CleaningTyped, EmptySeq DEF CleanFn, Texts, StepFns
<1>3. \A d \in Texts, c \in Characters : CleanFn[d][c] = Cleaning(d, c)
  BY DEF CleanFn
<1>4. PICK f \in [SUBSET (1..n) -> Texts] : Folded(f, n, <<>>, CleanFn, text)
  <2> DEFINE base == <<>>
             seq == text
  <2>1. base \in Texts /\ \A i \in 1..n : seq[i] \in Characters
    BY <1>1, <1>2
  <2> HIDE DEF n, base, seq
  <2>2. Results(Texts, n, base, CleanFn, seq) # {}
    BY <1>1, <1>2, <2>1, FoldExists
  <2> QED
    BY <2>2 DEF base, seq, Results
<1>5. \A s \in SUBSET (1..n) : s # {} =>
        s \ {Max(s)} \in SUBSET (1..n) /\ text[Max(s)] \in Characters
  BY <1>1, LastOfSome
<1>6. f = [s \in SUBSET DOMAIN text |->
             IF s = {} THEN <<>> ELSE Cleaning(f[s \ {Max(s)}], text[Max(s)])]
  BY <1>1, <1>3, <1>4, <1>5 DEF Folded
<1>7. it = [s \in SUBSET DOMAIN text |->
             IF s = {} THEN <<>> ELSE Cleaning(it[s \ {Max(s)}], text[Max(s)])]
  BY <1>6 DEF CleanResults
<1> HIDE DEF it, n
<1>8. \A s \in SUBSET (1..n) : it[s] \in Texts
  <2>1. it[{}] \in Texts
    BY <1>1, <1>2, <1>7
  <2>2. \A s \in SUBSET (1..n) :
          s # {} /\ it[s \ {Max(s)}] \in Texts => it[s] \in Texts
    BY <1>1, <1>5, <1>7, CleaningTyped
  <2> QED
    BY <1>1, <2>1, <2>2, FoldTyped
<1>9. Folded(it, n, <<>>, CleanFn, text)
  BY <1>1, <1>3, <1>5, <1>7, <1>8 DEF Folded
<1>10. Cleaned(text) = it[DOMAIN text]
  BY DEF Cleaned, FoldLeft, MapThenFoldSet, it, CleanResults, Cleaning
<1> QED
  BY <1>1, <1>8, <1>9, <1>10 DEF it, n

\* The cleaned text, and what one more character does to it.
LEMMA CleanSteps ==
  /\ Cleaned(<<>>) = <<>>
  /\ \A text \in Texts : Cleaned(text) \in Texts
  /\ \A text \in Texts, c \in Characters :
       Cleaned(Append(text, c)) = Cleaning(Cleaned(text), c)
<1>1. Cleaned(<<>>) = <<>>
  <2>1. <<>> \in Texts /\ Len(<<>>) = 0 /\ 1..0 = {}
    BY EmptySeq DEF Texts
  <2>2. Cleaned(<<>>) = CleanResults(<<>>)[1..0]
    BY <2>1, CleanFolds
  <2>3. CleanResults(<<>>)[{}] = <<>>
    BY <2>1, CleanFolds DEF Folded
  <2> QED
    BY <2>1, <2>2, <2>3
<1>2. \A text \in Texts : Cleaned(text) \in Texts
  BY CleanFolds
<1>3. ASSUME NEW text \in Texts, NEW c \in Characters
      PROVE  Cleaned(Append(text, c)) = Cleaning(Cleaned(text), c)
  <2>1. Append(text, c) \in Texts /\ Len(Append(text, c)) = Len(text) + 1
    BY AppendProperties DEF Texts
  <2>2. Cleaned(Append(text, c)) = CleanFn[Cleaned(text)][c]
    <3> DEFINE base == <<>>
               it == CleanResults(text)
               other == CleanResults(Append(text, c))
    <3>1. /\ Folded(it, Len(text), base, CleanFn, text)
          /\ Folded(other, Len(text) + 1, base, CleanFn, Append(text, c))
          /\ Cleaned(text) = it[1..Len(text)]
          /\ Cleaned(Append(text, c)) = other[1..(Len(text) + 1)]
      <4>1. /\ Folded(it, Len(text), base, CleanFn, text)
            /\ Cleaned(text) = it[1..Len(text)]
        BY CleanFolds
      <4>2. /\ Folded(other, Len(Append(text, c)), base, CleanFn, Append(text, c))
            /\ Cleaned(Append(text, c)) = other[1..Len(Append(text, c))]
        BY <2>1, CleanFolds
      <4> QED
        BY <2>1, <4>1, <4>2
    <3> HIDE DEF base, it, other
    <3>2. other[1..(Len(text) + 1)] = CleanFn[it[1..Len(text)]][c]
      BY <3>1, FoldLastStep DEF Texts
    <3> QED
      BY <3>1, <3>2
  <2> QED
    BY <1>2, <2>2 DEF CleanFn
<1> QED
  BY <1>1, <1>2, <1>3
-----------------------------------------------------------------------------
(* Splitting, character by character.                                      *)

\* The words that were read, and the word that is being read.
Reads == [words : Seq(Texts), word : Texts]
Closing(read) == IF read.word = <<>> THEN read.words
                 ELSE Append(read.words, read.word)
Putting(read, c, at) ==
  IF c \in at THEN [words |-> Closing(read), word |-> <<>>]
  ELSE [words |-> read.words, word |-> Append(read.word, c)]
PutFn(at) == [read \in Reads |-> [c \in Characters |-> Putting(read, c, at)]]
SplitResults(text, at) ==
  CHOOSE iter : iter = [s \in SUBSET DOMAIN text |->
    IF s = {} THEN [words |-> <<>>, word |-> <<>>]
    ELSE Putting(iter[s \ {Max(s)}], text[Max(s)], at)]
ReadOf(text, at) == SplitResults(text, at)[1..Len(text)]

LEMMA PuttingTyped ==
  ASSUME NEW read \in Reads, NEW c \in Characters, NEW at
  PROVE  Putting(read, c, at) \in Reads /\ Closing(read) \in Seq(Texts)
<1>1. read.words \in Seq(Texts) /\ read.word \in Texts
  BY DEF Reads
<1>2. Closing(read) \in Seq(Texts)
  BY <1>1, AppendProperties DEF Closing
<1>3. Append(read.word, c) \in Texts /\ <<>> \in Texts
  BY <1>1, AppendProperties, EmptySeq DEF Texts
<1> QED
  BY <1>1, <1>2, <1>3 DEF Putting, Reads

LEMMA SplitFolds ==
  ASSUME NEW text \in Texts, NEW at
  PROVE  /\ Folded(SplitResults(text, at), Len(text),
                   [words |-> <<>>, word |-> <<>>], PutFn(at), text)
         /\ Split(text, at) = Closing(ReadOf(text, at))
         /\ SplitResults(text, at)[1..Len(text)] \in Reads
<1> DEFINE n == Len(text)
           it == SplitResults(text, at)
<1>1. /\ n \in Nat /\ DOMAIN text = 1..n
      /\ \A i \in 1..n : text[i] \in Characters
  BY LenProperties, ElementOfSeq DEF Texts
<1>2. PutFn(at) \in StepFns(Characters, Reads) /\ [words |-> <<>>, word |-> <<>>] \in Reads
  BY PuttingTyped, EmptySeq DEF PutFn, Reads, StepFns, Texts
<1>3. \A d \in Reads, c \in Characters : PutFn(at)[d][c] = Putting(d, c, at)
  BY DEF PutFn
<1>4. PICK f \in [SUBSET (1..n) -> Reads] :
        Folded(f, n, [words |-> <<>>, word |-> <<>>], PutFn(at), text)
  <2> DEFINE base == [words |-> <<>>, word |-> <<>>]
             seq == text
  <2>1. base \in Reads /\ \A i \in 1..n : seq[i] \in Characters
    BY <1>1, <1>2
  <2> HIDE DEF n, base, seq
  <2>2. Results(Reads, n, base, PutFn(at), seq) # {}
    BY <1>1, <1>2, <2>1, FoldExists
  <2> QED
    BY <2>2 DEF base, seq, Results
<1>5. \A s \in SUBSET (1..n) : s # {} =>
        s \ {Max(s)} \in SUBSET (1..n) /\ text[Max(s)] \in Characters
  BY <1>1, LastOfSome
<1>6. f = [s \in SUBSET DOMAIN text |->
             IF s = {} THEN [words |-> <<>>, word |-> <<>>]
             ELSE Putting(f[s \ {Max(s)}], text[Max(s)], at)]
  BY <1>1, <1>3, <1>4, <1>5 DEF Folded
<1>7. it = [s \in SUBSET DOMAIN text |->
             IF s = {} THEN [words |-> <<>>, word |-> <<>>]
             ELSE Putting(it[s \ {Max(s)}], text[Max(s)], at)]
  BY <1>6 DEF SplitResults
<1> HIDE DEF it, n
<1>8. \A s \in SUBSET (1..n) : it[s] \in Reads
  <2>1. it[{}] \in Reads
    BY <1>1, <1>2, <1>7
  <2>2. \A s \in SUBSET (1..n) :
          s # {} /\ it[s \ {Max(s)}] \in Reads => it[s] \in Reads
    <3> SUFFICES ASSUME NEW s \in SUBSET (1..n), s # {},
                        it[s \ {Max(s)}] \in Reads
                 PROVE  it[s] \in Reads
      OBVIOUS
    <3>1. it[s] = Putting(it[s \ {Max(s)}], text[Max(s)], at)
      BY <1>1, <1>7
    <3>2. text[Max(s)] \in Characters
      BY <1>5
    <3> QED
      BY <3>1, <3>2, PuttingTyped
  <2> QED
    BY <1>1, <2>1, <2>2, FoldTyped
<1>9. Folded(it, n, [words |-> <<>>, word |-> <<>>], PutFn(at), text)
  BY <1>1, <1>3, <1>5, <1>7, <1>8 DEF Folded
<1>10. Split(text, at) = Closing(it[DOMAIN text])
  BY DEF Split, FoldLeft, MapThenFoldSet, it, SplitResults, Putting, Closing
<1> QED
  BY <1>1, <1>8, <1>9, <1>10 DEF it, n, ReadOf

\* What is read of a text, and what one more character does to it.
LEMMA SplitSteps ==
  ASSUME NEW at
  PROVE  /\ ReadOf(<<>>, at) = [words |-> <<>>, word |-> <<>>]
         /\ \A text \in Texts :
              /\ ReadOf(text, at) \in Reads
              /\ Split(text, at) = Closing(ReadOf(text, at))
              /\ Split(text, at) \in Seq(Texts)
         /\ \A text \in Texts, c \in Characters :
              ReadOf(Append(text, c), at) = Putting(ReadOf(text, at), c, at)
<1>1. ReadOf(<<>>, at) = [words |-> <<>>, word |-> <<>>]
  <2>1. <<>> \in Texts /\ Len(<<>>) = 0 /\ 1..0 = {}
    BY EmptySeq DEF Texts
  <2>2. SplitResults(<<>>, at)[{}] = [words |-> <<>>, word |-> <<>>]
    BY <2>1, SplitFolds DEF Folded
  <2> QED
    BY <2>1, <2>2 DEF ReadOf
<1>2. ASSUME NEW text \in Texts
      PROVE  /\ ReadOf(text, at) \in Reads
             /\ Split(text, at) = Closing(ReadOf(text, at))
             /\ Split(text, at) \in Seq(Texts)
  <2>1. ReadOf(text, at) \in Reads /\ Split(text, at) = Closing(ReadOf(text, at))
    BY SplitFolds DEF ReadOf
  <2>2. Mark \in Characters
    BY CharacterFacts
  <2> QED
    BY <2>1, <2>2, PuttingTyped
<1>3. ASSUME NEW text \in Texts, NEW c \in Characters
      PROVE  ReadOf(Append(text, c), at) = Putting(ReadOf(text, at), c, at)
  <2>1. Append(text, c) \in Texts /\ Len(Append(text, c)) = Len(text) + 1
    BY AppendProperties DEF Texts
  <2>2. ReadOf(Append(text, c), at) = PutFn(at)[ReadOf(text, at)][c]
    <3> DEFINE base == [words |-> <<>>, word |-> <<>>]
               it == SplitResults(text, at)
               other == SplitResults(Append(text, c), at)
               g == PutFn(at)
    <3>1. /\ Folded(it, Len(text), base, g, text)
          /\ Folded(other, Len(text) + 1, base, g, Append(text, c))
          /\ ReadOf(text, at) = it[1..Len(text)]
          /\ ReadOf(Append(text, c), at) = other[1..(Len(text) + 1)]
      <4>1. Folded(it, Len(text), base, g, text)
        BY SplitFolds
      <4>2. Folded(other, Len(Append(text, c)), base, g, Append(text, c))
        BY <2>1, SplitFolds
      <4> QED
        BY <2>1, <4>1, <4>2 DEF ReadOf
    <3> HIDE DEF base, it, other, g
    <3>2. other[1..(Len(text) + 1)] = g[it[1..Len(text)]][c]
      BY <3>1, FoldLastStep DEF Texts
    <3> QED
      BY <3>1, <3>2 DEF g
  <2> QED
    BY <1>2, <2>2 DEF PutFn
<1> QED
  BY <1>1, <1>2, <1>3
-----------------------------------------------------------------------------
(* Joining, text by text.                                                  *)

\* A text with the next one after it.
Adding(text, next) == text \o <<"sp">> \o next
AddFn == [text \in Texts |-> [next \in Texts |-> Adding(text, next)]]
JoinResults(texts) ==
  CHOOSE iter : iter = [s \in SUBSET DOMAIN Tail(texts) |->
    IF s = {} THEN Head(texts)
    ELSE Adding(iter[s \ {Max(s)}], Tail(texts)[Max(s)])]

LEMMA AddingTyped ==
  ASSUME NEW text \in Texts, NEW next \in Texts
  PROVE  Adding(text, next) \in Texts
<1>1. <<"sp">> \in Texts
  BY CharacterFacts DEF Texts
<1>2. text \o <<"sp">> \in Texts
  BY <1>1, ConcatProperties DEF Texts
<1> QED
  BY <1>2, ConcatProperties DEF Adding, Texts

LEMMA JoinFolds ==
  ASSUME NEW texts \in Seq(Texts), texts # <<>>
  PROVE  /\ Folded(JoinResults(texts), Len(Tail(texts)), Head(texts), AddFn, Tail(texts))
         /\ Join(texts) = JoinResults(texts)[1..Len(Tail(texts))]
         /\ JoinResults(texts)[1..Len(Tail(texts))] \in Texts
<1> DEFINE n == Len(Tail(texts))
           it == JoinResults(texts)
<1>1. /\ n \in Nat /\ DOMAIN Tail(texts) = 1..n
      /\ \A i \in 1..n : Tail(texts)[i] \in Texts
  BY LenProperties, ElementOfSeq, HeadTailProperties
<1>2. AddFn \in StepFns(Texts, Texts) /\ Head(texts) \in Texts
  BY AddingTyped, HeadTailProperties DEF AddFn, StepFns
<1>3. \A d \in Texts, c \in Texts : AddFn[d][c] = Adding(d, c)
  BY DEF AddFn
<1>4. PICK f \in [SUBSET (1..n) -> Texts] : Folded(f, n, Head(texts), AddFn, Tail(texts))
  <2> DEFINE base == Head(texts)
             seq == Tail(texts)
  <2>1. base \in Texts /\ \A i \in 1..n : seq[i] \in Texts
    BY <1>1, <1>2
  <2> HIDE DEF n, base, seq
  <2>2. Results(Texts, n, base, AddFn, seq) # {}
    BY <1>1, <1>2, <2>1, FoldExists
  <2> QED
    BY <2>2 DEF base, seq, Results
<1>5. \A s \in SUBSET (1..n) : s # {} =>
        s \ {Max(s)} \in SUBSET (1..n) /\ Tail(texts)[Max(s)] \in Texts
  BY <1>1, LastOfSome
<1>6. f = [s \in SUBSET DOMAIN Tail(texts) |->
             IF s = {} THEN Head(texts) ELSE Adding(f[s \ {Max(s)}], Tail(texts)[Max(s)])]
  BY <1>1, <1>3, <1>4, <1>5 DEF Folded
<1>7. it = [s \in SUBSET DOMAIN Tail(texts) |->
             IF s = {} THEN Head(texts) ELSE Adding(it[s \ {Max(s)}], Tail(texts)[Max(s)])]
  BY <1>6 DEF JoinResults
<1> HIDE DEF it, n
<1>8. \A s \in SUBSET (1..n) : it[s] \in Texts
  <2>1. it[{}] \in Texts
    BY <1>1, <1>2, <1>7
  <2>2. \A s \in SUBSET (1..n) :
          s # {} /\ it[s \ {Max(s)}] \in Texts => it[s] \in Texts
    BY <1>1, <1>5, <1>7, AddingTyped
  <2> QED
    BY <1>1, <2>1, <2>2, FoldTyped
<1>9. Folded(it, n, Head(texts), AddFn, Tail(texts))
  BY <1>1, <1>3, <1>5, <1>7, <1>8 DEF Folded
<1>10. Join(texts) = it[DOMAIN Tail(texts)]
  BY DEF Join, FoldLeft, MapThenFoldSet, it, JoinResults, Adding
<1> QED
  BY <1>1, <1>8, <1>9, <1>10 DEF it, n

\* The joined texts, and what one more text does to them.
LEMMA JoinSteps ==
  /\ Join(<<>>) = <<>>
  /\ \A text \in Texts : Join(<<text>>) = text
  /\ \A texts \in Seq(Texts) : Join(texts) \in Texts
  /\ \A texts \in Seq(Texts), text \in Texts : texts # <<>> =>
       Join(Append(texts, text)) = Adding(Join(texts), text)
<1>1. Join(<<>>) = <<>>
  BY DEF Join
<1>2. ASSUME NEW text \in Texts PROVE Join(<<text>>) = text
  <2> DEFINE texts == <<text>>
  <2>1. /\ texts \in Seq(Texts) /\ texts # <<>> /\ Head(texts) = text
        /\ Len(Tail(texts)) = 0 /\ 1..0 = {}
    OBVIOUS
  <2> HIDE DEF texts
  <2>2. JoinResults(texts)[{}] = text
    BY <2>1, JoinFolds DEF Folded
  <2>3. Join(texts) = JoinResults(texts)[1..0]
    BY <2>1, JoinFolds
  <2> QED
    BY <2>1, <2>2, <2>3 DEF texts
<1>3. \A texts \in Seq(Texts) : Join(texts) \in Texts
  <2>1. \A texts \in Seq(Texts) : texts # <<>> => Join(texts) \in Texts
    BY JoinFolds
  <2> QED
    BY <1>1, <2>1, EmptySeq DEF Texts
<1>4. ASSUME NEW texts \in Seq(Texts), NEW text \in Texts, texts # <<>>
      PROVE  Join(Append(texts, text)) = Adding(Join(texts), text)
  <2> DEFINE longer == Append(texts, text)
             seq == Tail(texts)
  <2>1. longer \in Seq(Texts) /\ longer # <<>>
    BY AppendProperties
  <2>2. Head(longer) = Head(texts) /\ Tail(longer) = Append(seq, text)
    BY <1>4, HeadTailAppend
  <2>3. /\ seq \in Seq(Texts) /\ Head(texts) \in Texts
        /\ Len(Append(seq, text)) = Len(seq) + 1
    BY <1>4, HeadTailProperties, AppendProperties
  <2>4. Join(longer) = AddFn[Join(texts)][text]
    <3> DEFINE base == Head(texts)
               it == JoinResults(texts)
               other == JoinResults(longer)
    <3>1. /\ Folded(it, Len(seq), base, AddFn, seq)
          /\ Join(texts) = it[1..Len(seq)]
      BY <1>4, JoinFolds
    <3>2. /\ Folded(other, Len(Tail(longer)), Head(longer), AddFn, Tail(longer))
          /\ Join(longer) = other[1..Len(Tail(longer))]
      <4> HIDE DEF longer
      <4> QED
        BY <2>1, JoinFolds
    <3> HIDE DEF longer, seq, base, it, other
    <3>3. /\ Folded(other, Len(seq) + 1, base, AddFn, Append(seq, text))
          /\ Join(longer) = other[1..(Len(seq) + 1)]
      BY <2>2, <2>3, <3>2 DEF base
    <3>4. other[1..(Len(seq) + 1)] = AddFn[it[1..Len(seq)]][text]
      BY <2>3, <3>1, <3>3, FoldLastStep
    <3> QED
      BY <3>1, <3>3, <3>4
  <2> QED
    BY <1>3, <2>4 DEF AddFn
<1> QED
  BY <1>1, <1>2, <1>3, <1>4
-----------------------------------------------------------------------------
(* Flattening, sequence by sequence.                                       *)

\* The first i sequences flattened, for every i up to n.
Flat(f, n, seqs) ==
  \A i \in 1..n : f[i] = IF i = 1 THEN seqs[i] ELSE f[i - 1] \o seqs[i]
Agree(n, f, h) == \A i \in 1..n : f[i] = h[i]
Flats(S, n, seqs) == {f \in [1..n -> Seq(S)] : Flat(f, n, seqs)}
FlatResults(seqs) ==
  CHOOSE f : f = [i \in 1..Len(seqs) |->
                    IF i = 1 THEN seqs[i] ELSE f[i - 1] \o seqs[i]]

LEMMA FlatExists ==
  ASSUME NEW S, NEW seqs, NEW n \in Nat, \A i \in 1..n : seqs[i] \in Seq(S)
  PROVE  Flats(S, n, seqs) # {}
<1> DEFINE A == {k \in Nat : k <= n => Flats(S, k, seqs) # {}}
<1>1. 0 \in A
  <2> DEFINE f == [i \in 1..0 |-> <<>>]
  <2>1. 1..0 = {}
    OBVIOUS
  <2>2. f \in [1..0 -> Seq(S)]
    BY EmptySeq
  <2>3. f \in Flats(S, 0, seqs)
    BY <2>1, <2>2 DEF Flats, Flat
  <2> HIDE DEF f
  <2> QED
    BY <2>3
<1>2. ASSUME NEW k \in A PROVE k + 1 \in A
  <2>1. k \in Nat
    OBVIOUS
  <2>2. SUFFICES ASSUME k + 1 <= n PROVE Flats(S, k + 1, seqs) # {}
    OBVIOUS
  <2>3. PICK old \in Flats(S, k, seqs) : TRUE
    BY <2>1, <2>2
  <2>4. old \in [1..k -> Seq(S)] /\ Flat(old, k, seqs)
    BY <2>3 DEF Flats
  <2> DEFINE next == IF k = 0 THEN seqs[1] ELSE old[k] \o seqs[k + 1]
             f == [i \in 1..(k + 1) |-> IF i = k + 1 THEN next ELSE old[i]]
  <2>5. next \in Seq(S)
    <3>1. seqs[k + 1] \in Seq(S)
      BY <2>1, <2>2
    <3>2. CASE k = 0
      BY <3>1, <3>2
    <3>3. CASE k # 0
      <4>1. old[k] \in Seq(S)
        BY <2>1, <2>4, <3>3
      <4> QED
        BY <3>1, <3>3, <4>1, ConcatProperties
    <3> QED
      BY <3>2, <3>3
  <2>6. /\ f[k + 1] = next
        /\ \A i \in 1..k : f[i] = old[i]
    <3> HIDE DEF next
    <3> QED
      BY <2>1
  <2>7. f \in [1..(k + 1) -> Seq(S)]
    <3> HIDE DEF next
    <3>1. \A i \in 1..(k + 1) : i # k + 1 => i \in 1..k
      BY <2>1
    <3> QED
      BY <2>4, <2>5, <3>1
  <2>8. Flat(f, k + 1, seqs)
    <3> SUFFICES ASSUME NEW i \in 1..(k + 1)
                 PROVE  f[i] = IF i = 1 THEN seqs[i] ELSE f[i - 1] \o seqs[i]
      BY DEF Flat
    <3> HIDE DEF f
    <3>1. CASE i = k + 1
      <4>1. CASE k = 0
        BY <2>6, <3>1, <4>1
      <4>2. CASE k # 0
        <5>1. k \in 1..k /\ i - 1 = k /\ i # 1
          BY <2>1, <3>1, <4>2
        <5> QED
          BY <2>6, <3>1, <4>2, <5>1
      <4> QED
        BY <4>1, <4>2
    <3>2. CASE i # k + 1
      <4>1. i \in 1..k /\ (i # 1 => i - 1 \in 1..k)
        BY <2>1, <3>2
      <4> QED
        BY <2>4, <2>6, <4>1 DEF Flat
    <3> QED
      BY <3>1, <3>2
  <2> HIDE DEF f
  <2> QED
    BY <2>7, <2>8 DEF Flats
<1>3. A = Nat
  <2>1. A \subseteq Nat
    OBVIOUS
  <2> HIDE DEF A
  <2> QED
    BY <1>1, <1>2, <2>1, NatSetInduction
<1>4. n \in A
  BY <1>3
<1> QED
  BY <1>4

\* Flattened sequences are determined by those that are flattened.
LEMMA FlatDetermined ==
  ASSUME NEW n \in Nat, NEW m \in Nat, n <= m,
         NEW seqs, NEW longer, Agree(n, longer, seqs),
         NEW f, Flat(f, n, seqs), NEW h, Flat(h, m, longer)
  PROVE  Agree(n, h, f)
<1> DEFINE A == {k \in Nat : k \in 1..n => h[k] = f[k]}
<1>1. 0 \in A
  OBVIOUS
<1>2. ASSUME NEW k \in A PROVE k + 1 \in A
  <2>1. k \in Nat /\ (k \in 1..n => h[k] = f[k])
    OBVIOUS
  <2>2. ASSUME k + 1 \in 1..n PROVE h[k + 1] = f[k + 1]
    <3>1. /\ f[k + 1] = IF k + 1 = 1 THEN seqs[k + 1]
                        ELSE f[(k + 1) - 1] \o seqs[k + 1]
          /\ h[k + 1] = IF k + 1 = 1 THEN longer[k + 1]
                        ELSE h[(k + 1) - 1] \o longer[k + 1]
      BY <2>1, <2>2 DEF Flat
    <3>2. (k + 1) - 1 = k /\ (k + 1 # 1 => k \in 1..n)
      BY <2>1, <2>2
    <3> QED
      BY <2>1, <2>2, <3>1, <3>2 DEF Agree
  <2> QED
    BY <2>1, <2>2
<1>3. A = Nat
  <2>1. A \subseteq Nat
    OBVIOUS
  <2> HIDE DEF A
  <2> QED
    BY <1>1, <1>2, <2>1, NatSetInduction
<1>4. ASSUME NEW i \in 1..n PROVE h[i] = f[i]
  <2>1. i \in A
    BY <1>3
  <2> QED
    BY <2>1
<1> QED
  BY <1>4 DEF Agree

LEMMA FlattenFlat ==
  ASSUME NEW S, NEW seqs \in Seq(Seq(S)), seqs # <<>>
  PROVE  /\ Flat(FlatResults(seqs), Len(seqs), seqs)
         /\ FlattenSeq(seqs) = FlatResults(seqs)[Len(seqs)]
         /\ FlattenSeq(seqs) \in Seq(S)
<1> DEFINE n == Len(seqs)
           it == FlatResults(seqs)
<1>1. n \in Nat \ {0} /\ \A i \in 1..n : seqs[i] \in Seq(S)
  BY EmptySeq, ElementOfSeq
<1>2. PICK f \in Flats(S, n, seqs) : TRUE
  <2> HIDE DEF n
  <2> QED
    BY <1>1, FlatExists
<1>3. f \in [1..n -> Seq(S)] /\ Flat(f, n, seqs)
  BY <1>2 DEF Flats
<1>4. f = [i \in 1..n |-> IF i = 1 THEN seqs[i] ELSE f[i - 1] \o seqs[i]]
  BY <1>3 DEF Flat
<1>5. it = [i \in 1..n |-> IF i = 1 THEN seqs[i] ELSE it[i - 1] \o seqs[i]]
  BY <1>4 DEF FlatResults
<1> HIDE DEF it, n
<1>6. Flat(it, n, seqs)
  BY <1>5 DEF Flat
<1>7. it[n] = f[n]
  <2>1. n \in Nat /\ n <= n /\ n \in 1..n
    BY <1>1
  <2> QED
    BY <1>3, <1>6, <2>1, FlatDetermined DEF Agree
<1>8. FlattenSeq(seqs) = it[n]
  BY <1>1 DEF FlattenSeq, it, n, FlatResults
<1>9. f[n] \in Seq(S)
  BY <1>1, <1>3
<1> QED
  BY <1>6, <1>7, <1>8, <1>9 DEF it, n

\* The flattened sequence, and what one more sequence does to it.
LEMMA FlattenSteps ==
  ASSUME NEW S
  PROVE  /\ FlattenSeq(<<>>) = <<>>
         /\ \A s \in Seq(S) : FlattenSeq(<<s>>) = s
         /\ \A seqs \in Seq(Seq(S)) : FlattenSeq(seqs) \in Seq(S)
         /\ \A seqs \in Seq(Seq(S)), s \in Seq(S) :
              FlattenSeq(Append(seqs, s)) = FlattenSeq(seqs) \o s
<1>1. FlattenSeq(<<>>) = <<>>
  BY DEF FlattenSeq
<1>2. \A seqs \in Seq(Seq(S)) : FlattenSeq(seqs) \in Seq(S)
  BY <1>1, FlattenFlat, EmptySeq
<1>3. ASSUME NEW s \in Seq(S) PROVE FlattenSeq(<<s>>) = s
  <2> DEFINE seqs == <<s>>
  <2>1. seqs \in Seq(Seq(S)) /\ seqs # <<>> /\ Len(seqs) = 1 /\ seqs[1] = s
    OBVIOUS
  <2> HIDE DEF seqs
  <2>2. /\ FlattenSeq(seqs) = FlatResults(seqs)[1]
        /\ Flat(FlatResults(seqs), 1, seqs)
    BY <2>1, FlattenFlat
  <2>3. FlatResults(seqs)[1] = seqs[1]
    BY <2>2 DEF Flat
  <2> QED
    BY <2>1, <2>2, <2>3 DEF seqs
<1>4. ASSUME NEW seqs \in Seq(Seq(S)), NEW s \in Seq(S)
      PROVE  FlattenSeq(Append(seqs, s)) = FlattenSeq(seqs) \o s
  <2>1. CASE seqs = <<>>
    <3>1. Append(seqs, s) = <<s>>
      BY <2>1
    <3> QED
      BY <1>1, <1>3, <2>1, <3>1, ConcatEmptySeq
  <2>2. CASE seqs # <<>>
    <3> DEFINE n == Len(seqs)
               longer == Append(seqs, s)
    <3>1. /\ n \in Nat \ {0} /\ Len(longer) = n + 1
          /\ longer \in Seq(Seq(S)) /\ longer # <<>>
          /\ \A i \in 1..n : longer[i] = seqs[i]
          /\ longer[n + 1] = s
      BY <2>2, EmptySeq, AppendProperties
    <3> HIDE DEF longer, n
    <3>2. /\ Flat(FlatResults(longer), n + 1, longer)
          /\ FlattenSeq(longer) = FlatResults(longer)[n + 1]
      BY <3>1, FlattenFlat
    <3>3. /\ Flat(FlatResults(seqs), n, seqs)
          /\ FlattenSeq(seqs) = FlatResults(seqs)[n]
      BY <2>2, FlattenFlat DEF n
    <3>4. FlatResults(longer)[n] = FlatResults(seqs)[n]
      <4> DEFINE m == n + 1
                 f == FlatResults(seqs)
                 h == FlatResults(longer)
      <4>1. n \in Nat /\ m \in Nat /\ n <= m /\ n \in 1..n
        BY <3>1
      <4>2. Flat(h, m, longer) /\ Flat(f, n, seqs)
        BY <3>2, <3>3
      <4>0. Agree(n, longer, seqs)
        BY <3>1 DEF Agree
      <4> HIDE DEF m, f, h
      <4>3. Agree(n, h, f)
        BY <4>0, <4>1, <4>2, FlatDetermined
      <4> QED
        BY <4>1, <4>3 DEF f, h, Agree
    <3>5. FlatResults(longer)[n + 1] = FlatResults(longer)[n] \o longer[n + 1]
      <4>1. n + 1 \in 1..(n + 1) /\ n + 1 # 1 /\ (n + 1) - 1 = n
        BY <3>1
      <4> QED
        BY <3>2, <4>1 DEF Flat
    <3> QED
      BY <3>1, <3>2, <3>3, <3>4, <3>5 DEF longer
  <2> QED
    BY <2>1, <2>2
<1> QED
  BY <1>1, <1>2, <1>3, <1>4
-----------------------------------------------------------------------------
(* Sequences, by their last element.                                       *)

LEMMA AppendParts ==
  ASSUME NEW S, NEW t \in Seq(S), NEW c \in S
  PROVE  /\ Append(t, c) \in Seq(S) /\ Append(t, c) # <<>>
         /\ Last(Append(t, c)) = c /\ Front(Append(t, c)) = t
<1> DEFINE u == Append(t, c)
<1>1. /\ u \in Seq(S) /\ u # <<>> /\ Len(u) = Len(t) + 1 /\ Len(t) \in Nat
      /\ \A i \in 1..Len(t) : u[i] = t[i]
      /\ u[Len(t) + 1] = c
  BY AppendProperties, LenProperties
<1> HIDE DEF u
<1>2. Last(u) = c
  BY <1>1 DEF Last
<1>3. \A i \in 1..Len(t) : u[i] \in S
  BY <1>1, ElementOfSeq
<1>4. /\ SubSeq(u, 1, Len(t)) \in Seq(S)
      /\ Len(SubSeq(u, 1, Len(t))) = Len(t)
      /\ \A i \in 1..Len(t) : SubSeq(u, 1, Len(t))[i] = u[i]
  BY <1>1, <1>3, SubSeqProperties
<1>5. SubSeq(u, 1, Len(t)) = t
  BY <1>1, <1>4, SeqEqual
<1>6. Front(u) = t
  BY <1>1, <1>5 DEF Front
<1> QED
  BY <1>1, <1>2, <1>6 DEF u

LEMMA ConcatAppend ==
  ASSUME NEW S, NEW p \in Seq(S), NEW q \in Seq(S), NEW c \in S
  PROVE  p \o Append(q, c) = Append(p \o q, c)
<1>1. p \o q \in Seq(S) /\ <<c>> \in Seq(S)
  BY ConcatProperties
<1>2. Append(q, c) = q \o <<c>> /\ Append(p \o q, c) = (p \o q) \o <<c>>
  BY <1>1, AppendIsConcat
<1> QED
  BY <1>1, <1>2, ConcatAssociative

\* Flattening a sequence that has one element more than another.
LEMMA FlattenLonger ==
  ASSUME NEW S, NEW n \in Nat, NEW m \in [1..n -> Seq(S)],
         NEW longer \in [1..(n + 1) -> Seq(S)], Agree(n, longer, m)
  PROVE  FlattenSeq(longer) = FlattenSeq(m) \o longer[n + 1]
<1>1. m \in Seq(Seq(S)) /\ longer \in Seq(Seq(S))
  OBVIOUS
<1>2. Len(m) = n /\ Len(longer) = n + 1
  BY <1>1
<1>3. longer[n + 1] \in Seq(S)
  OBVIOUS
<1>4. /\ Append(m, longer[n + 1]) \in Seq(Seq(S))
      /\ Len(Append(m, longer[n + 1])) = n + 1
      /\ \A i \in 1..n : Append(m, longer[n + 1])[i] = m[i]
      /\ Append(m, longer[n + 1])[n + 1] = longer[n + 1]
  BY <1>1, <1>2, <1>3, AppendProperties
<1>5. longer = Append(m, longer[n + 1])
  <2>1. \A i \in 1..(n + 1) : longer[i] = Append(m, longer[n + 1])[i]
    <3>1. \A i \in 1..(n + 1) : i # n + 1 => i \in 1..n
      OBVIOUS
    <3> QED
      BY <1>4, <3>1 DEF Agree
  <2> QED
    BY <1>1, <1>2, <1>4, <2>1, SeqEqual
<1> QED
  BY <1>1, <1>3, <1>5, FlattenSteps
-----------------------------------------------------------------------------
(* Whitespace separates what is composed, and what is read.                *)

LEMMA ComposingConcat ==
  ASSUME NEW p \in Texts, NEW q \in Texts, NEW c \in Characters,
         \/ q # <<>> \/ c # Mark \/ p = <<>> \/ Last(p) \notin DOMAIN Composed
  PROVE  Composing(p \o q, c) = p \o Composing(q, c)
<1>1. CASE q = <<>>
  <2>1. p \o q = p
    BY <1>1, ConcatEmptySeq DEF Texts
  <2>2. Composing(p, c) = Append(p, c) /\ Composing(q, c) = Append(q, c)
    BY <1>1 DEF Composing
  <2> QED
    BY <2>1, <2>2, ConcatAppend DEF Texts
<1>2. CASE q # <<>>
  <2>1. PICK r \in Texts, l \in Characters : q = Append(r, l)
    BY <1>2, SequenceEmptyOrAppend DEF Texts
  <2>2. p \o r \in Texts /\ p \o q = Append(p \o r, l)
    BY <2>1, ConcatAppend, ConcatProperties DEF Texts
  <2>3. Last(q) = l /\ Front(q) = r
    BY <2>1, AppendParts DEF Texts
  <2>4. p \o q # <<>> /\ Last(p \o q) = l /\ Front(p \o q) = p \o r
    <3> DEFINE t == p \o r
    <3>1. t \in Seq(Characters) /\ p \o q = Append(t, l)
      BY <2>2 DEF Texts
    <3> HIDE DEF t
    <3>2. /\ Append(t, l) # <<>> /\ Last(Append(t, l)) = l
          /\ Front(Append(t, l)) = t
      BY <3>1, AppendParts
    <3> QED
      BY <3>1, <3>2 DEF t
  <2>5. CASE c = Mark /\ l \in DOMAIN Composed
    <3>1. Composing(q, c) = Append(r, Composed[l])
      BY <1>2, <2>3, <2>5 DEF Composing
    <3>2. Composing(p \o q, c) = Append(p \o r, Composed[l])
      BY <2>4, <2>5 DEF Composing
    <3>3. Composed[l] \in Characters
      BY <2>5, CharacterFacts
    <3>4. p \o Append(r, Composed[l]) = Append(p \o r, Composed[l])
      BY <3>3, ConcatAppend DEF Texts
    <3> QED
      BY <3>1, <3>2, <3>4
  <2>6. CASE ~(c = Mark /\ l \in DOMAIN Composed)
    <3>1. Composing(q, c) = Append(q, c)
      BY <2>3, <2>6 DEF Composing
    <3>2. Composing(p \o q, c) = Append(p \o q, c)
      BY <2>4, <2>6 DEF Composing
    <3>3. p \o Append(q, c) = Append(p \o q, c)
      BY ConcatAppend DEF Texts
    <3> QED
      BY <3>1, <3>2, <3>3
  <2> QED
    BY <2>5, <2>6
<1> QED
  BY <1>1, <1>2

LEMMA NfcSeparated ==
  ASSUME NEW x \in Texts, NEW s \in Whitespace, NEW y \in Texts
  PROVE  nfc(Append(x, s) \o y) = Append(nfc(x), s) \o nfc(y)
<1> DEFINE before == Append(x, s)
           composed == Append(nfc(x), s)
           A == {z \in Texts : nfc(before \o z) = composed \o nfc(z)}
<1>1. s \in Characters /\ s # Mark /\ s \notin DOMAIN Composed
  BY CharacterFacts
<1>2. before \in Texts /\ nfc(x) \in Texts /\ composed \in Texts
  BY <1>1, NfcSteps, AppendProperties DEF Texts
<1>3. nfc(before) = composed
  BY <1>1, NfcSteps DEF Composing
<1>4. Last(composed) = s
  BY <1>1, <1>2, AppendParts DEF Texts
<1> HIDE DEF before, composed
<1>5. <<>> \in A
  <2>1. before \o <<>> = before /\ composed \o <<>> = composed
    BY <1>2, ConcatEmptySeq DEF Texts
  <2> QED
    BY <1>3, <2>1, NfcSteps, EmptySeq DEF Texts
<1>6. ASSUME NEW z \in A, NEW c \in Characters PROVE Append(z, c) \in A
  <2>1. z \in Texts /\ nfc(z) \in Texts /\ before \o z \in Texts
    BY <1>2, NfcSteps, ConcatProperties DEF Texts
  <2>2. before \o Append(z, c) = Append(before \o z, c)
    BY <1>2, <2>1, ConcatAppend DEF Texts
  <2>3. nfc(before \o Append(z, c)) = Composing(composed \o nfc(z), c)
    BY <2>1, <2>2, NfcSteps
  <2>4. Composing(composed \o nfc(z), c) = composed \o Composing(nfc(z), c)
    BY <1>1, <1>2, <1>4, <2>1, ComposingConcat
  <2>5. nfc(Append(z, c)) = Composing(nfc(z), c)
    BY <2>1, NfcSteps
  <2>6. Append(z, c) \in Texts
    BY <2>1, AppendProperties DEF Texts
  <2> QED
    BY <2>3, <2>4, <2>5, <2>6
<1>7. A = Seq(Characters)
  <2>1. A \subseteq Seq(Characters)
    BY DEF Texts
  <2> HIDE DEF A
  <2> QED
    BY <1>5, <1>6, <2>1, SeqSetInduction
<1>8. y \in A
  BY <1>7 DEF Texts
<1> QED
  BY <1>8 DEF before, composed

LEMMA ClosingConcat ==
  ASSUME NEW words \in Seq(Texts), NEW read \in Reads
  PROVE  Closing([words |-> words \o read.words, word |-> read.word]) =
           words \o Closing(read)
<1>1. read.words \in Seq(Texts) /\ read.word \in Texts
  BY DEF Reads
<1> QED
  <2>1. words \o Append(read.words, read.word) =
          Append(words \o read.words, read.word)
    BY <1>1, ConcatAppend
  <2> DEFINE joined == words \o read.words
             whole == [words |-> joined, word |-> read.word]
  <2>2. whole.words = joined /\ whole.word = read.word
    OBVIOUS
  <2> HIDE DEF whole, joined
  <2>3. Closing(whole) = IF read.word = <<>> THEN joined
                         ELSE Append(joined, read.word)
    BY <2>2 DEF Closing
  <2>4. Closing(read) = IF read.word = <<>> THEN read.words
                        ELSE Append(read.words, read.word)
    BY DEF Closing
  <2> QED
    BY <2>1, <2>3, <2>4 DEF whole, joined

LEMMA ReadSeparated ==
  ASSUME NEW at, NEW x \in Texts, NEW s \in at \cap Characters, NEW y \in Texts
  PROVE  ReadOf(Append(x, s) \o y, at) =
           [words |-> Split(x, at) \o ReadOf(y, at).words,
            word |-> ReadOf(y, at).word]
<1> DEFINE before == Append(x, s)
           words == Split(x, at)
           After(z) == [words |-> words \o ReadOf(z, at).words,
                        word |-> ReadOf(z, at).word]
           A == {z \in Texts : ReadOf(before \o z, at) = After(z)}
<1>1. before \in Texts /\ words \in Seq(Texts)
  BY AppendProperties, SplitSteps DEF Texts
<1>2. ReadOf(before, at) = [words |-> words, word |-> <<>>]
  <2>1. ReadOf(before, at) = Putting(ReadOf(x, at), s, at)
    BY SplitSteps
  <2>2. words = Closing(ReadOf(x, at))
    BY SplitSteps
  <2> QED
    BY <2>1, <2>2 DEF Putting
<1> HIDE DEF before, words
<1>3. <<>> \in A
  <2>1. before \o <<>> = before /\ words \o <<>> = words
    BY <1>1, ConcatEmptySeq DEF Texts
  <2>2. ReadOf(<<>>, at) = [words |-> <<>>, word |-> <<>>]
    BY SplitSteps
  <2>3. <<>> \in Texts
    BY EmptySeq DEF Texts
  <2> QED
    <3>0. ReadOf(<<>>, at).words = <<>> /\ ReadOf(<<>>, at).word = <<>>
      BY <2>2
    <3>1. After(<<>>) = [words |-> words, word |-> <<>>]
      BY <2>1, <3>0
    <3> HIDE DEF After
    <3> QED
      BY <1>2, <2>1, <2>3, <3>1
<1>4. ASSUME NEW z \in A, NEW c \in Characters PROVE Append(z, c) \in A
  <2>1. /\ z \in Texts /\ before \o z \in Texts /\ ReadOf(z, at) \in Reads
        /\ Append(z, c) \in Texts
    BY <1>1, SplitSteps, ConcatProperties, AppendProperties DEF Texts
  <2>2. before \o Append(z, c) = Append(before \o z, c)
    BY <1>1, <2>1, ConcatAppend DEF Texts
  <2> DEFINE read == ReadOf(z, at)
  <2>3. ReadOf(before \o Append(z, c), at) = Putting(After(z), c, at)
    BY <2>1, <2>2, SplitSteps
  <2>4. ReadOf(Append(z, c), at) = Putting(read, c, at)
    BY <2>1, SplitSteps
  <2>5. Closing(After(z)) = words \o Closing(read)
    BY <1>1, <2>1, ClosingConcat
  <2>6. Putting(After(z), c, at) = After(Append(z, c))
    <3> HIDE DEF read
    <3>1. CASE c \in at
      <4>1. Putting(read, c, at) = [words |-> Closing(read), word |-> <<>>]
        BY <3>1 DEF Putting
      <4>2. Putting(After(z), c, at) =
              [words |-> Closing(After(z)), word |-> <<>>]
        BY <3>1 DEF Putting
      <4>3. /\ ReadOf(Append(z, c), at).words = Closing(read)
            /\ ReadOf(Append(z, c), at).word = <<>>
        BY <2>4, <4>1 DEF read
      <4>4. After(Append(z, c)) =
              [words |-> words \o Closing(read), word |-> <<>>]
        BY <4>3
      <4> HIDE DEF After
      <4> QED
        BY <2>5, <4>2, <4>4 DEF read
    <3>2. CASE c \notin at
      <4>1. Putting(read, c, at) =
              [words |-> read.words, word |-> Append(read.word, c)]
        BY <3>2 DEF Putting
      <4>2. Putting(After(z), c, at) =
              [words |-> words \o read.words, word |-> Append(read.word, c)]
        BY <3>2 DEF Putting, read
      <4> QED
        BY <2>4, <4>1, <4>2
    <3> QED
      BY <3>1, <3>2
  <2> QED
    BY <2>1, <2>3, <2>6
<1>5. A = Seq(Characters)
  <2>1. A \subseteq Seq(Characters)
    BY DEF Texts
  <2> HIDE DEF A
  <2> QED
    BY <1>3, <1>4, <2>1, SeqSetInduction
<1>6. y \in A
  BY <1>5 DEF Texts
<1> QED
  BY <1>6 DEF before, words

LEMMA SplitSeparated ==
  ASSUME NEW at, NEW x \in Texts, NEW s \in at \cap Characters, NEW y \in Texts
  PROVE  Split(Append(x, s) \o y, at) = Split(x, at) \o Split(y, at)
<1>1. Append(x, s) \in Texts
  BY AppendProperties DEF Texts
<1>2. Append(x, s) \o y \in Texts
  BY <1>1, ConcatProperties DEF Texts
<1>3. Split(Append(x, s) \o y, at) = Closing(ReadOf(Append(x, s) \o y, at))
  BY <1>2, SplitSteps
<1>4. /\ ReadOf(y, at) \in Reads /\ Split(y, at) = Closing(ReadOf(y, at))
      /\ Split(x, at) \in Seq(Texts)
  BY SplitSteps
<1> QED
  BY <1>3, <1>4, ReadSeparated, ClosingConcat
-----------------------------------------------------------------------------
(* Texts over some of the characters.                                      *)

LEMMA SeqOfSubset ==
  ASSUME NEW S, NEW P \in SUBSET S, NEW x \in Seq(P)
  PROVE  x \in Seq(S)
<1>1. Len(x) \in Nat /\ x \in [1..Len(x) -> P]
  BY LenProperties
<1>2. x \in [1..Len(x) -> S]
  BY <1>1
<1> QED
  BY <1>1, <1>2

\* A set of characters that has what two of its characters compose to.
Closed(P) ==
  /\ P \subseteq Characters
  /\ "a" \in P => "aa" \in P
  /\ "A" \in P => "AA" \in P

LEMMA NfcOver ==
  ASSUME NEW P, Closed(P), NEW x \in Seq(P)
  PROVE  /\ nfc(x) \in Seq(P)
         /\ x # <<>> => nfc(x) # <<>>
<1> DEFINE A == {y \in Seq(P) : nfc(y) \in Seq(P) /\ (y # <<>> => nfc(y) # <<>>)}
<1>1. <<>> \in A
  BY NfcSteps, EmptySeq
<1>2. ASSUME NEW y \in A, NEW c \in P PROVE Append(y, c) \in A
  <2>1. y \in Seq(P) /\ nfc(y) \in Seq(P) /\ P \in SUBSET Characters
    BY DEF Closed
  <2>2. y \in Texts /\ c \in Characters
    BY <2>1, SeqOfSubset DEF Texts
  <2>3. nfc(Append(y, c)) = Composing(nfc(y), c)
    BY <2>2, NfcSteps
  <2>4. Composing(nfc(y), c) \in Seq(P) /\ Composing(nfc(y), c) # <<>>
    <3>1. CASE c = Mark /\ nfc(y) # <<>> /\ Last(nfc(y)) \in DOMAIN Composed
      <4>1. PICK r \in Seq(P), l \in P : nfc(y) = Append(r, l)
        BY <2>1, <3>1, SequenceEmptyOrAppend
      <4>2. Last(nfc(y)) = l /\ Front(nfc(y)) = r
        BY <4>1, AppendParts
      <4>3. Composed[l] \in P
        BY <3>1, <4>2, CharacterFacts DEF Closed
      <4>4. Composing(nfc(y), c) = Append(r, Composed[l])
        BY <3>1, <4>2 DEF Composing
      <4> QED
        BY <4>3, <4>4, AppendProperties
    <3>2. CASE ~(c = Mark /\ nfc(y) # <<>> /\ Last(nfc(y)) \in DOMAIN Composed)
      BY <2>1, <3>2, AppendProperties DEF Composing
    <3> QED
      BY <3>1, <3>2
  <2>5. Append(y, c) \in Seq(P)
    BY <2>1, AppendProperties
  <2> QED
    BY <2>3, <2>4, <2>5
<1>3. A = Seq(P)
  <2>1. A \subseteq Seq(P)
    OBVIOUS
  <2> HIDE DEF A
  <2> QED
    BY <1>1, <1>2, <2>1, SeqSetInduction
<1>4. x \in A
  BY <1>3
<1> QED
  BY <1>4

\* The words of a text are of its characters, without those between them, and
\* none is empty.
LEMMA SplitOver ==
  ASSUME NEW at, NEW P \in SUBSET Characters, NEW x \in Seq(P)
  PROVE  /\ ReadOf(x, at).words \in Seq(Seq(P \ at) \ {<<>>})
         /\ ReadOf(x, at).word \in Seq(P \ at)
         /\ Split(x, at) \in Seq(Seq(P \ at) \ {<<>>})
<1> DEFINE Q == Seq(P \ at) \ {<<>>}
           A == {y \in Seq(P) : /\ ReadOf(y, at).words \in Seq(Q)
                                /\ ReadOf(y, at).word \in Seq(P \ at)}
<1>1. <<>> \in A
  <2>1. ReadOf(<<>>, at).words = <<>> /\ ReadOf(<<>>, at).word = <<>>
    BY SplitSteps
  <2> HIDE DEF Q
  <2> QED
    BY <2>1, EmptySeq
<1>2. ASSUME NEW read, read.words \in Seq(Q), read.word \in Seq(P \ at)
      PROVE  Closing(read) \in Seq(Q)
  <2>1. CASE read.word = <<>>
    BY <1>2, <2>1 DEF Closing
  <2>2. CASE read.word # <<>>
    <3>1. read.word \in Q
      BY <1>2, <2>2
    <3> HIDE DEF Q
    <3> QED
      BY <1>2, <2>2, <3>1, AppendProperties DEF Closing
  <2> QED
    BY <2>1, <2>2
<1>3. ASSUME NEW y \in A, NEW c \in P PROVE Append(y, c) \in A
  <2>1. y \in Seq(P) /\ y \in Texts /\ c \in Characters
    BY SeqOfSubset DEF Texts
  <2> DEFINE read == ReadOf(y, at)
             next == ReadOf(Append(y, c), at)
  <2>2. next = Putting(read, c, at)
    BY <2>1, SplitSteps
  <2>3. read.words \in Seq(Q) /\ read.word \in Seq(P \ at)
    OBVIOUS
  <2>4. Append(y, c) \in Seq(P)
    BY <2>1, AppendProperties
  <2> HIDE DEF read, next, Q
  <2>5. next.words \in Seq(Q) /\ next.word \in Seq(P \ at)
    <3>1. CASE c \in at
      <4>1. next = [words |-> Closing(read), word |-> <<>>]
        BY <2>2, <3>1 DEF Putting
      <4>2. Closing(read) \in Seq(Q)
        BY <1>2, <2>3
      <4> QED
        BY <4>1, <4>2, EmptySeq
    <3>2. CASE c \notin at
      <4>1. next = [words |-> read.words, word |-> Append(read.word, c)]
        BY <2>2, <3>2 DEF Putting
      <4>2. Append(read.word, c) \in Seq(P \ at)
        BY <2>3, <3>2, AppendProperties
      <4> QED
        BY <2>3, <4>1, <4>2
    <3> QED
      BY <3>1, <3>2
  <2> QED
    BY <2>4, <2>5 DEF next
<1>4. A = Seq(P)
  <2>1. A \subseteq Seq(P)
    OBVIOUS
  <2> HIDE DEF A
  <2> QED
    BY <1>1, <1>3, <2>1, SeqSetInduction
<1>5. x \in A
  BY <1>4
<1>6. ReadOf(x, at).words \in Seq(Q) /\ ReadOf(x, at).word \in Seq(P \ at)
  BY <1>5
<1>7. Split(x, at) = Closing(ReadOf(x, at))
  BY SplitSteps, SeqOfSubset DEF Texts
<1> QED
  BY <1>2, <1>6, <1>7

\* A word splits into itself.
LEMMA SplitWord ==
  ASSUME NEW at, NEW w \in Seq(Characters \ at)
  PROVE  /\ Split(w, at) = IF w = <<>> THEN <<>> ELSE <<w>>
         /\ ReadOf(w, at) = [words |-> <<>>, word |-> w]
<1> DEFINE P == Characters \ at
           A == {y \in Seq(P) : ReadOf(y, at) = [words |-> <<>>, word |-> y]}
<1>1. <<>> \in A
  BY SplitSteps, EmptySeq
<1>2. ASSUME NEW y \in A, NEW c \in P PROVE Append(y, c) \in A
  <2>1. y \in Seq(P) /\ P \in SUBSET Characters /\ c \in Characters /\ c \notin at
    OBVIOUS
  <2>2. y \in Texts
    BY <2>1, SeqOfSubset DEF Texts
  <2>3. ReadOf(Append(y, c), at) = Putting(ReadOf(y, at), c, at)
    BY <2>1, <2>2, SplitSteps
  <2>4. ReadOf(y, at).words = <<>> /\ ReadOf(y, at).word = y
    OBVIOUS
  <2>5. Append(y, c) \in Seq(P)
    BY <2>1, AppendProperties
  <2> QED
    BY <2>1, <2>3, <2>4, <2>5 DEF Putting
<1>3. A = Seq(P)
  <2>1. A \subseteq Seq(P)
    OBVIOUS
  <2> HIDE DEF A, P
  <2> QED
    BY <1>1, <1>2, <2>1, SeqSetInduction
<1>4. w \in A
  BY <1>3
<1>5. ReadOf(w, at) = [words |-> <<>>, word |-> w]
  BY <1>4
<1>6. Split(w, at) = Closing(ReadOf(w, at))
  <2>1. w \in Texts
    BY SeqOfSubset DEF Texts
  <2> QED
    BY <2>1, SplitSteps
<1>7. Append(<<>>, w) = <<w>>
  OBVIOUS
<1> QED
  BY <1>5, <1>6, <1>7 DEF Closing

\* Without line breaks, spaces are all the whitespace there is.
LEMMA SplitAtSpaces ==
  ASSUME NEW x \in Seq(Characters \ {"nl"})
  PROVE  Split(x, {"sp"}) = Split(x, Whitespace)
<1> DEFINE P == Characters \ {"nl"}
           A == {y \in Seq(P) : ReadOf(y, {"sp"}) = ReadOf(y, Whitespace)}
<1>1. <<>> \in A
  BY SplitSteps, EmptySeq
<1>2. ASSUME NEW y \in A, NEW c \in P PROVE Append(y, c) \in A
  <2>1. y \in Seq(P) /\ y \in Texts /\ c \in Characters
    BY SeqOfSubset DEF Texts
  <2>2. c \in {"sp"} <=> c \in Whitespace
    BY CharacterFacts
  <2>3. /\ ReadOf(Append(y, c), {"sp"}) = Putting(ReadOf(y, {"sp"}), c, {"sp"})
        /\ ReadOf(Append(y, c), Whitespace) =
             Putting(ReadOf(y, Whitespace), c, Whitespace)
    BY <2>1, SplitSteps
  <2>4. ReadOf(y, {"sp"}) = ReadOf(y, Whitespace)
    OBVIOUS
  <2>5. Append(y, c) \in Seq(P)
    BY <2>1, AppendProperties
  <2> QED
    BY <2>2, <2>3, <2>4, <2>5 DEF Putting
<1>3. A = Seq(P)
  <2>1. A \subseteq Seq(P)
    OBVIOUS
  <2> HIDE DEF A, P
  <2> QED
    BY <1>1, <1>2, <2>1, SeqSetInduction
<1>4. x \in A /\ x \in Texts
  BY <1>3, SeqOfSubset DEF Texts
<1> QED
  BY <1>4, SplitSteps
-----------------------------------------------------------------------------
(* Composed texts stay as they are.                                        *)

LEMMA StablePrefix ==
  ASSUME NEW x \in Texts, NEW c \in Characters, nfc(Append(x, c)) = Append(x, c)
  PROVE  nfc(x) = x /\ Composing(x, c) = Append(x, c)
<1>1. nfc(x) \in Texts /\ nfc(Append(x, c)) = Composing(nfc(x), c)
  BY NfcSteps
<1>2. CASE c = Mark /\ nfc(x) # <<>> /\ Last(nfc(x)) \in DOMAIN Composed
  <2>1. PICK r \in Texts, l \in Characters : nfc(x) = Append(r, l)
    BY <1>1, <1>2, SequenceEmptyOrAppend DEF Texts
  <2>2. Last(nfc(x)) = l /\ Front(nfc(x)) = r
    BY <2>1, AppendParts DEF Texts
  <2>3. Composed[l] \in Characters /\ Composed[l] # Mark
    BY <1>2, <2>2, CharacterFacts
  <2>4. Append(x, c) = Append(r, Composed[l])
    BY <1>1, <1>2, <2>2 DEF Composing
  <2>5. c = Composed[l]
    BY <2>1, <2>3, <2>4, AppendInjective DEF Texts
  <2> QED
    BY <1>2, <2>3, <2>5
<1>3. CASE ~(c = Mark /\ nfc(x) # <<>> /\ Last(nfc(x)) \in DOMAIN Composed)
  <2>1. Append(nfc(x), c) = Append(x, c)
    BY <1>1, <1>3 DEF Composing
  <2>2. nfc(x) = x
    <3> DEFINE done == nfc(x)
    <3>1. done \in Seq(Characters) /\ x \in Seq(Characters)
          /\ Append(done, c) = Append(x, c)
      BY <1>1, <2>1 DEF Texts
    <3> HIDE DEF done
    <3>2. done = x
      BY <3>1, AppendInjective
    <3> QED
      BY <3>2 DEF done
  <2> QED
    BY <1>3, <2>2 DEF Composing
<1> QED
  BY <1>2, <1>3

LEMMA NfcStable ==
  ASSUME NEW x \in Texts
  PROVE  nfc(nfc(x)) = nfc(x)
<1> DEFINE A == {y \in Texts : nfc(nfc(y)) = nfc(y)}
<1>1. <<>> \in A
  BY NfcSteps, EmptySeq DEF Texts
<1>2. ASSUME NEW y \in A, NEW c \in Characters PROVE Append(y, c) \in A
  <2> DEFINE done == nfc(y)
  <2>1. /\ y \in Texts /\ done \in Texts /\ nfc(done) = done
        /\ nfc(Append(y, c)) = Composing(done, c)
        /\ Append(y, c) \in Texts
    BY NfcSteps, AppendProperties DEF Texts
  <2> HIDE DEF done
  <2>2. CASE c = Mark /\ done # <<>> /\ Last(done) \in DOMAIN Composed
    <3>1. PICK r \in Texts, l \in Characters : done = Append(r, l)
      BY <2>1, <2>2, SequenceEmptyOrAppend DEF Texts
    <3>2. Last(done) = l /\ Front(done) = r
      BY <3>1, AppendParts DEF Texts
    <3>3. Composed[l] \in Characters /\ Composed[l] # Mark
      BY <2>2, <3>2, CharacterFacts
    <3>4. Composing(done, c) = Append(r, Composed[l])
      BY <2>2, <3>2 DEF Composing
    <3>5. nfc(r) = r
      BY <2>1, <3>1, StablePrefix
    <3>6. nfc(Append(r, Composed[l])) = Composing(r, Composed[l])
      BY <3>3, <3>5, NfcSteps
    <3>7. Composing(r, Composed[l]) = Append(r, Composed[l])
      BY <3>3 DEF Composing
    <3> QED
      BY <2>1, <3>4, <3>6, <3>7
  <2>3. CASE ~(c = Mark /\ done # <<>> /\ Last(done) \in DOMAIN Composed)
    <3>1. Composing(done, c) = Append(done, c)
      BY <2>3 DEF Composing
    <3>2. nfc(Append(done, c)) = Composing(done, c)
      BY <2>1, NfcSteps
    <3> QED
      BY <2>1, <3>1, <3>2
  <2> QED
    BY <2>2, <2>3
<1>3. A = Seq(Characters)
  <2>1. A \subseteq Seq(Characters)
    BY DEF Texts
  <2> HIDE DEF A
  <2> QED
    BY <1>1, <1>2, <2>1, SeqSetInduction
<1>4. x \in A
  BY <1>3 DEF Texts
<1> QED
  BY <1>4

\* So do their words.
LEMMA WordsStable ==
  ASSUME NEW at, NEW x \in Texts, nfc(x) = x
  PROVE  \A i \in DOMAIN Split(x, at) : nfc(Split(x, at)[i]) = Split(x, at)[i]
<1> DEFINE Good(words) == \A i \in DOMAIN words : nfc(words[i]) = words[i]
           Sound(y) ==
             LET read == ReadOf(y, at) IN
             /\ \A i \in DOMAIN read.words : nfc(read.words[i]) = read.words[i]
             /\ nfc(read.word) = read.word
             /\ read.word # <<>> => y # <<>> /\ Last(read.word) = Last(y)
           A == {y \in Texts : nfc(y) = y => Sound(y)}
<1>1. <<>> \in A
  <2>1. ReadOf(<<>>, at).words = <<>> /\ ReadOf(<<>>, at).word = <<>>
    BY SplitSteps
  <2> QED
    BY <2>1, NfcSteps, EmptySeq DEF Texts
<1>2. ASSUME NEW read \in Reads, Good(read.words), nfc(read.word) = read.word
      PROVE  Good(Closing(read))
  <2>1. read.words \in Seq(Texts) /\ read.word \in Texts
    BY DEF Reads
  <2>2. CASE read.word = <<>>
    BY <1>2, <2>2 DEF Closing
  <2>3. CASE read.word # <<>>
    <3> DEFINE n == Len(read.words)
               words == Append(read.words, read.word)
    <3>1. /\ n \in Nat /\ DOMAIN read.words = 1..n /\ DOMAIN words = 1..(n + 1)
          /\ \A i \in 1..n : words[i] = read.words[i]
          /\ words[n + 1] = read.word
      BY <2>1, AppendProperties, LenProperties
    <3>2. \A i \in 1..(n + 1) : i # n + 1 => i \in 1..n
      BY <3>1
    <3> HIDE DEF words, n
    <3>3. Good(words)
      BY <1>2, <3>1, <3>2
    <3> QED
      BY <2>3, <3>3 DEF Closing, words
  <2> QED
    BY <2>2, <2>3
<1>3. ASSUME NEW y \in A, NEW c \in Characters PROVE Append(y, c) \in A
  <2>1. y \in Texts /\ Append(y, c) \in Texts
    BY AppendProperties DEF Texts
  <2>2. ASSUME nfc(Append(y, c)) = Append(y, c) PROVE Sound(Append(y, c))
    <3> DEFINE read == ReadOf(y, at)
               next == ReadOf(Append(y, c), at)
    <3>1. nfc(y) = y /\ Composing(y, c) = Append(y, c)
      BY <2>1, <2>2, StablePrefix
    <3>2. Sound(y) /\ read \in Reads /\ next = Putting(read, c, at)
      BY <2>1, <3>1, SplitSteps
    <3>3. /\ Good(read.words) /\ nfc(read.word) = read.word
          /\ read.word # <<>> => y # <<>> /\ Last(read.word) = Last(y)
      BY <3>2
    <3>4. read.words \in Seq(Texts) /\ read.word \in Texts
      BY <3>2 DEF Reads
    <3>5. Append(y, c) # <<>> /\ Last(Append(y, c)) = c
      BY <2>1, AppendParts DEF Texts
    <3> HIDE DEF read, next
    <3>6. CASE c \in at
      <4>1. next = [words |-> Closing(read), word |-> <<>>]
        BY <3>2, <3>6 DEF Putting
      <4>2. next.words = Closing(read) /\ next.word = <<>>
        BY <4>1
      <4>3. Good(Closing(read))
        BY <1>2, <3>2, <3>3
      <4>4. Good(next.words) /\ nfc(next.word) = next.word
        BY <4>2, <4>3, NfcSteps
      <4> QED
        BY <4>2, <4>4 DEF next
    <3>7. CASE c \notin at
      <4>1. next = [words |-> read.words, word |-> Append(read.word, c)]
        BY <3>2, <3>7 DEF Putting
      <4>2. next.words = read.words /\ next.word = Append(read.word, c)
        BY <4>1
      <4>3. nfc(Append(read.word, c)) = Composing(read.word, c)
        BY <3>3, <3>4, NfcSteps
      <4>4. Composing(read.word, c) = Append(read.word, c)
        <5>1. CASE c = Mark /\ read.word # <<>>
                   /\ Last(read.word) \in DOMAIN Composed
          <6>1. Composing(y, c) = Append(Front(y), Composed[Last(y)])
            BY <3>3, <5>1 DEF Composing
          <6>2. PICK r \in Texts, l \in Characters : y = Append(r, l)
            BY <2>1, <3>3, <5>1, SequenceEmptyOrAppend DEF Texts
          <6>3. Front(y) = r /\ Last(y) = l
            BY <6>2, AppendParts DEF Texts
          <6>4. Composed[l] \in Characters /\ Composed[l] # Mark
            BY <3>3, <5>1, <6>3, CharacterFacts
          <6>5. Append(r, Composed[l]) = Append(y, c)
            BY <3>1, <6>1, <6>3
          <6>6. Composed[l] = c
            BY <2>1, <6>4, <6>5, AppendInjective DEF Texts
          <6> QED
            BY <5>1, <6>4, <6>6
        <5>2. CASE ~(c = Mark /\ read.word # <<>>
                     /\ Last(read.word) \in DOMAIN Composed)
          BY <5>2 DEF Composing
        <5> QED
          BY <5>1, <5>2
      <4>5. Last(Append(read.word, c)) = c
        BY <3>4, AppendParts DEF Texts
      <4>6. Good(next.words) /\ nfc(next.word) = next.word
            /\ Last(next.word) = Last(Append(y, c))
        BY <3>3, <3>5, <4>2, <4>3, <4>4, <4>5
      <4> QED
        BY <3>5, <4>6 DEF next
    <3> QED
      BY <3>6, <3>7
  <2> HIDE DEF Sound
  <2> QED
    BY <2>1, <2>2
<1>4. A = Seq(Characters)
  <2>1. A \subseteq Seq(Characters)
    BY DEF Texts
  <2> HIDE DEF A
  <2> QED
    BY <1>1, <1>3, <2>1, SeqSetInduction
<1>5. x \in A
  BY <1>4 DEF Texts
<1>6. Sound(x)
  BY <1>5
<1>7. ReadOf(x, at) \in Reads /\ Split(x, at) = Closing(ReadOf(x, at))
  BY SplitSteps
<1>8. Good(ReadOf(x, at).words) /\ nfc(ReadOf(x, at).word) = ReadOf(x, at).word
  BY <1>6
<1>9. Good(Split(x, at))
  <2> HIDE DEF Good
  <2> QED
    BY <1>2, <1>7, <1>8
<1> QED
  BY <1>9
-----------------------------------------------------------------------------
(* What an element becomes, one after another.                             *)

Gives(g, D, S) == g \in [D -> Seq(S)]
Mapped(g, ts) == FlattenSeq([i \in DOMAIN ts |-> g[ts[i]]])

LEMMA MappedSteps ==
  ASSUME NEW D, NEW S, NEW g, Gives(g, D, S)
  PROVE  /\ Mapped(g, <<>>) = <<>>
         /\ \A t \in D : Mapped(g, <<t>>) = g[t]
         /\ \A ts \in Seq(D) : Mapped(g, ts) \in Seq(S)
         /\ \A ts \in Seq(D), t \in D :
              Mapped(g, Append(ts, t)) = Mapped(g, ts) \o g[t]
<1> DEFINE Made(ts) == [i \in DOMAIN ts |-> g[ts[i]]]
<1>0. g \in [D -> Seq(S)]
  BY DEF Gives
<1>1. Mapped(g, <<>>) = <<>>
  <2>1. Made(<<>>) = <<>>
    OBVIOUS
  <2> QED
    BY <2>1, FlattenSteps DEF Mapped
<1>2. ASSUME NEW ts \in Seq(D) PROVE Made(ts) \in [1..Len(ts) -> Seq(S)]
  <2>1. DOMAIN ts = 1..Len(ts) /\ \A i \in 1..Len(ts) : ts[i] \in D
    BY ElementOfSeq, LenProperties
  <2> QED
    BY <1>0, <2>1
<1>3. ASSUME NEW ts \in Seq(D) PROVE Mapped(g, ts) \in Seq(S)
  <2>1. Len(ts) \in Nat
    BY LenProperties
  <2>2. Made(ts) \in [1..Len(ts) -> Seq(S)]
    BY <1>2
  <2> HIDE DEF Made
  <2>4. Made(ts) \in Seq(Seq(S))
    <3> DEFINE made == Made(ts)
               n == Len(ts)
    <3>1. n \in Nat /\ made \in [1..n -> Seq(S)]
      BY <2>1, <2>2
    <3> HIDE DEF made, n
    <3>2. made \in Seq(Seq(S))
      BY <3>1
    <3> QED
      BY <3>2 DEF made
  <2>3. FlattenSeq(Made(ts)) \in Seq(S)
    BY <2>4, FlattenSteps
  <2> QED
    BY <2>3 DEF Mapped, Made
<1>4. ASSUME NEW ts \in Seq(D), NEW t \in D
      PROVE  Mapped(g, Append(ts, t)) = Mapped(g, ts) \o g[t]
  <2> DEFINE n == Len(ts)
             more == Append(ts, t)
  <2>1. /\ n \in Nat /\ DOMAIN ts = 1..n /\ more \in Seq(D) /\ Len(more) = n + 1
        /\ DOMAIN more = 1..(n + 1)
        /\ \A i \in 1..n : more[i] = ts[i]
        /\ more[n + 1] = t
    BY AppendProperties, LenProperties
  <2>2. Made(ts) \in [1..n -> Seq(S)] /\ Made(more) \in [1..(n + 1) -> Seq(S)]
    BY <1>2, <2>1
  <2> HIDE DEF n, more
  <2>3. \A i \in 1..n : Made(more)[i] = Made(ts)[i]
    BY <2>1
  <2>4. Made(more)[n + 1] = g[t]
    BY <2>1
  <2> HIDE DEF Made
  <2>5. Agree(n, Made(more), Made(ts))
    BY <2>3 DEF Agree
  <2>6. FlattenSeq(Made(more)) = FlattenSeq(Made(ts)) \o Made(more)[n + 1]
    BY <2>1, <2>2, <2>5, FlattenLonger
  <2> QED
    BY <2>4, <2>6 DEF Mapped, Made, more
<1>5. ASSUME NEW t \in D PROVE Mapped(g, <<t>>) = g[t]
  <2>1. <<t>> = Append(<<>>, t) /\ <<>> \in Seq(D) /\ g[t] \in Seq(S)
    BY <1>0
  <2>2. Mapped(g, <<t>>) = Mapped(g, <<>>) \o g[t]
    BY <1>4, <2>1
  <2>3. <<>> \o g[t] = g[t]
    BY <2>1, ConcatEmptySeq
  <2> QED
    BY <1>1, <2>2, <2>3
<1> QED
  BY <1>1, <1>3, <1>4, <1>5

\* Two ways of taking the elements of a sequence give the same.
LEMMA MappedAlike ==
  ASSUME NEW ts, NEW us, NEW g, NEW h, DOMAIN ts = DOMAIN us,
         \A i \in DOMAIN ts : g[ts[i]] = h[us[i]]
  PROVE  Mapped(g, ts) = Mapped(h, us)
<1>1. [i \in DOMAIN ts |-> g[ts[i]]] = [i \in DOMAIN us |-> h[us[i]]]
  OBVIOUS
<1> QED
  BY <1>1 DEF Mapped

\* Elements that stay as they are.
LEMMA MappedSame ==
  ASSUME NEW D, NEW g, Gives(g, D, D), NEW ts \in Seq(D),
         \A i \in DOMAIN ts : g[ts[i]] = <<ts[i]>>
  PROVE  Mapped(g, ts) = ts
<1> DEFINE Same(us) == \A i \in DOMAIN us : g[us[i]] = <<us[i]>>
           A == {us \in Seq(D) : Same(us) => Mapped(g, us) = us}
           Steps(h) == /\ Mapped(h, <<>>) = <<>>
                       /\ \A us \in Seq(D), u \in D :
                            Mapped(h, Append(us, u)) = Mapped(h, us) \o h[u]
<1>0. Steps(g)
  BY MappedSteps DEF Steps
<1>1. <<>> \in A
  BY <1>0, EmptySeq DEF Steps
<1>2. ASSUME NEW us \in A, NEW u \in D PROVE Append(us, u) \in A
  <2> DEFINE n == Len(us)
             more == Append(us, u)
  <2>1. /\ us \in Seq(D)
        /\ n \in Nat /\ DOMAIN us = 1..n /\ more \in Seq(D)
        /\ DOMAIN more = 1..(n + 1)
        /\ \A i \in 1..n : more[i] = us[i]
        /\ more[n + 1] = u
    BY AppendProperties, LenProperties
  <2>2. ASSUME Same(more) PROVE Mapped(g, more) = more
    <3> HIDE DEF n, more
    <3>0. 1..n \subseteq 1..(n + 1) /\ n + 1 \in 1..(n + 1)
      BY <2>1
    <3>1. Same(us) /\ g[u] = <<u>>
      BY <2>1, <2>2, <3>0
    <3> HIDE DEF Same
    <3>2. Mapped(g, us) = us
      BY <3>1
    <3>3. Mapped(g, Append(us, u)) = Mapped(g, us) \o g[u]
      BY <1>0, <2>1 DEF Steps
    <3>4. us \o <<u>> = Append(us, u)
      BY <2>1, AppendIsConcat
    <3> QED
      BY <3>1, <3>2, <3>3, <3>4 DEF more
  <2> HIDE DEF Same
  <2> QED
    BY <2>1, <2>2 DEF more
<1>3. A = Seq(D)
  <2>1. A \subseteq Seq(D)
    OBVIOUS
  <2> HIDE DEF A
  <2> QED
    BY <1>1, <1>2, <2>1, SeqSetInduction
<1>4. ts \in A
  BY <1>3
<1> QED
  BY <1>4
-----------------------------------------------------------------------------
(* The words of a text, once it is composed.                               *)

WordsAt(at) == [text \in Texts |-> Split(nfc(text), at)]

LEMMA WordsTyped ==
  ASSUME NEW at
  PROVE  /\ Gives(WordsAt(at), Texts, Texts)
         /\ \A x \in Texts : WordsAt(at)[x] = Split(nfc(x), at)
         /\ WordsAt(at)[<<>>] = <<>>
<1>1. \A x \in Texts : Split(nfc(x), at) \in Seq(Texts)
  BY NfcSteps, SplitSteps
<1>2. Split(<<>>, at) = <<>> /\ <<>> \in Texts
  <2>1. <<>> \in Texts
    BY EmptySeq DEF Texts
  <2>2. Split(<<>>, at) = Closing([words |-> <<>>, word |-> <<>>])
    BY <2>1, SplitSteps
  <2> QED
    BY <2>1, <2>2 DEF Closing
<1> QED
  BY <1>1, <1>2, NfcSteps DEF WordsAt, Gives

\* A space, or a line break, stands between words.
LEMMA WordsSeparated ==
  ASSUME NEW at, NEW s \in at \cap Whitespace, NEW x \in Texts, NEW y \in Texts
  PROVE  /\ Append(x, s) \o y \in Texts
         /\ WordsAt(at)[Append(x, s) \o y] = WordsAt(at)[x] \o WordsAt(at)[y]
<1>1. s \in at \cap Characters /\ s \in Whitespace
  BY CharacterFacts
<1>2. Append(x, s) \o y \in Texts
  BY <1>1, AppendProperties, ConcatProperties DEF Texts
<1>3. nfc(x) \in Texts /\ nfc(y) \in Texts
  BY NfcSteps
<1>4. nfc(Append(x, s) \o y) = Append(nfc(x), s) \o nfc(y)
  BY <1>1, NfcSeparated
<1>5. Split(Append(nfc(x), s) \o nfc(y), at) = Split(nfc(x), at) \o Split(nfc(y), at)
  BY <1>1, <1>3, SplitSeparated
<1> QED
  BY <1>2, <1>4, <1>5, WordsTyped

\* Joined texts have the words of the texts.
LEMMA WordsJoined ==
  ASSUME NEW at, "sp" \in at, NEW ts \in Seq(Texts)
  PROVE  WordsAt(at)[Join(ts)] = Mapped(WordsAt(at), ts)
<1> DEFINE A == {us \in Seq(Texts) : WordsAt(at)[Join(us)] = Mapped(WordsAt(at), us)}
<1>0. Gives(WordsAt(at), Texts, Texts)
  BY WordsTyped
<1>1. <<>> \in A
  BY <1>0, WordsTyped, MappedSteps, JoinSteps, EmptySeq
<1>2. ASSUME NEW us \in A, NEW u \in Texts PROVE Append(us, u) \in A
  <2>1. us \in Seq(Texts) /\ Append(us, u) \in Seq(Texts) /\ Join(us) \in Texts
    BY JoinSteps, AppendProperties
  <2>2. Mapped(WordsAt(at), Append(us, u)) = Mapped(WordsAt(at), us) \o WordsAt(at)[u]
    <3> HIDE DEF A
    <3>1. us \in Seq(Texts) /\ u \in Texts
      BY <2>1
    <3> QED
      BY <1>0, <3>1, MappedSteps
  <2>3. WordsAt(at)[Join(us)] = Mapped(WordsAt(at), us)
    OBVIOUS
  <2>4. CASE us = <<>>
    <3>1. Append(us, u) = <<u>>
      BY <2>4
    <3>2. Join(Append(us, u)) = u
      BY <3>1, JoinSteps
    <3>3. Mapped(WordsAt(at), <<u>>) = WordsAt(at)[u]
      BY <1>0, MappedSteps
    <3> QED
      BY <2>1, <3>1, <3>2, <3>3
  <2>5. CASE us # <<>>
    <3>1. Join(Append(us, u)) = (Join(us) \o <<"sp">>) \o u
      BY <2>1, <2>5, JoinSteps DEF Adding
    <3>2. "sp" \in at \cap Whitespace /\ "sp" \in Characters
      BY CharacterFacts
    <3>3. Join(us) \o <<"sp">> = Append(Join(us), "sp")
      BY <2>1, <3>2, AppendIsConcat DEF Texts
    <3>4. WordsAt(at)[Append(Join(us), "sp") \o u] =
            WordsAt(at)[Join(us)] \o WordsAt(at)[u]
      BY <2>1, <3>2, WordsSeparated
    <3> QED
      BY <2>1, <2>2, <2>3, <3>1, <3>3, <3>4
  <2> QED
    BY <2>4, <2>5
<1>3. A = Seq(Texts)
  <2>1. A \subseteq Seq(Texts)
    OBVIOUS
  <2> HIDE DEF A
  <2> QED
    BY <1>1, <1>2, <2>1, SeqSetInduction
<1>4. ts \in A
  BY <1>3
<1> QED
  BY <1>4
-----------------------------------------------------------------------------
(* What normalising leaves: letters, marks and spaces.                     *)

Plain == Characters \ {"zero", "nl", "bell"}
LowerPlain == Plain \ Upper

LEMMA PlainFacts ==
  /\ Plain = {"a", "aa", "A", "AA", "mark", "sp"}
  /\ LowerPlain = {"a", "aa", "mark", "sp"}
  /\ Closed(Characters) /\ Closed(Plain) /\ Closed(LowerPlain)
  /\ Closed(Characters \ Whitespace) /\ Closed(Plain \ {"sp"})
  /\ \A c \in Characters : Kept(c) => (IF c \in Whitespace THEN "sp" ELSE c) \in Plain
  /\ \A c \in Plain : Kept(c) /\ (IF c \in Whitespace THEN "sp" ELSE c) = c
  /\ \A c \in Plain : Lowered(c) \in LowerPlain
  /\ \A c \in LowerPlain : Lowered(c) = c
<1>1. /\ Plain = {"a", "aa", "A", "AA", "mark", "sp"}
      /\ LowerPlain = {"a", "aa", "mark", "sp"}
  BY CharacterFacts DEF Plain, LowerPlain, Upper
<1>2. /\ Closed(Characters) /\ Closed(Plain) /\ Closed(LowerPlain)
      /\ Closed(Characters \ Whitespace) /\ Closed(Plain \ {"sp"})
  BY <1>1, CharacterFacts DEF Closed
<1>3. /\ \A c \in Characters : Kept(c) => (IF c \in Whitespace THEN "sp" ELSE c) \in Plain
      /\ \A c \in Plain : Kept(c) /\ (IF c \in Whitespace THEN "sp" ELSE c) = c
  BY <1>1, CharacterFacts DEF Kept, Removed, Control
<1>4. /\ \A c \in Plain : Lowered(c) \in LowerPlain
      /\ \A c \in LowerPlain : Lowered(c) = c
  BY <1>1 DEF Lowered
<1> QED
  BY <1>1, <1>2, <1>3, <1>4

LEMMA CleanedPlain ==
  /\ \A x \in Texts : Cleaned(x) \in Seq(Plain)
  /\ \A x \in Seq(Plain) : Cleaned(x) = x
<1>1. ASSUME NEW x \in Texts PROVE Cleaned(x) \in Seq(Plain)
  <2> DEFINE A == {y \in Texts : Cleaned(y) \in Seq(Plain)}
  <2>1. <<>> \in A
    BY CleanSteps, EmptySeq DEF Texts
  <2>2. ASSUME NEW y \in A, NEW c \in Characters PROVE Append(y, c) \in A
    <3> DEFINE cleaned == Cleaned(y)
               d == IF c \in Whitespace THEN "sp" ELSE c
    <3>1. /\ y \in Texts /\ cleaned \in Seq(Plain) /\ Append(y, c) \in Texts
          /\ Cleaned(Append(y, c)) = Cleaning(cleaned, c)
      BY CleanSteps, AppendProperties DEF Texts
    <3>2. Kept(c) => d \in Plain
      BY PlainFacts
    <3>3. Cleaning(cleaned, c) = IF ~Kept(c) THEN cleaned ELSE Append(cleaned, d)
      BY DEF Cleaning
    <3> HIDE DEF cleaned, d
    <3>4. Cleaning(cleaned, c) \in Seq(Plain)
      BY <3>1, <3>2, <3>3, AppendProperties
    <3> QED
      BY <3>1, <3>4
  <2>3. A = Seq(Characters)
    <3>1. A \subseteq Seq(Characters)
      BY DEF Texts
    <3> HIDE DEF A
    <3> QED
      BY <2>1, <2>2, <3>1, SeqSetInduction
  <2>4. x \in A
    BY <2>3 DEF Texts
  <2> QED
    BY <2>4
<1>2. ASSUME NEW x \in Seq(Plain) PROVE Cleaned(x) = x
  <2> DEFINE A == {y \in Seq(Plain) : Cleaned(y) = y}
  <2>1. <<>> \in A
    BY CleanSteps, EmptySeq
  <2>2. ASSUME NEW y \in A, NEW c \in Plain PROVE Append(y, c) \in A
    <3>1. y \in Seq(Plain) /\ Plain \in SUBSET Characters /\ c \in Characters
      BY DEF Plain
    <3>2. y \in Texts
      BY <3>1, SeqOfSubset DEF Texts
    <3>3. Cleaned(Append(y, c)) = Cleaning(y, c)
      BY <3>1, <3>2, CleanSteps
    <3>4. Cleaning(y, c) = Append(y, c)
      BY PlainFacts DEF Cleaning
    <3>5. Append(y, c) \in Seq(Plain)
      BY <3>1, AppendProperties
    <3> QED
      BY <3>3, <3>4, <3>5
  <2>3. A = Seq(Plain)
    <3>1. A \subseteq Seq(Plain)
      OBVIOUS
    <3> HIDE DEF A
    <3> QED
      BY <2>1, <2>2, <3>1, SeqSetInduction
  <2> QED
    BY <2>3
<1> QED
  BY <1>1, <1>2

LEMMA JoinOver ==
  ASSUME NEW P \in SUBSET Characters, "sp" \in P, NEW ts \in Seq(Seq(P))
  PROVE  Join(ts) \in Seq(P)
<1> DEFINE A == {us \in Seq(Seq(P)) : Join(us) \in Seq(P)}
<1>1. <<>> \in A
  <2>1. <<>> \in Seq(P)
    BY EmptySeq
  <2> DEFINE Q == Seq(P)
  <2>2. <<>> \in Seq(Q)
    BY EmptySeq
  <2> QED
    BY <2>1, <2>2, JoinSteps
<1>2. ASSUME NEW us \in A, NEW u \in Seq(P) PROVE Append(us, u) \in A
  <2> DEFINE Q == Seq(P)
  <2>1. Q \in SUBSET Texts
    BY SeqOfSubset DEF Texts
  <2>2. us \in Seq(Q) /\ u \in Q /\ Join(us) \in Q
    OBVIOUS
  <2>3. u \in Texts
    BY <2>1, <2>2
  <2> HIDE DEF Q
  <2>4. us \in Seq(Texts) /\ Append(us, u) \in Seq(Q)
    BY <2>1, <2>2, SeqOfSubset, AppendProperties
  <2>5. CASE us = <<>>
    <3>1. Append(us, u) = <<u>>
      BY <2>5
    <3>2. Join(<<u>>) = u
      BY <2>3, JoinSteps
    <3> QED
      BY <2>2, <2>4, <3>1, <3>2 DEF Q
  <2>6. CASE us # <<>>
    <3>1. Join(Append(us, u)) = (Join(us) \o <<"sp">>) \o u
      BY <2>3, <2>4, <2>6, JoinSteps DEF Adding
    <3>2. <<"sp">> \in Seq(P)
      OBVIOUS
    <3>3. (Join(us) \o <<"sp">>) \o u \in Seq(P)
      BY <2>2, <3>2, ConcatProperties DEF Q
    <3> QED
      BY <2>4, <3>1, <3>3 DEF Q
  <2> QED
    BY <2>5, <2>6
<1>3. A = Seq(Seq(P))
  <2>1. A \subseteq Seq(Seq(P))
    OBVIOUS
  <2> HIDE DEF A
  <2> QED
    BY <1>1, <1>2, <2>1, SeqSetInduction
<1> QED
  BY <1>3
-----------------------------------------------------------------------------
(* finalize_text and clean_text.                                           *)

Collapsed(x) == Split(Cleaned(nfc(x)), {"sp"})
LEMMA FinalizeIs ==
  ASSUME NEW x
  PROVE  finalize_text(x) = Join(Collapsed(x))
BY DEF finalize_text, normalize_text, Collapsed

LEMMA CleanIs ==
  ASSUME NEW x
  PROVE  clean_text(x) = [i \in DOMAIN finalize_text(x) |-> Lowered(finalize_text(x)[i])]
BY DEF finalize_text, clean_text, normalize_text

\* The words a normalised text is joined from.
LEMMA CollapsedOver ==
  ASSUME NEW x \in Texts
  PROVE  /\ Cleaned(nfc(x)) \in Seq(Plain)
         /\ Collapsed(x) \in Seq(Seq(Plain \ {"sp"}) \ {<<>>})
         /\ \A P \in SUBSET Plain : Closed(P) /\ x \in Seq(P) =>
              /\ Cleaned(nfc(x)) = nfc(x)
              /\ Collapsed(x) \in Seq(Seq(P \ {"sp"}) \ {<<>>})
<1>1. nfc(x) \in Texts
  BY NfcSteps
<1>2. Cleaned(nfc(x)) \in Seq(Plain)
  BY <1>1, CleanedPlain
<1>3. Plain \in SUBSET Characters
  BY DEF Plain
<1>4. Collapsed(x) \in Seq(Seq(Plain \ {"sp"}) \ {<<>>})
  BY <1>2, <1>3, SplitOver DEF Collapsed
<1>5. ASSUME NEW P \in SUBSET Plain, Closed(P), x \in Seq(P)
      PROVE  /\ Cleaned(nfc(x)) = nfc(x)
             /\ Collapsed(x) \in Seq(Seq(P \ {"sp"}) \ {<<>>})
  <2>1. nfc(x) \in Seq(P)
    BY <1>5, NfcOver
  <2>2. nfc(x) \in Seq(Plain)
    BY <2>1, SeqOfSubset
  <2>3. Cleaned(nfc(x)) = nfc(x)
    BY <2>2, CleanedPlain
  <2>4. P \in SUBSET Characters
    BY <1>3
  <2>5. Split(nfc(x), {"sp"}) \in Seq(Seq(P \ {"sp"}) \ {<<>>})
    BY <2>1, <2>4, SplitOver
  <2> QED
    BY <2>3, <2>5 DEF Collapsed
<1> QED
  BY <1>2, <1>4, <1>5

LEMMA WordSeq ==
  ASSUME NEW P \in SUBSET Characters, NEW at,
         NEW ws \in Seq(Seq(P \ at) \ {<<>>})
  PROVE  ws \in Seq(Seq(P)) /\ ws \in Seq(Texts)
<1> DEFINE Q == Seq(P \ at) \ {<<>>}
           R == Seq(P)
<1>1. Q \in SUBSET R
  <2>1. P \ at \in SUBSET P
    OBVIOUS
  <2>2. \A q \in Seq(P \ at) : q \in Seq(P)
    BY <2>1, SeqOfSubset
  <2> QED
    BY <2>2
<1>2. R \in SUBSET Texts
  BY SeqOfSubset DEF Texts
<1>3. ws \in Seq(Q)
  OBVIOUS
<1> HIDE DEF Q, R
<1>4. ws \in Seq(R)
  BY <1>1, <1>3, SeqOfSubset
<1>5. ws \in Seq(Texts)
  BY <1>2, <1>4, SeqOfSubset
<1> QED
  BY <1>4, <1>5 DEF R

LEMMA FinalizedOver ==
  ASSUME NEW x \in Texts
  PROVE  /\ finalize_text(x) \in Seq(Plain)
         /\ \A P \in SUBSET Plain : Closed(P) /\ "sp" \in P /\ x \in Seq(P) =>
              finalize_text(x) \in Seq(P)
<1>1. Plain \in SUBSET Characters /\ "sp" \in Plain
  BY PlainFacts DEF Plain
<1>2. finalize_text(x) \in Seq(Plain)
  BY <1>1, CollapsedOver, WordSeq, JoinOver, FinalizeIs
<1>3. ASSUME NEW P \in SUBSET Plain, Closed(P), "sp" \in P, x \in Seq(P)
      PROVE  finalize_text(x) \in Seq(P)
  <2>1. P \in SUBSET Characters
    BY <1>1
  <2>2. Collapsed(x) \in Seq(Seq(P \ {"sp"}) \ {<<>>})
    BY <1>3, CollapsedOver
  <2>3. Collapsed(x) \in Seq(Seq(P))
    BY <2>1, <2>2, WordSeq
  <2> QED
    BY <1>3, <2>1, <2>3, JoinOver, FinalizeIs
<1> QED
  BY <1>2, <1>3

LEMMA CleanedOver ==
  ASSUME NEW x \in Texts
  PROVE  /\ clean_text(x) \in Seq(LowerPlain)
         /\ finalize_text(x) \in Seq(LowerPlain) => clean_text(x) = finalize_text(x)
<1> DEFINE f == finalize_text(x)
<1>1. f \in Seq(Plain)
  BY FinalizedOver
<1>2. clean_text(x) = [i \in DOMAIN f |-> Lowered(f[i])]
  BY CleanIs
<1> HIDE DEF f
<1>3. DOMAIN f = 1..Len(f) /\ Len(f) \in Nat /\ \A i \in 1..Len(f) : f[i] \in Plain
  BY <1>1, ElementOfSeq, LenProperties
<1>4. clean_text(x) \in [1..Len(f) -> LowerPlain]
  BY <1>2, <1>3, PlainFacts
<1>5. clean_text(x) \in Seq(LowerPlain)
  BY <1>3, <1>4
<1>6. ASSUME f \in Seq(LowerPlain) PROVE clean_text(x) = f
  <2>1. \A i \in 1..Len(f) : f[i] \in LowerPlain
    BY <1>6, ElementOfSeq
  <2>2. \A i \in 1..Len(f) : clean_text(x)[i] = f[i]
    BY <1>2, <1>3, <2>1, PlainFacts
  <2>3. clean_text(x) = [i \in 1..Len(f) |-> clean_text(x)[i]]
        /\ f = [i \in 1..Len(f) |-> f[i]]
    BY <1>1, <1>3, <1>4
  <2> QED
    BY <2>2, <2>3
<1> QED
  BY <1>5, <1>6 DEF f

\* Normalising a normalised text once more keeps its words, wherever they end.
LEMMA WordsFinalized ==
  ASSUME NEW at \in SUBSET Whitespace, "sp" \in at, NEW x \in Seq(Plain)
  PROVE  WordsAt(at)[finalize_text(x)] = WordsAt(at)[x]
<1> DEFINE ws == Collapsed(x)
           g == WordsAt(at)
           Q == Seq(Plain \ {"sp"}) \ {<<>>}
<1>1. x \in Texts /\ Plain \in SUBSET Characters
  BY SeqOfSubset DEF Texts, Plain
<1>2. /\ Cleaned(nfc(x)) = nfc(x) /\ ws \in Seq(Q) /\ ws = Split(nfc(x), {"sp"})
  <2>1. Plain \in SUBSET Plain /\ Closed(Plain)
    BY PlainFacts
  <2> QED
    BY <1>1, <2>1, CollapsedOver DEF Collapsed
<1>3. ws \in Seq(Texts)
  BY <1>1, <1>2, WordSeq
<1>4. g[finalize_text(x)] = Mapped(g, ws)
  BY <1>3, WordsJoined, FinalizeIs
<1>5. \A i \in DOMAIN ws : nfc(ws[i]) = ws[i]
  <2>1. nfc(x) \in Texts /\ nfc(nfc(x)) = nfc(x)
    BY <1>1, NfcSteps, NfcStable
  <2> QED
    BY <1>2, <2>1, WordsStable
<1>6. ASSUME NEW i \in DOMAIN ws PROVE g[ws[i]] = <<ws[i]>>
  <2>1. ws[i] \in Q
    <3> HIDE DEF Q, ws
    <3> QED
      BY <1>2, ElementOfSeq, LenProperties
  <2> DEFINE w == ws[i]
  <2>2. w \in Seq(Plain \ {"sp"}) /\ w # <<>> /\ nfc(w) = w
    BY <1>5, <2>1
  <2> HIDE DEF w
  <2>3. Plain \ {"sp"} \in SUBSET (Characters \ at)
    BY PlainFacts, CharacterFacts
  <2>4. w \in Seq(Characters \ at)
    BY <2>2, <2>3, SeqOfSubset
  <2>5. Split(w, at) = <<w>>
    BY <2>2, <2>4, SplitWord
  <2>6. w \in Texts
    BY <1>1, <2>2, SeqOfSubset DEF Texts
  <2> QED
    BY <2>2, <2>5, <2>6, WordsTyped DEF w
<1>7. Mapped(g, ws) = ws
  <2> HIDE DEF ws, g
  <2>1. Gives(g, Texts, Texts)
    BY WordsTyped DEF g
  <2> QED
    BY <1>3, <1>6, <2>1, MappedSame
<1>8. Split(nfc(x), {"sp"}) = Split(nfc(x), at)
  <2>1. nfc(x) \in Seq(Plain)
    BY PlainFacts, NfcOver
  <2>2. nfc(x) \in Seq(Characters \ {"nl"})
    <3>1. Plain \in SUBSET (Characters \ {"nl"})
      BY PlainFacts, CharacterFacts
    <3> QED
      BY <2>1, <3>1, SeqOfSubset
  <2>3. at = {"sp"} \/ at = Whitespace
    BY CharacterFacts
  <2> QED
    BY <2>2, <2>3, SplitAtSpaces
<1> QED
  BY <1>1, <1>2, <1>4, <1>7, <1>8, WordsTyped
-----------------------------------------------------------------------------
(* Trim.                                                                   *)

LEMMA Ends ==
  ASSUME NEW n \in Nat, NEW s \in SUBSET (1..n), s # {}
  PROVE  /\ \E i \in s : \A j \in s : i <= j
         /\ \E i \in s : \A j \in s : i >= j
<1>1. \E i \in s : \A j \in s : i >= j
  <2>1. Max(s) \in s /\ \A j \in s : j <= Max(s)
    BY LastOfSome
  <2> QED
    BY <2>1
<1> DEFINE t == {k \in 1..n : n + 1 - k \in s}
<1>2. \A i \in s : n + 1 - i \in t /\ n + 1 - (n + 1 - i) = i
  OBVIOUS
<1>3. t \in SUBSET (1..n) /\ t # {}
  BY <1>2
<1>4. Max(t) \in t /\ \A k \in t : k <= Max(t)
  <2> HIDE DEF t
  <2> QED
    BY <1>3, LastOfSome
<1>5. n + 1 - Max(t) \in s /\ Max(t) \in 1..n
  BY <1>4
<1>6. \A j \in s : n + 1 - Max(t) <= j
  <2> DEFINE m == Max(t)
  <2>1. m \in 1..n /\ \A k \in t : k <= m
    BY <1>4, <1>5
  <2>2. ASSUME NEW j \in s PROVE n + 1 - m <= j
    <3> HIDE DEF m, t
    <3>1. n + 1 - j \in t /\ j \in 1..n
      BY <1>2
    <3>2. n + 1 - j <= m
      BY <2>1, <3>1
    <3> QED
      BY <2>1, <3>1, <3>2
  <2> QED
    BY <2>2
<1> QED
  BY <1>1, <1>5, <1>6

\* A text is whitespace, what is left once that is trimmed, and whitespace.
LEMMA TrimParts ==
  ASSUME NEW t \in Texts
  PROVE  /\ Trim(t) \in Texts
         /\ \/ Trim(t) = <<>> /\ t \in Seq(Whitespace)
            \/ \E p \in Seq(Whitespace), q \in Seq(Whitespace) :
                 t = p \o (Trim(t) \o q)
<1> DEFINE solid == {i \in DOMAIN t : t[i] \notin Whitespace}
           n == Len(t)
<1>1. /\ n \in Nat /\ DOMAIN t = 1..n /\ t \in Seq(Characters)
      /\ \A i \in 1..n : t[i] \in Characters
  BY ElementOfSeq, LenProperties DEF Texts
<1>2. CASE solid = {}
  <2>1. Trim(t) = <<>>
    BY <1>2 DEF Trim
  <2>2. \A i \in 1..n : t[i] \in Whitespace
    BY <1>1, <1>2
  <2>3. t \in Seq(Whitespace)
    <3>1. SubSeq(t, 1, n) \in Seq(Whitespace)
      <4> HIDE DEF n
      <4> QED
        BY <1>1, <2>2, SubSeqProperties
    <3> QED
      BY <1>1, <3>1, SubSeqFull
  <2> QED
    BY <2>1, <2>3, EmptySeq DEF Texts
<1>3. CASE solid # {}
  <2> DEFINE i == CHOOSE k \in solid : \A j \in solid : k <= j
             j == CHOOSE k \in solid : \A m \in solid : k >= m
  <2>1. Trim(t) = SubSeq(t, i, j)
    BY <1>3 DEF Trim
  <2>2. solid \in SUBSET (1..n)
    BY <1>1
  <2>3. i \in solid /\ \A k \in solid : i <= k
    BY <1>1, <1>3, <2>2, Ends
  <2>4. j \in solid /\ \A k \in solid : j >= k
    BY <1>1, <1>3, <2>2, Ends
  <2> HIDE DEF i, j
  <2>5. i \in 1..n /\ j \in 1..n /\ i <= j
    BY <2>2, <2>3, <2>4
  <2>6. /\ \A k \in 1..(i - 1) : t[k] \in Whitespace
        /\ \A k \in (j + 1)..n : t[k] \in Whitespace
    <3>1. \A k \in 1..n : k \notin solid => t[k] \in Whitespace
      BY <1>1
    <3>2. \A k \in 1..(i - 1) : k \in 1..n /\ k \notin solid
      BY <1>1, <2>3, <2>5
    <3>3. \A k \in (j + 1)..n : k \in 1..n /\ k \notin solid
      BY <1>1, <2>4, <2>5
    <3> QED
      BY <3>1, <3>2, <3>3
  <2> HIDE DEF solid, n
  <2> DEFINE p == SubSeq(t, 1, i - 1)
             m == SubSeq(t, i, j)
             q == SubSeq(t, j + 1, n)
  <2>7. /\ p \in Seq(Whitespace) /\ q \in Seq(Whitespace)
    <3>1. i - 1 \in Int /\ j + 1 \in Int /\ n \in Int /\ 1 \in Int
      BY <1>1, <2>5
    <3> QED
      BY <2>6, <3>1, SubSeqProperties
  <2>8. m \in Seq(Characters)
    <3>1. i \in Int /\ j \in Int /\ \A k \in i..j : k \in 1..n
      BY <1>1, <2>5
    <3>2. \A k \in i..j : t[k] \in Characters
      BY <1>1, <3>1
    <3> QED
      BY <3>1, <3>2, SubSeqProperties
  <2>9. t = p \o (m \o q)
    <3>1. /\ 1 \in 1..(n + 1) /\ i \in 1..(n + 1)
          /\ i - 1 \in 0..n /\ n \in (i - 1)..n
          /\ j \in (i - 1)..n /\ n \in j..n /\ (i - 1) + 1 = i /\ 1 - 1 = 0
      BY <1>1, <2>5
    <3>2. m \o q = SubSeq(t, i, n)
      BY <1>1, <3>1, ConcatAdjacentSubSeq DEF n
    <3>3. p \o SubSeq(t, (i - 1) + 1, n) = SubSeq(t, 1, n)
      BY <1>1, <3>1, ConcatAdjacentSubSeq DEF n
    <3>4. SubSeq(t, 1, n) = t
      BY <1>1, SubSeqFull DEF n
    <3> QED
      BY <3>1, <3>2, <3>3, <3>4
  <2> QED
    BY <2>1, <2>7, <2>8, <2>9 DEF Texts
<1> QED
  BY <1>2, <1>3

\* Whitespace around a text adds no words.
LEMMA WordsAround ==
  ASSUME NEW p \in Seq(Whitespace), NEW x \in Texts
  PROVE  /\ p \in Texts
         /\ WordsAt(Whitespace)[p] = <<>>
         /\ WordsAt(Whitespace)[p \o x] = WordsAt(Whitespace)[x]
         /\ WordsAt(Whitespace)[x \o p] = WordsAt(Whitespace)[x]
<1> DEFINE g == WordsAt(Whitespace)
           A == {y \in Seq(Whitespace) : /\ g[y] = <<>> /\ g[y \o x] = g[x]
                                         /\ g[x \o y] = g[x]}
<1>0. Whitespace \in SUBSET Characters
  BY CharacterFacts
<1>1. <<>> \in A
  <2>1. <<>> \o x = x /\ x \o <<>> = x
    BY ConcatEmptySeq DEF Texts
  <2> QED
    BY <2>1, WordsTyped, EmptySeq
<1>2. ASSUME NEW y \in A, NEW s \in Whitespace PROVE Append(y, s) \in A
  <2>1. y \in Seq(Whitespace) /\ y \in Texts /\ s \in Characters
        /\ Append(y, s) \in Seq(Whitespace)
    BY <1>0, SeqOfSubset, AppendProperties DEF Texts
  <2>2. g[y] = <<>> /\ g[y \o x] = g[x] /\ g[x \o y] = g[x]
    OBVIOUS
  <2> HIDE DEF g
  <2>3. g[x] \in Seq(Texts) /\ g[<<>>] = <<>> /\ <<>> \in Texts
    <3>1. <<>> \in Texts
      BY EmptySeq DEF Texts
    <3> QED
      BY <3>1, WordsTyped DEF g, Gives
  <2>4. <<>> \o g[x] = g[x] /\ g[x] \o <<>> = g[x] /\ <<>> \o <<>> = <<>>
    BY <2>3, ConcatEmptySeq
  <2>5. g[Append(y, s) \o x] = g[y] \o g[x]
    BY <2>1, WordsSeparated DEF g
  <2>6. g[Append(y, s) \o <<>>] = g[y] \o g[<<>>]
    BY <2>1, <2>3, WordsSeparated DEF g
  <2>7. x \o y \in Texts
    BY <2>1, ConcatProperties DEF Texts
  <2>8. g[Append(x \o y, s) \o <<>>] = g[x \o y] \o g[<<>>]
    BY <2>3, <2>7, WordsSeparated DEF g
  <2>9. /\ Append(y, s) \o <<>> = Append(y, s)
        /\ Append(x \o y, s) \o <<>> = Append(x \o y, s)
        /\ x \o Append(y, s) = Append(x \o y, s)
    <3>1. Append(y, s) \in Seq(Characters) /\ Append(x \o y, s) \in Seq(Characters)
      BY <2>1, <2>7, AppendProperties DEF Texts
    <3> QED
      BY <2>1, <3>1, ConcatEmptySeq, ConcatAppend DEF Texts
  <2>10. g[Append(y, s)] = <<>>
    BY <2>2, <2>3, <2>4, <2>6, <2>9
  <2>11. g[Append(y, s) \o x] = g[x]
    BY <2>2, <2>4, <2>5
  <2>12. g[x \o Append(y, s)] = g[x]
    BY <2>2, <2>3, <2>4, <2>8, <2>9
  <2> QED
    BY <2>1, <2>10, <2>11, <2>12
<1>3. A = Seq(Whitespace)
  <2>1. A \subseteq Seq(Whitespace)
    OBVIOUS
  <2> HIDE DEF A
  <2> QED
    BY <1>1, <1>2, <2>1, SeqSetInduction
<1>4. p \in A
  BY <1>3
<1>5. p \in Texts
  BY <1>0, SeqOfSubset DEF Texts
<1> QED
  BY <1>4, <1>5

LEMMA WordsTrimmed ==
  ASSUME NEW t \in Texts
  PROVE  Trim(t) \in Texts /\ WordsAt(Whitespace)[Trim(t)] = WordsAt(Whitespace)[t]
<1>1. Trim(t) \in Texts
  BY TrimParts
<1>2. CASE Trim(t) = <<>> /\ t \in Seq(Whitespace)
  BY <1>1, <1>2, WordsAround, WordsTyped
<1>3. ASSUME NEW p \in Seq(Whitespace), NEW q \in Seq(Whitespace),
             t = p \o (Trim(t) \o q)
      PROVE  WordsAt(Whitespace)[Trim(t)] = WordsAt(Whitespace)[t]
  <2> DEFINE x == Trim(t)
             y == x \o q
  <2>1. x \in Texts /\ q \in Texts
    BY <1>1, WordsAround
  <2> HIDE DEF x
  <2>2. y \in Texts
    BY <2>1, ConcatProperties DEF Texts
  <2>3. WordsAt(Whitespace)[y] = WordsAt(Whitespace)[x]
    BY <2>1, WordsAround
  <2>4. t = p \o y
    BY <1>3 DEF x
  <2> HIDE DEF y
  <2>5. WordsAt(Whitespace)[p \o y] = WordsAt(Whitespace)[y]
    BY <2>2, WordsAround
  <2> QED
    BY <2>3, <2>4, <2>5 DEF x
<1> QED
  BY <1>1, <1>2, <1>3, TrimParts
-----------------------------------------------------------------------------
(* The words that are left of a text once characters are removed.          *)

ShowFn == [c \in Characters |-> IF c \in Removed \cup Control THEN <<>> ELSE <<c>>]
Shown(word) == Mapped(ShowFn, word)
WordFn == [word \in Texts |-> IF Shown(word) = <<>> THEN <<>>
                              ELSE <<nfc(Shown(word))>>]
NfcFn == [word \in Texts |-> <<nfc(word)>>]

LEMMA ShowFacts ==
  /\ Gives(ShowFn, Characters, Characters)
  /\ Shown(<<>>) = <<>>
  /\ \A w \in Texts : Shown(w) \in Texts
  /\ \A w \in Texts, c \in Characters :
       Shown(Append(w, c)) = IF c \in Removed \cup Control THEN Shown(w)
                             ELSE Append(Shown(w), c)
<1>1. Gives(ShowFn, Characters, Characters)
  <2>1. \A c \in Characters :
          (IF c \in Removed \cup Control THEN <<>> ELSE <<c>>) \in Seq(Characters)
    OBVIOUS
  <2> QED
    BY <2>1 DEF Gives, ShowFn
<1>2. Shown(<<>>) = <<>> /\ \A w \in Texts : Shown(w) \in Texts
  BY <1>1, MappedSteps DEF Shown, Texts
<1>3. ASSUME NEW w \in Texts, NEW c \in Characters
      PROVE  Shown(Append(w, c)) = IF c \in Removed \cup Control THEN Shown(w)
                                   ELSE Append(Shown(w), c)
  <2>1. Shown(Append(w, c)) = Shown(w) \o ShowFn[c]
    BY <1>1, MappedSteps DEF Shown, Texts
  <2>2. ShowFn[c] = IF c \in Removed \cup Control THEN <<>> ELSE <<c>>
    BY DEF ShowFn
  <2>3. Shown(w) \in Seq(Characters)
    BY <1>2 DEF Texts
  <2>4. Shown(w) \o <<>> = Shown(w) /\ Shown(w) \o <<c>> = Append(Shown(w), c)
    BY <2>3, ConcatEmptySeq, AppendIsConcat
  <2> QED
    BY <2>1, <2>2, <2>4
<1> QED
  BY <1>1, <1>2, <1>3

LEMMA WordFnFacts ==
  /\ Gives(WordFn, Texts, Texts)
  /\ Gives(NfcFn, Texts, Texts)
  /\ \A w \in Texts : NfcFn[w] = <<nfc(w)>>
  /\ \A w \in Texts : WordFn[w] = IF Shown(w) = <<>> THEN <<>> ELSE NfcFn[Shown(w)]
<1>1. \A w \in Texts : NfcFn[w] = <<nfc(w)>> /\ <<nfc(w)>> \in Seq(Texts)
  BY NfcSteps DEF NfcFn
<1>2. \A w \in Texts : Shown(w) \in Texts
  BY ShowFacts
<1>3. \A w \in Texts : (IF Shown(w) = <<>> THEN <<>> ELSE <<nfc(Shown(w))>>) \in Seq(Texts)
  BY <1>1, <1>2, EmptySeq
<1>4. Gives(WordFn, Texts, Texts)
  BY <1>3 DEF Gives, WordFn
<1>5. Gives(NfcFn, Texts, Texts)
  BY <1>1 DEF Gives, NfcFn
<1>6. \A w \in Texts : WordFn[w] = IF Shown(w) = <<>> THEN <<>> ELSE NfcFn[Shown(w)]
  BY <1>1, <1>2 DEF WordFn
<1> QED
  BY <1>1, <1>4, <1>5, <1>6

LEMMA ClosingMapped ==
  ASSUME NEW g, Gives(g, Texts, Texts), NEW read \in Reads
  PROVE  Mapped(g, Closing(read)) =
           IF read.word = <<>> THEN Mapped(g, read.words)
           ELSE Mapped(g, read.words) \o g[read.word]
<1>1. read.words \in Seq(Texts) /\ read.word \in Texts
  BY DEF Reads
<1>2. Mapped(g, Append(read.words, read.word)) =
        Mapped(g, read.words) \o g[read.word]
  <2> DEFINE words == read.words
             word == read.word
  <2>1. words \in Seq(Texts) /\ word \in Texts
    BY <1>1
  <2> HIDE DEF words, word
  <2>2. Mapped(g, Append(words, word)) = Mapped(g, words) \o g[word]
    BY <2>1, MappedSteps
  <2> QED
    BY <2>2 DEF words, word
<1> QED
  BY <1>2 DEF Closing

\* Cleaning a text and cleaning its words leave the same words.
LEMMA CleanedWords ==
  ASSUME NEW x \in Texts
  PROVE  Mapped(NfcFn, Split(Cleaned(x), {"sp"})) =
           Mapped(WordFn, Split(x, Whitespace))
<1> DEFINE Same(r, q) == /\ Mapped(NfcFn, r.words) = Mapped(WordFn, q.words)
                         /\ r.word = Shown(q.word)
           A == {y \in Texts : Same(ReadOf(Cleaned(y), {"sp"}),
                                    ReadOf(y, Whitespace))}
<1>1. <<>> \in A
  <2>1. /\ ReadOf(<<>>, {"sp"}) = [words |-> <<>>, word |-> <<>>]
        /\ ReadOf(<<>>, Whitespace) = [words |-> <<>>, word |-> <<>>]
        /\ Cleaned(<<>>) = <<>> /\ <<>> \in Texts
    BY SplitSteps, CleanSteps, EmptySeq DEF Texts
  <2>2. Mapped(NfcFn, <<>>) = <<>> /\ Mapped(WordFn, <<>>) = <<>>
    BY WordFnFacts, MappedSteps
  <2> QED
    BY <2>1, <2>2, ShowFacts
<1>2. ASSUME NEW r \in Reads, NEW q \in Reads, Same(r, q)
      PROVE  Mapped(NfcFn, Closing(r)) = Mapped(WordFn, Closing(q))
  <2>1. /\ Mapped(NfcFn, Closing(r)) =
             IF r.word = <<>> THEN Mapped(NfcFn, r.words)
             ELSE Mapped(NfcFn, r.words) \o NfcFn[r.word]
        /\ Mapped(WordFn, Closing(q)) =
             IF q.word = <<>> THEN Mapped(WordFn, q.words)
             ELSE Mapped(WordFn, q.words) \o WordFn[q.word]
    BY ClosingMapped, WordFnFacts
  <2>2. q.words \in Seq(Texts) /\ q.word \in Texts
    BY DEF Reads
  <2>3. WordFn[q.word] = IF r.word = <<>> THEN <<>> ELSE NfcFn[r.word]
    BY <1>2, <2>2, WordFnFacts
  <2>4. q.word = <<>> => r.word = <<>>
    BY <1>2, ShowFacts
  <2>5. Mapped(WordFn, q.words) \o <<>> = Mapped(WordFn, q.words)
    <3>1. Mapped(WordFn, q.words) \in Seq(Texts)
      BY <2>2, WordFnFacts, MappedSteps
    <3> QED
      BY <3>1, ConcatEmptySeq
  <2> QED
    BY <1>2, <2>1, <2>3, <2>4, <2>5
<1>3. ASSUME NEW y \in A, NEW c \in Characters PROVE Append(y, c) \in A
  <2> DEFINE r == ReadOf(Cleaned(y), {"sp"})
             q == ReadOf(y, Whitespace)
             d == IF c \in Whitespace THEN "sp" ELSE c
             r2 == ReadOf(Cleaned(Append(y, c)), {"sp"})
             q2 == ReadOf(Append(y, c), Whitespace)
  <2>1. /\ y \in Texts /\ Append(y, c) \in Texts /\ Cleaned(y) \in Texts
        /\ Cleaned(Append(y, c)) = Cleaning(Cleaned(y), c)
    BY CleanSteps, AppendProperties DEF Texts
  <2>2. r \in Reads /\ q \in Reads /\ Same(r, q)
        /\ q2 = Putting(q, c, Whitespace)
    BY <2>1, SplitSteps
  <2>3. Kept(c) => r2 = Putting(r, d, {"sp"})
    <3>1. d \in Characters
      BY CharacterFacts
    <3>2. Kept(c) => Cleaning(Cleaned(y), c) = Append(Cleaned(y), d)
      BY DEF Cleaning
    <3> HIDE DEF d
    <3> QED
      BY <2>1, <3>1, <3>2, SplitSteps
  <2>4. ~Kept(c) => r2 = r
    BY <2>1 DEF Cleaning
  <2>5. r.word \in Texts /\ q.word \in Texts
    BY <2>2 DEF Reads
  <2> HIDE DEF r, q, r2, q2
  <2>6. CASE c \in Whitespace
    <3>1. Kept(c) /\ d = "sp"
      BY <2>6, CharacterFacts DEF Kept, Removed
    <3>2. r2 = [words |-> Closing(r), word |-> <<>>]
      BY <2>3, <3>1 DEF Putting
    <3>3. q2 = [words |-> Closing(q), word |-> <<>>]
      BY <2>2, <2>6 DEF Putting
    <3>4. Mapped(NfcFn, Closing(r)) = Mapped(WordFn, Closing(q))
      <4> HIDE DEF Same
      <4> QED
        BY <1>2, <2>2
    <3>5. Same(r2, q2)
      BY <3>2, <3>3, <3>4, ShowFacts
    <3> QED
      BY <2>1, <3>5 DEF r2, q2
  <2>7. CASE c \notin Whitespace
    <3>1. q2 = [words |-> q.words, word |-> Append(q.word, c)]
      BY <2>2, <2>7 DEF Putting
    <3>2. Shown(Append(q.word, c)) = IF c \in Removed \cup Control THEN Shown(q.word)
                                     ELSE Append(Shown(q.word), c)
      BY <2>5, ShowFacts
    <3>3. Kept(c) <=> c \notin Removed \cup Control
      BY <2>7 DEF Kept
    <3>4. Same(r2, q2)
      <4>1. CASE ~Kept(c)
        BY <2>2, <2>4, <3>1, <3>2, <3>3, <4>1
      <4>2. CASE Kept(c)
        <5>1. d = c /\ c \notin {"sp"}
          BY <2>7, CharacterFacts
        <5>2. r2 = [words |-> r.words, word |-> Append(r.word, c)]
          BY <2>3, <4>2, <5>1 DEF Putting
        <5> QED
          BY <2>2, <3>1, <3>2, <3>3, <4>2, <5>2
      <4> QED
        BY <4>1, <4>2
    <3> QED
      BY <2>1, <3>4 DEF r2, q2
  <2> QED
    BY <2>6, <2>7
<1>4. A = Seq(Characters)
  <2>1. A \subseteq Seq(Characters)
    BY DEF Texts
  <2> HIDE DEF A
  <2> QED
    BY <1>1, <1>3, <2>1, SeqSetInduction
<1>5. x \in A
  BY <1>4 DEF Texts
<1>6. Cleaned(x) \in Texts
  BY CleanSteps
<1>7. /\ ReadOf(Cleaned(x), {"sp"}) \in Reads /\ ReadOf(x, Whitespace) \in Reads
      /\ Split(Cleaned(x), {"sp"}) = Closing(ReadOf(Cleaned(x), {"sp"}))
      /\ Split(x, Whitespace) = Closing(ReadOf(x, Whitespace))
  BY <1>6, SplitSteps
<1>8. Same(ReadOf(Cleaned(x), {"sp"}), ReadOf(x, Whitespace))
  BY <1>5
<1> HIDE DEF Same
<1> QED
  BY <1>2, <1>7, <1>8

\* finalize_text keeps the words of every text, in their order: those that
\* whitespace of any kind separates, without the characters that are removed,
\* and without the words of which nothing is left.
THEOREM FinalizeKeepsWords ==
  ASSUME NEW t \in Texts
  PROVE  WordsAt({"sp"})[finalize_text(t)] = Mapped(WordFn, Split(nfc(t), Whitespace))
<1> DEFINE ws == Collapsed(t)
           g == WordsAt({"sp"})
           P == Plain \ {"sp"}
<1>1. ws \in Seq(Seq(P) \ {<<>>}) /\ Plain \in SUBSET Characters
  BY CollapsedOver DEF Plain
<1>2. ws \in Seq(Texts)
  BY <1>1, WordSeq
<1>3. g[finalize_text(t)] = Mapped(g, ws)
  BY <1>2, WordsJoined, FinalizeIs
<1>4. ASSUME NEW i \in DOMAIN ws PROVE g[ws[i]] = NfcFn[ws[i]]
  <2> DEFINE w == ws[i]
             Q == Seq(P) \ {<<>>}
  <2>1. w \in Q
    <3>1. ws \in Seq(Q)
      BY <1>1
    <3> HIDE DEF Q, ws
    <3> QED
      BY <3>1, ElementOfSeq, LenProperties
  <2>2. w \in Seq(P) /\ w # <<>>
    BY <2>1
  <2> HIDE DEF w
  <2>3. P \in SUBSET Characters /\ P \in SUBSET (Characters \ {"sp"}) /\ Closed(P)
    BY <1>1, PlainFacts
  <2>4. nfc(w) \in Seq(P) /\ nfc(w) # <<>>
    BY <2>2, <2>3, NfcOver
  <2>5. w \in Texts /\ nfc(w) \in Seq(Characters \ {"sp"})
    BY <2>2, <2>3, <2>4, SeqOfSubset DEF Texts
  <2>6. Split(nfc(w), {"sp"}) = <<nfc(w)>>
    BY <2>4, <2>5, SplitWord
  <2> QED
    BY <2>5, <2>6, WordsTyped, WordFnFacts DEF w
<1>5. Mapped(g, ws) = Mapped(NfcFn, ws)
  <2> HIDE DEF g, ws
  <2> QED
    BY <1>4, MappedAlike
<1>6. Mapped(NfcFn, ws) = Mapped(WordFn, Split(nfc(t), Whitespace))
  BY NfcSteps, CleanedWords DEF Collapsed
<1> QED
  BY <1>3, <1>5, <1>6
-----------------------------------------------------------------------------
(* The postprocessors.                                                     *)

LEMMA ProcessedTyped ==
  ASSUME NEW mode \in Modes, NEW t \in Texts
  PROVE  /\ process_text(mode, t) \in Texts
         /\ mode = "normalize" => process_text(mode, t) \in Seq(Plain)
         /\ mode = "clean_lower" => process_text(mode, t) \in Seq(LowerPlain)
<1>1. Plain \in SUBSET Characters /\ LowerPlain \in SUBSET Characters
  BY DEF Plain, LowerPlain
<1>2. /\ finalize_text(t) \in Seq(Plain) /\ clean_text(t) \in Seq(LowerPlain)
      /\ finalize_text(t) \in Texts /\ clean_text(t) \in Texts
  BY <1>1, FinalizedOver, CleanedOver, SeqOfSubset DEF Texts
<1>3. ASSUME NEW x \in Texts PROVE Punctuate(x) \in Texts
  <2>1. /\ Len(x) \in Nat /\ DOMAIN x = 1..Len(x)
        /\ \A i \in 1..Len(x) : x[i] \in Characters
    BY ElementOfSeq, LenProperties DEF Texts
  <2>2. Punctuate(x) \in [1..Len(x) -> Characters]
    BY <2>1, CharacterFacts DEF Punctuate
  <2> QED
    BY <2>1, <2>2 DEF Texts
<1> QED
  BY <1>2, <1>3 DEF Modes, process_text

LEMMA CombinedTyped ==
  ASSUME NEW mode \in Modes, NEW ts \in Seq(Texts)
  PROVE  combine_segment_texts(mode, ts) \in Texts
<1>1. Join(ts) \in Texts
  BY JoinSteps
<1>2. process_text(mode, Join(ts)) \in Texts
  BY <1>1, ProcessedTyped
<1> QED
  BY <1>1, <1>2 DEF Modes, combine_segment_texts, process_text

\* Normalised texts, joined and normalised once more.
LEMMA WordsCombined ==
  ASSUME NEW at \in SUBSET Whitespace, "sp" \in at, NEW ts \in Seq(Seq(Plain))
  PROVE  WordsAt(at)[finalize_text(Join(ts))] = Mapped(WordsAt(at), ts)
<1> DEFINE Q == Seq(Plain)
<1>1. Plain \in SUBSET Characters /\ "sp" \in Plain
  BY PlainFacts DEF Plain
<1>2. Join(ts) \in Seq(Plain)
  BY <1>1, JoinOver
<1>3. ts \in Seq(Texts)
  <2>1. Q \in SUBSET Texts /\ ts \in Seq(Q)
    BY <1>1, SeqOfSubset DEF Texts
  <2> HIDE DEF Q
  <2> QED
    BY <2>1, SeqOfSubset
<1>4. WordsAt(at)[finalize_text(Join(ts))] = WordsAt(at)[Join(ts)]
  BY <1>2, WordsFinalized
<1> QED
  BY <1>3, <1>4, WordsJoined

\* combine_segment_texts: the combination of processed segments has their words,
\* one segment after another, in every mode.
THEOREM CombinedReads ==
  ASSUME NEW mode \in Modes, NEW ts \in Seq(Texts),
         \A i \in DOMAIN ts : \E t \in Texts : ts[i] = process_text(mode, t)
  PROVE  WordsAt(Whitespace)[combine_segment_texts(mode, ts)] =
           Mapped(WordsAt(Whitespace), ts)
<1>1. "sp" \in Whitespace /\ Whitespace \in SUBSET Whitespace
  BY CharacterFacts
<1>2. /\ Len(ts) \in Nat /\ DOMAIN ts = 1..Len(ts)
      /\ ts = [i \in 1..Len(ts) |-> ts[i]]
  BY LenProperties
<1>3. ASSUME NEW P, \A i \in DOMAIN ts : ts[i] \in Seq(P)
      PROVE  ts \in Seq(Seq(P))
  <2> DEFINE Q == Seq(P)
             n == Len(ts)
  <2>1. \A i \in 1..n : ts[i] \in Q
    BY <1>2, <1>3
  <2>2. n \in Nat /\ ts = [i \in 1..n |-> ts[i]]
    BY <1>2
  <2> HIDE DEF Q, n
  <2>3. ts \in [1..n -> Q]
    BY <2>1, <2>2
  <2>4. ts \in Seq(Q)
    BY <2>2, <2>3
  <2> QED
    BY <2>4 DEF Q
<1>4. CASE mode \in {"none", "capu"}
  <2>1. combine_segment_texts(mode, ts) = Join(ts)
    BY <1>4 DEF combine_segment_texts
  <2> QED
    BY <1>1, <2>1, WordsJoined
<1>5. CASE mode = "normalize"
  <2>1. combine_segment_texts(mode, ts) = finalize_text(Join(ts))
    BY <1>5 DEF combine_segment_texts
  <2>2. \A i \in DOMAIN ts : ts[i] \in Seq(Plain)
    BY <1>5, ProcessedTyped
  <2>3. ts \in Seq(Seq(Plain))
    BY <1>3, <2>2
  <2> QED
    BY <1>1, <2>1, <2>3, WordsCombined
<1>6. CASE mode = "clean_lower"
  <2>1. combine_segment_texts(mode, ts) = clean_text(Join(ts))
    BY <1>6 DEF combine_segment_texts
  <2>2. \A i \in DOMAIN ts : ts[i] \in Seq(LowerPlain)
    BY <1>6, ProcessedTyped
  <2>3. ts \in Seq(Seq(LowerPlain))
    BY <1>3, <2>2
  <2>4. \A i \in DOMAIN ts : ts[i] \in Seq(Plain)
    <3>1. LowerPlain \in SUBSET Plain
      BY DEF LowerPlain
    <3> QED
      BY <2>2, <3>1, SeqOfSubset
  <2>5. ts \in Seq(Seq(Plain))
    BY <1>3, <2>4
  <2>6. LowerPlain \in SUBSET Characters /\ LowerPlain \in SUBSET Plain
        /\ "sp" \in LowerPlain /\ Closed(LowerPlain)
    BY PlainFacts DEF LowerPlain, Plain
  <2>7. Join(ts) \in Seq(LowerPlain) /\ Join(ts) \in Texts
    BY <2>3, <2>6, JoinOver, SeqOfSubset DEF Texts
  <2>8. finalize_text(Join(ts)) \in Seq(LowerPlain)
    BY <2>6, <2>7, FinalizedOver
  <2>9. clean_text(Join(ts)) = finalize_text(Join(ts))
    BY <2>7, <2>8, CleanedOver
  <2> QED
    BY <1>1, <2>1, <2>5, <2>9, WordsCombined
<1> QED
  BY <1>4, <1>5, <1>6 DEF Modes
=============================================================================

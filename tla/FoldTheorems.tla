----------------------------- MODULE FoldTheorems -----------------------------
(***************************************************************************)
(* What FoldLeft and FlattenSeq compute, for sequences of every length.    *)
(* The induction theorems of the library take the property as an operator; *)
(* here it is a set of numbers, and the theorem follows from the principle *)
(* of the least element.                                                   *)
(***************************************************************************)
EXTENDS Integers, Sequences, FiniteSetsExt, SequencesExt,
        SequenceTheorems, WellFoundedInduction, TLAPS

CONSTANT Op(_, _)

-----------------------------------------------------------------------------
(* Induction *)

Below == {pair \in Nat \X Nat : pair[1] < pair[2]}

\* A set of natural numbers that has an element has a least one.
LEMMA LeastElement ==
  ASSUME NEW T \in SUBSET Nat, T # {}
  PROVE  \E m \in T : \A n \in T : ~(n < m)
<1>1. IsWellFoundedOn(Below, Nat)
  BY NatLessThanWellFounded DEF OpToRel, Below
<1>2. \E m \in T : \A n \in T : <<n, m>> \notin Below
  BY <1>1, WFMin
<1> QED
  BY <1>2 DEF Below

\* Induction on the natural numbers: what is so of a number is an element of S.
THEOREM Induction ==
  ASSUME NEW S, 0 \in S, \A n \in Nat : n \in S => n + 1 \in S
  PROVE  \A n \in Nat : n \in S
<1> DEFINE T == Nat \ S
<1> SUFFICES ASSUME T # {} PROVE FALSE
  OBVIOUS
<1>1. PICK m \in T : \A n \in T : ~(n < m)
  BY LeastElement
<1>2. m # 0 /\ m \in Nat
  BY <1>1
<1>3. m - 1 \in Nat /\ m - 1 \notin T
  BY <1>1, <1>2
<1> QED
  BY <1>1, <1>2, <1>3

-----------------------------------------------------------------------------
(* FoldLeft *)

Fold(base, seq) == FoldLeft(Op, base, seq)

\* iter is the function by which FoldLeft is defined, on the first n elements.
IsIteration(iter, base, seq, n) ==
  iter = [s \in SUBSET (1..n) |->
            IF s = {} THEN base ELSE Op(iter[s \ {Max(s)}], seq[Max(s)])]

\* The largest element of an interval, which FoldLeft takes off.
LEMMA MaxIsLast ==
  ASSUME NEW n \in Nat, NEW s \in SUBSET (1..(n + 1)), n + 1 \in s
  PROVE  Max(s) = n + 1
<1>1. n + 1 \in s /\ \A y \in s : n + 1 >= y
  OBVIOUS
<1>2. \A x \in s : (\A y \in s : x >= y) => x = n + 1
  OBVIOUS
<1> QED
  BY <1>1, <1>2 DEF Max

\* The definition by recursion has a solution.
LEMMA IterationExists ==
  ASSUME NEW base, NEW seq
  PROVE  \A n \in Nat : \E iter : IsIteration(iter, base, seq, n)
<1> DEFINE S == {n \in Nat : \E iter : IsIteration(iter, base, seq, n)}
<1>1. 0 \in S
  <2> DEFINE g == [s \in SUBSET (1..0) |-> base]
  <2>1. SUBSET (1..0) = {{}}
    OBVIOUS
  <2>2. IsIteration(g, base, seq, 0)
    BY <2>1 DEF IsIteration
  <2> QED
    BY <2>2
<1>2. ASSUME NEW n \in Nat, n \in S PROVE n + 1 \in S
  <2>1. PICK g : IsIteration(g, base, seq, n)
    BY <1>2
  <2> DEFINE h == [s \in SUBSET (1..(n + 1)) |->
                     IF n + 1 \in s THEN Op(g[s \ {n + 1}], seq[n + 1]) ELSE g[s]]
  <2>2. ASSUME NEW s \in SUBSET (1..(n + 1))
        PROVE  h[s] = IF s = {} THEN base ELSE Op(h[s \ {Max(s)}], seq[Max(s)])
    <3>1. CASE n + 1 \in s
      <4>1. Max(s) = n + 1
        BY <3>1, MaxIsLast
      <4>2. s \ {n + 1} \in SUBSET (1..(n + 1)) /\ n + 1 \notin s \ {n + 1}
        OBVIOUS
      <4>3. h[s \ {n + 1}] = g[s \ {n + 1}]
        BY <4>2
      <4> QED
        BY <3>1, <4>1, <4>3
    <3>2. CASE n + 1 \notin s
      <4>1. s \in SUBSET (1..n)
        BY <3>2
      <4>2. h[s] = g[s]
        BY <3>2
      <4>3. g[s] = IF s = {} THEN base ELSE Op(g[s \ {Max(s)}], seq[Max(s)])
        BY <2>1, <4>1 DEF IsIteration
      <4>4. h[s \ {Max(s)}] = g[s \ {Max(s)}]
        BY <3>2
      <4> QED
        BY <4>2, <4>3, <4>4
    <3> QED
      BY <3>1, <3>2
  <2>3. IsIteration(h, base, seq, n + 1)
    BY <2>2 DEF IsIteration
  <2> HIDE DEF h
  <2> QED
    BY <2>3
<1> HIDE DEF S
<1>3. \A n \in Nat : n \in S
  BY <1>1, <1>2, Induction
<1> QED
  BY <1>3 DEF S

\* A solution begins with base, and goes on with what Op makes of each element.
LEMMA IterationBase ==
  ASSUME NEW base, NEW seq, NEW n \in Nat, NEW g, IsIteration(g, base, seq, n)
  PROVE  g[1..0] = base
<1>1. 1..0 \in SUBSET (1..n) /\ 1..0 = {}
  OBVIOUS
<1> QED
  BY <1>1 DEF IsIteration

LEMMA IterationStep ==
  ASSUME NEW base, NEW seq, NEW n \in Nat, NEW g, IsIteration(g, base, seq, n),
         NEW k \in Nat, k + 1 <= n
  PROVE  g[1..(k + 1)] = Op(g[1..k], seq[k + 1])
<1>1. 1..(k + 1) \in SUBSET (1..n) /\ 1..(k + 1) # {}
  OBVIOUS
<1>2. Max(1..(k + 1)) = k + 1
  <2>1. k + 1 \in 1..(k + 1) /\ 1..(k + 1) \in SUBSET (1..(k + 1))
    OBVIOUS
  <2> QED
    BY <2>1, MaxIsLast
<1>3. (1..(k + 1)) \ {k + 1} = 1..k
  OBVIOUS
<1> QED
  BY <1>1, <1>2, <1>3 DEF IsIteration

LEMMA IterationsAgree ==
  ASSUME NEW base, NEW seq, NEW longer, NEW n \in Nat, NEW m \in Nat,
         NEW g, IsIteration(g, base, seq, n),
         NEW h, IsIteration(h, base, longer, m),
         n <= m, \A i \in 1..n : seq[i] = longer[i]
  PROVE  g[1..n] = h[1..n]
<1>1. g[1..0] = base /\ h[1..0] = base
  BY IterationBase
<1>2. \A k \in Nat : k + 1 <= n => g[1..(k + 1)] = Op(g[1..k], seq[k + 1])
  BY IterationStep
<1>3. \A k \in Nat : k + 1 <= m => h[1..(k + 1)] = Op(h[1..k], longer[k + 1])
  BY IterationStep
<1> DEFINE S == {k \in Nat : k <= n => g[1..k] = h[1..k]}
<1>4. 0 \in S
  BY <1>1
<1>5. ASSUME NEW k \in Nat, k \in S PROVE k + 1 \in S
  <2> SUFFICES ASSUME k + 1 <= n PROVE g[1..(k + 1)] = h[1..(k + 1)]
    OBVIOUS
  <2>1. k + 1 <= m /\ k <= n /\ k + 1 \in 1..n
    OBVIOUS
  <2>2. g[1..k] = h[1..k] /\ seq[k + 1] = longer[k + 1]
    BY <1>5, <2>1
  <2> HIDE DEF S
  <2> QED
    BY <1>2, <1>3, <2>1, <2>2
<1> HIDE DEF S
<1>6. n \in S
  BY <1>4, <1>5, Induction
<1> QED
  BY <1>6 DEF S

\* A fold is the solution of its recursion at the whole of the sequence.
LEMMA FoldIsIteration ==
  ASSUME NEW base, NEW T, NEW seq \in Seq(T)
  PROVE  \E g : /\ IsIteration(g, base, seq, Len(seq))
                /\ Fold(base, seq) = g[1..Len(seq)]
<1> DEFINE g == CHOOSE iter : IsIteration(iter, base, seq, Len(seq))
<1>1. Len(seq) \in Nat /\ DOMAIN seq = 1..Len(seq)
  OBVIOUS
<1>2. IsIteration(g, base, seq, Len(seq))
  BY <1>1, IterationExists
<1>3. Fold(base, seq) = g[1..Len(seq)]
  BY <1>1 DEF Fold, FoldLeft, MapThenFoldSet, IsIteration
<1> QED
  BY <1>2, <1>3

\* A fold of nothing.
THEOREM FoldEmpty ==
  ASSUME NEW base
  PROVE  Fold(base, <<>>) = base
<1>1. <<>> \in Seq({}) /\ Len(<<>>) = 0
  OBVIOUS
<1>2. PICK g : IsIteration(g, base, <<>>, 0) /\ Fold(base, <<>>) = g[1..0]
  BY <1>1, FoldIsIteration
<1> QED
  BY <1>2, IterationBase

\* A fold of one element more.
THEOREM FoldAppend ==
  ASSUME NEW base, NEW T, NEW seq \in Seq(T), NEW e \in T
  PROVE  Fold(base, Append(seq, e)) = Op(Fold(base, seq), e)
<1> DEFINE n == Len(seq)
           longer == Append(seq, e)
<1>1. /\ longer \in Seq(T) /\ n \in Nat /\ Len(longer) = n + 1 /\ longer[n + 1] = e
      /\ \A i \in 1..n : seq[i] = longer[i]
  OBVIOUS
<1>2. PICK g : IsIteration(g, base, seq, n) /\ Fold(base, seq) = g[1..n]
  BY FoldIsIteration
<1>3. PICK h : IsIteration(h, base, longer, n + 1) /\ Fold(base, longer) = h[1..(n + 1)]
  BY <1>1, FoldIsIteration
<1> HIDE DEF n, longer
<1>4. h[1..(n + 1)] = Op(h[1..n], longer[n + 1])
  <2>1. n + 1 <= n + 1 /\ n + 1 \in Nat
    BY <1>1
  <2> QED
    BY <1>1, <1>3, <2>1, IterationStep
<1>5. g[1..n] = h[1..n]
  <2>1. n <= n + 1 /\ n + 1 \in Nat /\ n <= n
    BY <1>1
  <2> QED
    BY <1>1, <1>2, <1>3, <2>1, IterationsAgree
<1> QED
  BY <1>1, <1>2, <1>3, <1>4, <1>5 DEF longer

\* Induction on a sequence that grows by one element at a time: what is so of a
\* sequence is an element of S.
THEOREM AppendInduction ==
  ASSUME NEW T, NEW S, <<>> \in S,
         \A seq \in Seq(T), e \in T : seq \in S => Append(seq, e) \in S
  PROVE  \A seq \in Seq(T) : seq \in S
<1> DEFINE N == {n \in Nat : \A seq \in Seq(T) : Len(seq) = n => seq \in S}
<1>1. 0 \in N
  OBVIOUS
<1>2. ASSUME NEW n \in Nat, n \in N PROVE n + 1 \in N
  <2> SUFFICES ASSUME NEW seq \in Seq(T), Len(seq) = n + 1 PROVE seq \in S
    OBVIOUS
  <2> DEFINE short == SubSeq(seq, 1, n)
  <2>1. short \in Seq(T) /\ Len(short) = n /\ seq[n + 1] \in T
    OBVIOUS
  <2>2. seq = Append(short, seq[n + 1])
    OBVIOUS
  <2> QED
    BY <1>2, <2>1, <2>2
<1> HIDE DEF N
<1>3. \A n \in Nat : n \in N
  BY <1>1, <1>2, Induction
<1> QED
  BY <1>3 DEF N

\* A fold of two sequences, one after the other.
THEOREM FoldConcat ==
  ASSUME NEW base, NEW T, NEW first \in Seq(T), NEW second \in Seq(T)
  PROVE  Fold(base, first \o second) = Fold(Fold(base, first), second)
<1> DEFINE S == {seq \in Seq(T) : Fold(base, first \o seq) = Fold(Fold(base, first), seq)}
<1>1. <<>> \in S
  <2>1. first \o <<>> = first
    OBVIOUS
  <2> QED
    BY <2>1, FoldEmpty
<1>2. ASSUME NEW seq \in Seq(T), NEW e \in T, seq \in S PROVE Append(seq, e) \in S
  <2>1. first \o Append(seq, e) = Append(first \o seq, e) /\ first \o seq \in Seq(T)
    OBVIOUS
  <2>2. Fold(base, Append(first \o seq, e)) = Op(Fold(base, first \o seq), e)
    BY <2>1, FoldAppend, ZenonT(60)
  <2>3. Fold(Fold(base, first), Append(seq, e)) = Op(Fold(Fold(base, first), seq), e)
    BY FoldAppend
  <2>4. Append(seq, e) \in Seq(T)
    OBVIOUS
  <2> QED
    BY <1>2, <2>1, <2>2, <2>3, <2>4
<1> HIDE DEF S
<1>3. \A seq \in Seq(T) : seq \in S
  BY <1>1, <1>2, AppendInduction
<1> QED
  BY <1>3 DEF S

-----------------------------------------------------------------------------
(* FlattenSeq *)

\* flatten is the function by which FlattenSeq is defined, on the first n.
IsFlattening(flatten, seqs, n) ==
  flatten = [i \in 1..n |-> IF i = 1 THEN seqs[i] ELSE flatten[i - 1] \o seqs[i]]

LEMMA FlatteningExists ==
  ASSUME NEW seqs
  PROVE  \A n \in Nat : \E flatten : IsFlattening(flatten, seqs, n)
<1> DEFINE S == {n \in Nat : \E flatten : IsFlattening(flatten, seqs, n)}
<1>1. 0 \in S
  <2>1. IsFlattening([i \in 1..0 |-> <<>>], seqs, 0)
    BY DEF IsFlattening
  <2> QED
    BY <2>1
<1>2. ASSUME NEW n \in Nat, n \in S PROVE n + 1 \in S
  <2>1. PICK g : IsFlattening(g, seqs, n)
    BY <1>2
  <2> DEFINE h == [i \in 1..(n + 1) |->
                     IF i \in 1..n THEN g[i]
                     ELSE IF i = 1 THEN seqs[i] ELSE g[i - 1] \o seqs[i]]
  <2>2. ASSUME NEW i \in 1..(n + 1)
        PROVE  h[i] = IF i = 1 THEN seqs[i] ELSE h[i - 1] \o seqs[i]
    <3>1. i # 1 => i - 1 \in 1..n /\ h[i - 1] = g[i - 1]
      OBVIOUS
    <3>2. i \in 1..n => g[i] = IF i = 1 THEN seqs[i] ELSE g[i - 1] \o seqs[i]
      BY <2>1 DEF IsFlattening
    <3> QED
      BY <3>1, <3>2
  <2>3. IsFlattening(h, seqs, n + 1)
    BY <2>2 DEF IsFlattening
  <2> HIDE DEF h
  <2> QED
    BY <2>3
<1> HIDE DEF S
<1>3. \A n \in Nat : n \in S
  BY <1>1, <1>2, Induction
<1> QED
  BY <1>3 DEF S

LEMMA FlatteningStep ==
  ASSUME NEW seqs, NEW n \in Nat, NEW g, IsFlattening(g, seqs, n),
         NEW k \in Nat, k + 1 <= n
  PROVE  g[k + 1] = IF k = 0 THEN seqs[k + 1] ELSE g[k] \o seqs[k + 1]
<1>1. k + 1 \in 1..n /\ (k + 1) - 1 = k /\ (k + 1 = 1 <=> k = 0)
  OBVIOUS
<1>2. g[k + 1] = IF k + 1 = 1 THEN seqs[k + 1] ELSE g[(k + 1) - 1] \o seqs[k + 1]
  BY <1>1 DEF IsFlattening
<1> QED
  BY <1>1, <1>2

LEMMA FlatteningsAgree ==
  ASSUME NEW seqs, NEW longer, NEW n \in Nat, NEW m \in Nat,
         NEW g, IsFlattening(g, seqs, n),
         NEW h, IsFlattening(h, longer, m),
         n <= m, \A i \in 1..n : seqs[i] = longer[i], n # 0
  PROVE  g[n] = h[n]
<1>1. \A k \in Nat : k + 1 <= n =>
        g[k + 1] = IF k = 0 THEN seqs[k + 1] ELSE g[k] \o seqs[k + 1]
  BY FlatteningStep
<1>2. \A k \in Nat : k + 1 <= m =>
        h[k + 1] = IF k = 0 THEN longer[k + 1] ELSE h[k] \o longer[k + 1]
  BY FlatteningStep
<1> DEFINE S == {k \in Nat : k \in 1..n => g[k] = h[k]}
<1>3. 0 \in S
  OBVIOUS
<1>4. ASSUME NEW k \in Nat, k \in S PROVE k + 1 \in S
  <2> SUFFICES ASSUME k + 1 \in 1..n PROVE g[k + 1] = h[k + 1]
    OBVIOUS
  <2>1. k + 1 <= m /\ k + 1 <= n /\ seqs[k + 1] = longer[k + 1]
    OBVIOUS
  <2>2. k # 0 => g[k] = h[k]
    BY <1>4
  <2> HIDE DEF S
  <2> QED
    BY <1>1, <1>2, <2>1, <2>2
<1> HIDE DEF S
<1>5. n \in S
  BY <1>3, <1>4, Induction
<1> QED
  BY <1>5 DEF S

LEMMA FlattenIsFlattening ==
  ASSUME NEW T, NEW seqs \in Seq(Seq(T))
  PROVE  \E g : /\ IsFlattening(g, seqs, Len(seqs))
                /\ Len(seqs) # 0 => FlattenSeq(seqs) = g[Len(seqs)]
<1> DEFINE g == CHOOSE flatten : IsFlattening(flatten, seqs, Len(seqs))
<1>1. Len(seqs) \in Nat
  OBVIOUS
<1>2. IsFlattening(g, seqs, Len(seqs))
  BY <1>1, FlatteningExists
<1>3. Len(seqs) # 0 => FlattenSeq(seqs) = g[Len(seqs)]
  BY <1>1 DEF FlattenSeq, IsFlattening
<1> QED
  BY <1>2, <1>3

\* The parts of nothing, joined.
THEOREM FlattenEmpty == FlattenSeq(<<>>) = <<>>
BY DEF FlattenSeq

\* One part more, joined at the end.
THEOREM FlattenAppend ==
  ASSUME NEW T, NEW seqs \in Seq(Seq(T)), NEW part \in Seq(T)
  PROVE  FlattenSeq(Append(seqs, part)) = FlattenSeq(seqs) \o part
<1> DEFINE n == Len(seqs)
           longer == Append(seqs, part)
<1>1. /\ longer \in Seq(Seq(T)) /\ n \in Nat /\ Len(longer) = n + 1
      /\ longer[n + 1] = part /\ \A i \in 1..n : seqs[i] = longer[i]
  OBVIOUS
<1>2. PICK g : IsFlattening(g, seqs, n) /\ (n # 0 => FlattenSeq(seqs) = g[n])
  BY FlattenIsFlattening
<1>3. PICK h : /\ IsFlattening(h, longer, n + 1)
               /\ n + 1 # 0 => FlattenSeq(longer) = h[n + 1]
  BY <1>1, FlattenIsFlattening
<1>4. CASE n = 0
  <2>1. seqs = <<>> /\ <<>> \o part = part
    BY <1>4
  <2>2. FlattenSeq(seqs) = <<>>
    BY <2>1, FlattenEmpty
  <2>3. h[n + 1] = part
    BY <1>1, <1>3, <1>4 DEF IsFlattening
  <2> QED
    BY <1>3, <1>4, <2>1, <2>2, <2>3
<1>5. CASE n # 0
  <2>1. n \in 1..n /\ n + 1 \in 1..(n + 1) /\ n + 1 # 1 /\ n <= n + 1 /\ n + 1 \in Nat
    BY <1>1, <1>5
  <2> HIDE DEF n, longer
  <2>2. h[n + 1] = h[n] \o longer[n + 1]
    <3>1. n + 1 <= n + 1 /\ n # 0
      BY <1>1, <1>5
    <3> QED
      BY <1>1, <1>3, <2>1, <3>1, FlatteningStep
  <2>3. h[n] = g[n]
    BY <1>1, <1>2, <1>3, <1>5, <2>1, FlatteningsAgree
  <2>4. FlattenSeq(longer) = FlattenSeq(seqs) \o part
    <3>1. n + 1 # 0
      BY <1>1
    <3> QED
      BY <1>1, <1>2, <1>3, <1>5, <3>1, <2>2, <2>3
  <2> QED
    BY <2>4 DEF longer
<1> QED
  BY <1>4, <1>5

\* Parts joined are a sequence of what the parts are sequences of.
THEOREM FlattenType ==
  ASSUME NEW T, NEW seqs \in Seq(Seq(T))
  PROVE  FlattenSeq(seqs) \in Seq(T)
<1> DEFINE S == {parts \in Seq(Seq(T)) : FlattenSeq(parts) \in Seq(T)}
<1>1. <<>> \in S
  <2>1. <<>> \in Seq(Seq(T)) /\ <<>> \in Seq(T)
    OBVIOUS
  <2> QED
    BY <2>1, FlattenEmpty
<1>2. ASSUME NEW parts \in Seq(Seq(T)), NEW part \in Seq(T), parts \in S
      PROVE  Append(parts, part) \in S
  <2>1. FlattenSeq(Append(parts, part)) = FlattenSeq(parts) \o part
    BY FlattenAppend
  <2>2. Append(parts, part) \in Seq(Seq(T)) /\ FlattenSeq(parts) \in Seq(T)
    BY <1>2
  <2>3. FlattenSeq(parts) \o part \in Seq(T)
    BY <2>2
  <2> QED
    BY <2>1, <2>2, <2>3
<1> HIDE DEF S
<1>3. \A parts \in Seq(Seq(T)) : parts \in S
  BY <1>1, <1>2, AppendInduction
<1> QED
  BY <1>3 DEF S
=============================================================================

--------------------------- MODULE SequenceLemmas ---------------------------
(***************************************************************************)
(* Facts the proofs share: induction over the natural numbers, in the form *)
(* of a least counterexample; folds; and promise chains, the sequences of  *)
(* links that have not run: a new link goes to the end, the first one runs *)
(* and leaves.                                                             *)
(***************************************************************************)
EXTENDS Integers, Sequences, SequencesExt, SequenceTheorems, WellFoundedInduction,
        TLAPS

(* A set of natural numbers has a least one.                               *)
LEMMA Least ==
  ASSUME NEW T \in SUBSET Nat, T # {}
  PROVE  \E x \in T : \A y \in T : ~(y < x)
<1>1. IsWellFoundedOn(OpToRel(<, Nat), Nat)
  BY NatLessThanWellFounded
<1>2. PICK x \in T : \A y \in T : ~ (<<y, x>> \in OpToRel(<, Nat))
  BY <1>1, WFMin
<1>3. x \in Nat /\ \A y \in T : y \in Nat
  OBVIOUS
<1>4. \A y \in T : y < x => <<y, x>> \in OpToRel(<, Nat)
  BY <1>3 DEF OpToRel
<1> QED BY <1>2, <1>3, <1>4

(* Induction: a set of natural numbers that has 0 and with a number its    *)
(* successor, up to n, has all of 0 .. n.                                  *)
LEMMA UpTo ==
  ASSUME NEW n \in Nat, NEW P, 0 \in P, \A i \in 0 .. n : i < n /\ i \in P => i + 1 \in P
  PROVE  \A i \in 0 .. n : i \in P
<1> DEFINE T == {i \in 0 .. n : i \notin P}
<1>1. SUFFICES ASSUME T # {} PROVE FALSE
  OBVIOUS
<1>2. PICK x \in T : \A y \in T : ~(y < x)
  <2>1. T \in SUBSET Nat
    OBVIOUS
  <2> HIDE DEF T
  <2> QED BY <1>1, <2>1, Least
<1>3. x # 0 /\ x - 1 \in 0 .. n /\ x - 1 < x
  OBVIOUS
<1>4. x - 1 \in P
  BY <1>2, <1>3
<1> QED BY <1>3, <1>4

(* The same for sequences: a set that has the empty sequence and with a    *)
(* sequence all that are longer by one element, has all sequences.         *)
LEMMA SeqUpTo ==
  ASSUME NEW S, NEW P, <<>> \in P,
         \A s \in Seq(S) : \A e \in S : s \in P => Append(s, e) \in P
  PROVE  \A s \in Seq(S) : s \in P
<1> TAKE s \in Seq(S)
<1> DEFINE Q == {i \in 0 .. Len(s) : SubSeq(s, 1, i) \in P}
<1>1. Len(s) \in Nat /\ SubSeq(s, 1, Len(s)) = s /\ \A i \in 1 .. Len(s) : s[i] \in S
  BY SubSeqFull
<1>2. 0 \in Q
  <2>1. SubSeq(s, 1, 0) = <<>> /\ 0 \in 0 .. Len(s)
    BY <1>1, SubSeqEmpty
  <2>2. SubSeq(s, 1, 0) \in P
    BY <2>1
  <2> QED BY <2>1, <2>2
<1>3. ASSUME NEW i \in 0 .. Len(s), i < Len(s), i \in Q PROVE i + 1 \in Q
  <2>1. i + 1 \in 1 .. Len(s) /\ SubSeq(s, 1, i) \in Seq(S)
    BY <1>1, <1>3, SubSeqProperties
  <2>2. SubSeq(s, 1, i + 1) = Append(SubSeq(s, 1, i), s[i + 1])
    <3>1. 1 \in 1 .. Len(s) /\ i + 1 \in 1 .. Len(s) /\ (i + 1) - 1 = i
      BY <2>1
    <3>2. SubSeq(s, 1, i + 1) = SubSeq(s, 1, i) \o <<s[i + 1]>>
      BY <3>1, SubSeqRecursiveSecond
    <3> QED BY <1>1, <2>1, <3>2, AppendIsConcat
  <2>3. s[i + 1] \in S /\ SubSeq(s, 1, i) \in P
    BY <1>1, <1>3, <2>1
  <2>4. Append(SubSeq(s, 1, i), s[i + 1]) \in P
    BY <2>1, <2>3
  <2>5. SubSeq(s, 1, i + 1) \in P
    BY <2>2, <2>4
  <2>6. i + 1 \in 0 .. Len(s)
    BY <1>1, <2>1
  <2> QED BY <2>5, <2>6
<1> HIDE DEF Q
<1>4. \A i \in 0 .. Len(s) : i \in Q
  BY <1>1, <1>2, <1>3, UpTo
<1>5. Len(s) \in Q
  BY <1>1, <1>4
<1> QED BY <1>1, <1>5 DEF Q

(* Sequences that agree on a piece have the same piece.                    *)
LEMMA SubSeqSame ==
  ASSUME NEW S, NEW s, NEW t, NEW m \in Int, NEW n \in Int,
         \A i \in m .. n : s[i] \in S /\ t[i] = s[i]
  PROVE  SubSeq(t, m, n) = SubSeq(s, m, n)
<1>1. /\ SubSeq(s, m, n) \in Seq(S) /\ SubSeq(t, m, n) \in Seq(S)
      /\ Len(SubSeq(s, m, n)) = IF m <= n THEN n - m + 1 ELSE 0
      /\ Len(SubSeq(t, m, n)) = IF m <= n THEN n - m + 1 ELSE 0
      /\ \A i \in 1 .. n - m + 1 : SubSeq(s, m, n)[i] = s[m + i - 1]
                                   /\ SubSeq(t, m, n)[i] = t[m + i - 1]
  BY SubSeqProperties
<1>2. \A i \in 1 .. Len(SubSeq(t, m, n)) : SubSeq(t, m, n)[i] = SubSeq(s, m, n)[i]
  <2> TAKE i \in 1 .. Len(SubSeq(t, m, n))
  <2>1. i \in 1 .. n - m + 1 /\ m + i - 1 \in m .. n
    BY <1>1
  <2> QED BY <1>1, <2>1
<1> QED BY <1>1, <1>2, SeqEqual

LEMMA ConcatAppend ==
  ASSUME NEW S, NEW s \in Seq(S), NEW t \in Seq(S), NEW e \in S
  PROVE  s \o Append(t, e) = Append(s \o t, e)
<1>1. <<e>> \in Seq(S) /\ s \o t \in Seq(S)
  BY ConcatProperties
<1> QED BY <1>1, AppendIsConcat, ConcatAssociative

(* The largest of a set of positions.                                      *)
LEMMA LargestOf ==
  ASSUME NEW k \in Nat, NEW s \in SUBSET (1 .. k), k \in s
  PROVE  Max(s) = k
<1>1. \A y \in s : k >= y /\ y \in Nat
  OBVIOUS
<1> DEFINE m == Max(s)
<1>2. m \in s /\ \A y \in s : m >= y
  <2>1. \E x \in s : \A y \in s : x >= y
    BY <1>1
  <2> QED BY <2>1 DEF Max
<1> HIDE DEF m
<1>3. m = k
  BY <1>1, <1>2
<1> QED BY <1>3 DEF m

LEMMA LargestExists ==
  ASSUME NEW n \in Nat, NEW s \in SUBSET (1 .. n), s # {}
  PROVE  Max(s) \in s
<1> DEFINE T == {i \in 0 .. n : \A y \in s : y <= i}
<1>1. n \in T
  OBVIOUS
<1>2. PICK i \in T : \A j \in T : ~(j < i)
  <2>1. T \in SUBSET Nat /\ T # {}
    BY <1>1
  <2> HIDE DEF T
  <2> QED BY <2>1, Least
<1>3. i \in s
  <2>1. SUFFICES ASSUME i \notin s PROVE FALSE
    OBVIOUS
  <2>2. i # 0
    <3>1. PICK y \in s : TRUE
      OBVIOUS
    <3>2. y <= i /\ y >= 1
      BY <3>1
    <3> QED BY <3>2
  <2>3. i - 1 \in T
    BY <2>1, <2>2
  <2> QED BY <1>2, <2>2, <2>3
<1>4. \E x \in s : \A y \in s : x >= y
  BY <1>3
<1> QED BY <1>4 DEF Max

(* The function that FoldLeft is made of exists, whatever the step.        *)
FoldsWith(g, n, base, step) ==
    \A s \in SUBSET (1 .. n) :
        g[s] = IF s = {} THEN base ELSE step[<<g[s \ {Max(s)}], Max(s)>>]

LEMMA FoldExists ==
  ASSUME NEW S, NEW base \in S, NEW n \in Nat, NEW step \in [S \X (1 .. n) -> S]
  PROVE  \E g \in [SUBSET (1 .. n) -> S] : FoldsWith(g, n, base, step)
<1> DEFINE Good(k) ==
             \E g \in [SUBSET (1 .. k) -> S] :
                \A s \in SUBSET (1 .. k) :
                   g[s] = IF s = {} THEN base ELSE step[<<g[s \ {Max(s)}], Max(s)>>]
           P == {k \in 0 .. n : Good(k)}
<1>1. 0 \in P
  <2>1. SUBSET (1 .. 0) = {{}}
    OBVIOUS
  <2> DEFINE g == [s \in SUBSET (1 .. 0) |-> base]
  <2>2. g \in [SUBSET (1 .. 0) -> S] /\ g[{}] = base
    OBVIOUS
  <2>3. \A s \in SUBSET (1 .. 0) : s = {}
    BY <2>1
  <2>4. \A s \in SUBSET (1 .. 0) :
           g[s] = IF s = {} THEN base ELSE step[<<g[s \ {Max(s)}], Max(s)>>]
    BY <2>2, <2>3
  <2> HIDE DEF g
  <2>5. Good(0)
    BY <2>2, <2>4
  <2>6. 0 \in 0 .. n
    OBVIOUS
  <2> HIDE DEF Good
  <2> QED BY <2>5, <2>6
<1>2. ASSUME NEW k \in 0 .. n, k < n, k \in P PROVE k + 1 \in P
  <2>1. PICK f \in [SUBSET (1 .. k) -> S] :
           \A s \in SUBSET (1 .. k) :
              f[s] = IF s = {} THEN base ELSE step[<<f[s \ {Max(s)}], Max(s)>>]
    BY <1>2
  <2> DEFINE g == [s \in SUBSET (1 .. k + 1) |->
                     IF k + 1 \in s THEN step[<<f[s \ {k + 1}], k + 1>>] ELSE f[s]]
  <2>2. \A s \in SUBSET (1 .. k + 1) : s \ {k + 1} \in SUBSET (1 .. k)
    OBVIOUS
  <2>3. k + 1 \in 1 .. n
    BY <1>2
  <2>4. \A s \in SUBSET (1 .. k + 1) :
           k + 1 \notin s => s \in SUBSET (1 .. k) /\ g[s] = f[s]
    BY <2>2
  <2>5. \A s \in SUBSET (1 .. k) : s \in SUBSET (1 .. k + 1) /\ g[s] = f[s] /\ k + 1 \notin s
    OBVIOUS
  <2>6. \A s \in SUBSET (1 .. k + 1) :
           k + 1 \in s => g[s] = step[<<f[s \ {k + 1}], k + 1>>]
    OBVIOUS
  <2>7. g \in [SUBSET (1 .. k + 1) -> S]
    <3>1. \A s \in SUBSET (1 .. k + 1) : g[s] \in S
      BY <2>2, <2>3, <2>4, <2>6
    <3> QED BY <3>1
  <2> HIDE DEF g
  <2>8. \A s \in SUBSET (1 .. k + 1) :
           g[s] = IF s = {} THEN base ELSE step[<<g[s \ {Max(s)}], Max(s)>>]
    <3> TAKE s \in SUBSET (1 .. k + 1)
    <3>1. CASE k + 1 \in s
      <4>1. Max(s) = k + 1
        BY <3>1, LargestOf
      <4>2. g[s \ {k + 1}] = f[s \ {k + 1}]
        BY <2>2, <2>5
      <4> QED BY <2>6, <3>1, <4>1, <4>2
    <3>2. CASE k + 1 \notin s
      <4>1. s \in SUBSET (1 .. k) /\ g[s] = f[s]
        BY <2>4, <3>2
      <4>2. s \ {Max(s)} \in SUBSET (1 .. k)
        BY <4>1
      <4>3. g[s \ {Max(s)}] = f[s \ {Max(s)}]
        BY <4>2, <2>5
      <4> QED BY <2>1, <4>1, <4>3
    <3> QED BY <3>1, <3>2
  <2>9. Good(k + 1)
    BY <2>7, <2>8
  <2>10. k + 1 \in 0 .. n
    BY <1>2
  <2> HIDE DEF Good
  <2> QED BY <2>9, <2>10
<1> HIDE DEF P
<1>3. n \in P
  BY <1>1, <1>2, UpTo
<1> QED BY <1>3 DEF P, FoldsWith

(* The sequence of states of an iteration exists, whatever the step.       *)
Iterates(g, n, first, step) ==
    \A i \in 1 .. n : g[i] = IF i = 1 THEN first ELSE step[<<g[i - 1], i>>]

LEMMA IterationExists ==
  ASSUME NEW S, NEW n \in Nat, NEW first \in S, NEW step \in [S \X (1 .. n) -> S]
  PROVE  \E g \in [1 .. n -> S] : Iterates(g, n, first, step)
<1> DEFINE Good(k) ==
             \E g \in [1 .. k -> S] :
                \A i \in 1 .. k : g[i] = IF i = 1 THEN first ELSE step[<<g[i - 1], i>>]
           P == {k \in 0 .. n : Good(k)}
<1>1. 0 \in P
  <2> DEFINE g == [i \in 1 .. 0 |-> first]
  <2>1. g \in [1 .. 0 -> S] /\ \A i \in 1 .. 0 : FALSE
    OBVIOUS
  <2> HIDE DEF g
  <2>2. Good(0)
    BY <2>1
  <2> HIDE DEF Good
  <2> QED BY <2>2
<1>2. ASSUME NEW k \in 0 .. n, k < n, k \in P PROVE k + 1 \in P
  <2>1. PICK f \in [1 .. k -> S] :
           \A i \in 1 .. k : f[i] = IF i = 1 THEN first ELSE step[<<f[i - 1], i>>]
    BY <1>2
  <2> DEFINE last == IF k = 0 THEN first ELSE step[<<f[k], k + 1>>]
             g == [i \in 1 .. k + 1 |-> IF i = k + 1 THEN last ELSE f[i]]
  <2>2. k + 1 \in 1 .. n /\ (k # 0 => k \in 1 .. k)
    BY <1>2
  <2>3. last \in S
    BY <2>2
  <2>4. g \in [1 .. k + 1 -> S] /\ g[k + 1] = last /\ \A i \in 1 .. k : g[i] = f[i]
    BY <2>3
  <2> HIDE DEF g
  <2>5. ASSUME NEW i \in 1 .. k + 1
        PROVE  g[i] = IF i = 1 THEN first ELSE step[<<g[i - 1], i>>]
    <3>1. CASE i = k + 1
      <4>1. i # 1 => i - 1 = k /\ k \in 1 .. k /\ k # 0
        BY <3>1
      <4>2. i = 1 => k = 0
        BY <3>1
      <4> QED BY <2>4, <3>1, <4>1, <4>2
    <3>2. CASE i # k + 1
      <4>1. i \in 1 .. k /\ (i # 1 => i - 1 \in 1 .. k)
        BY <3>2
      <4> QED BY <2>1, <2>4, <4>1
    <3> QED BY <3>1, <3>2
  <2>6. Good(k + 1)
    BY <2>4, <2>5
  <2> HIDE DEF Good
  <2> QED BY <2>2, <2>6
<1> HIDE DEF P
<1>3. n \in P
  BY <1>1, <1>2, UpTo
<1> QED BY <1>3 DEF P, Iterates

(* What FlattenSeq computes: the sequences one behind the other.           *)
LEMMA Flattened ==
  ASSUME NEW S, NEW seqs \in Seq(Seq(S)), Len(seqs) # 0
  PROVE  \E g \in [1 .. Len(seqs) -> Seq(S)] :
            /\ \A i \in 1 .. Len(seqs) : g[i] = IF i = 1 THEN seqs[i] ELSE g[i - 1] \o seqs[i]
            /\ FlattenSeq(seqs) = g[Len(seqs)]
<1> DEFINE n == Len(seqs)
           step == [p \in Seq(S) \X (1 .. n) |-> p[1] \o seqs[p[2]]]
           F(g) == [i \in 1 .. n |-> IF i = 1 THEN seqs[i] ELSE g[i - 1] \o seqs[i]]
           flatten == CHOOSE g : g = F(g)
<1>1. n \in Nat /\ n # 0 /\ seqs[1] \in Seq(S) /\ \A i \in 1 .. n : seqs[i] \in Seq(S)
  OBVIOUS
<1>2. step \in [Seq(S) \X (1 .. n) -> Seq(S)]
  <2>1. \A s \in Seq(S), i \in 1 .. n : s \o seqs[i] \in Seq(S)
    BY <1>1, ConcatProperties
  <2> QED BY <2>1
<1>3. \A s \in Seq(S), i \in 1 .. n : step[<<s, i>>] = s \o seqs[i]
  OBVIOUS
<1> HIDE DEF n, step
<1>4. PICK g \in [1 .. n -> Seq(S)] : Iterates(g, n, seqs[1], step)
  <2> DEFINE Q == Seq(S)
             first == seqs[1]
  <2>1. n \in Nat /\ first \in Q /\ step \in [Q \X (1 .. n) -> Q]
    BY <1>1, <1>2
  <2> HIDE DEF Q, first, F, flatten
  <2>2. \E g \in [1 .. n -> Q] : Iterates(g, n, first, step)
    BY <2>1, IterationExists
  <2> QED BY <2>2 DEF Q, first
<1>5. \A i \in 1 .. n : g[i] = IF i = 1 THEN seqs[i] ELSE g[i - 1] \o seqs[i]
  <2> TAKE i \in 1 .. n
  <2>1. i # 1 => g[i - 1] \in Seq(S)
    BY <1>1
  <2> QED BY <1>3, <1>4, <2>1 DEF Iterates
<1>6. g = F(g)
  BY <1>5
<1>7. flatten = F(flatten)
  BY <1>6
<1> HIDE DEF flatten
<1>8. \A i \in 1 .. n : flatten[i] = g[i]
  <2> DEFINE P == {i \in 0 .. n : i = 0 \/ flatten[i] = g[i]}
  <2>1. 0 \in P
    BY <1>1
  <2>2. ASSUME NEW i \in 0 .. n, i < n, i \in P PROVE i + 1 \in P
    <3>1. i + 1 \in 1 .. n /\ i + 1 \in 0 .. n
      BY <1>1, <2>2
    <3>2. flatten[i + 1] = IF i + 1 = 1 THEN seqs[i + 1] ELSE flatten[(i + 1) - 1] \o seqs[i + 1]
      BY <1>7, <3>1
    <3>3. g[i + 1] = IF i + 1 = 1 THEN seqs[i + 1] ELSE g[(i + 1) - 1] \o seqs[i + 1]
      BY <1>5, <3>1
    <3>4. (i + 1) - 1 = i /\ (i + 1 = 1 <=> i = 0)
      OBVIOUS
    <3>5. flatten[i + 1] = g[i + 1]
      BY <2>2, <3>2, <3>3, <3>4
    <3> QED BY <3>1, <3>5
  <2> HIDE DEF P
  <2>3. \A i \in 0 .. n : i \in P
    BY <1>1, <2>1, <2>2, UpTo
  <2> QED BY <1>1, <2>3 DEF P
<1>9. FlattenSeq(seqs) = flatten[n]
  BY <1>1 DEF FlattenSeq, flatten, n
<1> HIDE DEF F
<1>10. FlattenSeq(seqs) = g[n]
  BY <1>1, <1>8, <1>9
<1> QED BY <1>5, <1>10 DEF n

(* Its type, ...                                                           *)
LEMMA FlattenType ==
  ASSUME NEW S, NEW seqs \in Seq(Seq(S))
  PROVE  FlattenSeq(seqs) \in Seq(S)
<1>1. CASE Len(seqs) = 0
  <2>1. seqs = <<>> /\ <<>> \in Seq(S)
    BY <1>1, EmptySeq
  <2> QED BY <1>1, <2>1 DEF FlattenSeq
<1>2. CASE Len(seqs) # 0
  <2>1. Len(seqs) \in 1 .. Len(seqs)
    BY <1>2
  <2> QED BY <1>2, <2>1, Flattened
<1> QED BY <1>1, <1>2

(* ... and that sequences of one element each give the sequence of these.  *)
LEMMA FlattenSingletons ==
  ASSUME NEW S, NEW s \in Seq(S)
  PROVE  FlattenSeq([i \in 1 .. Len(s) |-> <<s[i]>>]) = s
<1> DEFINE seqs == [i \in 1 .. Len(s) |-> <<s[i]>>]
           n == Len(s)
<1>1. n \in Nat /\ \A i \in 1 .. n : s[i] \in S
  OBVIOUS
<1>2. seqs \in Seq(Seq(S)) /\ Len(seqs) = n /\ \A i \in 1 .. n : seqs[i] = <<s[i]>>
  <2>1. \A i \in 1 .. n : <<s[i]>> \in Seq(S)
    BY <1>1
  <2> QED BY <1>1, <2>1
<1> HIDE DEF seqs
<1>3. CASE n = 0
  <2>1. s = <<>> /\ seqs = <<>> /\ Len(seqs) = 0
    BY <1>2, <1>3
  <2>2. FlattenSeq(seqs) = seqs
    BY <2>1 DEF FlattenSeq
  <2> QED BY <2>1, <2>2 DEF seqs
<1>4. CASE n # 0
  <2>1. PICK g \in [1 .. n -> Seq(S)] :
           /\ \A i \in 1 .. n : g[i] = IF i = 1 THEN seqs[i] ELSE g[i - 1] \o seqs[i]
           /\ FlattenSeq(seqs) = g[n]
    BY <1>2, <1>4, Flattened
  <2> DEFINE P == {i \in 0 .. n : i = 0 \/ g[i] = SubSeq(s, 1, i)}
  <2>2. 0 \in P
    BY <1>1
  <2>3. ASSUME NEW i \in 0 .. n, i < n, i \in P PROVE i + 1 \in P
    <3>1. i + 1 \in 1 .. n /\ (i + 1) - 1 = i /\ (i + 1 = 1 <=> i = 0)
      BY <1>1, <2>3
    <3>2. g[i + 1] = IF i = 0 THEN <<s[i + 1]>> ELSE g[i] \o <<s[i + 1]>>
      <4>1. g[i + 1] = IF i + 1 = 1 THEN seqs[i + 1] ELSE g[(i + 1) - 1] \o seqs[i + 1]
        BY <2>1, <3>1
      <4>2. seqs[i + 1] = <<s[i + 1]>>
        BY <1>2, <3>1
      <4> QED BY <3>1, <4>1, <4>2
    <3>3. CASE i = 0
      <4>1. SubSeq(s, 1, 1) = <<s[1]>>
        <5>1. SubSeq(s, 1, 1) \in Seq(S) /\ Len(SubSeq(s, 1, 1)) = 1 /\ SubSeq(s, 1, 1)[1] = s[1]
          BY <1>1, <3>1, <3>3, SubSeqProperties
        <5>2. <<s[1]>> \in Seq(S) /\ Len(<<s[1]>>) = 1 /\ <<s[1]>>[1] = s[1]
          BY <1>1, <3>1, <3>3
        <5>3. \A j \in 1 .. 1 : SubSeq(s, 1, 1)[j] = <<s[1]>>[j]
          BY <5>1, <5>2
        <5> QED BY <5>1, <5>2, <5>3, SeqEqual
      <4> QED BY <3>1, <3>2, <3>3, <4>1
    <3>4. CASE i # 0
      <4>1. SubSeq(s, 1, i) \o <<s[i + 1]>> = SubSeq(s, 1, i + 1)
        BY <1>1, <3>1
      <4> QED BY <2>3, <3>1, <3>2, <3>4, <4>1
    <3> QED BY <3>3, <3>4
  <2> HIDE DEF P
  <2>4. n \in P
    <3>1. \A i \in 0 .. n : i \in P
      BY <1>1, <2>2, <2>3, UpTo
    <3> QED BY <1>1, <3>1
  <2>5. g[n] = SubSeq(s, 1, n)
    BY <1>4, <2>4 DEF P
  <2>6. SubSeq(s, 1, n) = s
    BY <1>1
  <2> QED BY <2>1, <2>5, <2>6 DEF seqs
<1> QED BY <1>3, <1>4

-----------------------------------------------------------------------------
(* What a new link does to the chain.                                      *)
LEMMA ChainGrows ==
  ASSUME NEW S, NEW s \in Seq(S), NEW o \in S
  PROVE  /\ Append(s, o) \in Seq(S)
         /\ ToSet(Append(s, o)) = ToSet(s) \cup {o}
         /\ \A i \in 1 .. Len(s) : Append(s, o)[i] = s[i]
         /\ Append(s, o)[Len(s) + 1] = o
         /\ Len(Append(s, o)) = Len(s) + 1
  <1>1. /\ Append(s, o) \in Seq(S)
        /\ Len(Append(s, o)) = Len(s) + 1
        /\ \A i \in 1 .. Len(s) : Append(s, o)[i] = s[i]
        /\ Append(s, o)[Len(s) + 1] = o
    OBVIOUS
  <1>2. DOMAIN Append(s, o) = 1 .. Len(s) + 1 /\ DOMAIN s = 1 .. Len(s)
    OBVIOUS
  <1>3. 1 .. Len(s) + 1 = (1 .. Len(s)) \cup {Len(s) + 1}
    OBVIOUS
  <1>4. ToSet(Append(s, o)) = ToSet(s) \cup {o}
    <2>1. \A x \in ToSet(Append(s, o)) : x \in ToSet(s) \cup {o}
      BY <1>1, <1>2, <1>3 DEF ToSet
    <2>2. \A i \in 1 .. Len(s) : s[i] \in ToSet(Append(s, o))
      BY <1>1, <1>2, <1>3 DEF ToSet
    <2>3. o \in ToSet(Append(s, o))
      BY <1>1, <1>2, <1>3 DEF ToSet
    <2> QED  BY <1>2, <2>1, <2>2, <2>3 DEF ToSet
  <1> QED  BY <1>1, <1>4

(* Running the first link, whatever the chain holds.                       *)
LEMMA ChainMoves ==
  ASSUME NEW S, NEW s \in Seq(S), s # <<>>
  PROVE  /\ Head(s) \in S
         /\ Tail(s) \in Seq(S)
         /\ Len(s) \in Nat \ {0}
         /\ Head(s) = s[1]
         /\ Len(Tail(s)) = Len(s) - 1
         /\ \A i \in 1 .. Len(Tail(s)) : Tail(s)[i] = s[i + 1]
         /\ ToSet(s) = {Head(s)} \cup ToSet(Tail(s))
  <1>1. /\ Len(s) \in Nat \ {0}
        /\ Tail(s) \in Seq(S)
        /\ Head(s) \in S
        /\ Head(s) = s[1]
        /\ Len(Tail(s)) = Len(s) - 1
        /\ DOMAIN s = 1 .. Len(s)
        /\ DOMAIN Tail(s) = 1 .. Len(s) - 1
        /\ \A i \in 1 .. Len(s) - 1 : Tail(s)[i] = s[i + 1]
    OBVIOUS
  <1>2. \A x \in ToSet(Tail(s)) : x \in ToSet(s)
    <2> TAKE x \in ToSet(Tail(s))
    <2>1. PICK i \in 1 .. Len(s) - 1 : x = Tail(s)[i]
      BY <1>1 DEF ToSet
    <2>2. i + 1 \in 1 .. Len(s) /\ x = s[i + 1]
      BY <1>1, <2>1
    <2> QED  BY <1>1, <2>2 DEF ToSet
  <1>3. Head(s) \in ToSet(s)
    BY <1>1 DEF ToSet
  <1>4. \A x \in ToSet(s) : x # Head(s) => x \in ToSet(Tail(s))
    <2> TAKE x \in ToSet(s)
    <2> HAVE x # Head(s)
    <2>1. PICK i \in 1 .. Len(s) : x = s[i]
      BY <1>1 DEF ToSet
    <2>2. i # 1 /\ i - 1 \in 1 .. Len(s) - 1
      BY <1>1, <2>1
    <2>3. x = Tail(s)[i - 1]
      BY <1>1, <2>1, <2>2
    <2> QED  BY <1>1, <2>2, <2>3 DEF ToSet
  <1> QED  BY <1>1, <1>2, <1>3, <1>4

(* Running the first link of a chain that holds each link once.            *)
LEMMA ChainShrinks ==
  ASSUME NEW S, NEW s \in Seq(S), s # <<>>,
         \A i, j \in 1 .. Len(s) : s[i] = s[j] => i = j
  PROVE  /\ Head(s) \in S
         /\ Head(s) \in ToSet(s)
         /\ Tail(s) \in Seq(S)
         /\ ToSet(Tail(s)) = ToSet(s) \ {Head(s)}
         /\ \A i, j \in 1 .. Len(Tail(s)) : Tail(s)[i] = Tail(s)[j] => i = j
  <1>1. /\ Len(s) \in Nat \ {0}
        /\ Tail(s) \in Seq(S)
        /\ Head(s) \in S
        /\ Head(s) = s[1]
        /\ Len(Tail(s)) = Len(s) - 1
        /\ \A i \in 1 .. Len(Tail(s)) : Tail(s)[i] = s[i + 1]
        /\ ToSet(s) = {Head(s)} \cup ToSet(Tail(s))
    BY ChainMoves
  <1>2. DOMAIN Tail(s) = 1 .. Len(Tail(s))
    BY <1>1
  <1>3. Head(s) \notin ToSet(Tail(s))
    <2> SUFFICES ASSUME NEW i \in 1 .. Len(Tail(s)), Tail(s)[i] = Head(s) PROVE FALSE
      BY <1>2 DEF ToSet
    <2>1. i + 1 \in 1 .. Len(s) /\ 1 \in 1 .. Len(s) /\ s[i + 1] = s[1]
      BY <1>1
    <2> QED  BY <1>1, <2>1
  <1>4. \A i, j \in 1 .. Len(Tail(s)) : Tail(s)[i] = Tail(s)[j] => i = j
    <2> TAKE i, j \in 1 .. Len(Tail(s))
    <2>1. i + 1 \in 1 .. Len(s) /\ j + 1 \in 1 .. Len(s)
      BY <1>1
    <2>2. Tail(s)[i] = s[i + 1] /\ Tail(s)[j] = s[j + 1]
      BY <1>1
    <2> QED  BY <2>1, <2>2
  <1> QED  BY <1>1, <1>3, <1>4
=============================================================================

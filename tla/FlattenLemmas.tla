--------------------------- MODULE FlattenLemmas ---------------------------
(***************************************************************************)
(* What FlattenSeq of the community modules does with a sequence that      *)
(* grows at its end. FlattenSeq is defined by recursion; that there is one *)
(* function its definition describes is shown by looking at the first      *)
(* place where it could fail.                                              *)
(***************************************************************************)
EXTENDS Integers, Sequences, SequencesExt, SequenceTheorems, WellFoundedInduction, TLAPS

(* A set of numbers with an element has a least one.                       *)
LEMMA LeastNumber ==
  ASSUME NEW T \in SUBSET Nat, T # {}
  PROVE  \E m \in T : \A k \in T : m <= k
<1> DEFINE R == OpToRel(<, Nat)
<1>1. IsWellFoundedOn(R, Nat)
  BY NatLessThanWellFounded
<1> HIDE DEF R
<1>2. PICK m \in T : \A k \in T : ~(<<k, m>> \in R)
  BY <1>1, WFMin
<1>3. ASSUME NEW k \in T, k < m PROVE <<k, m>> \in R
  BY <1>3 DEF R, OpToRel
<1>4. ASSUME NEW k \in T PROVE m <= k
  <2>1. m \in Nat /\ k \in Nat /\ ~(k < m)
    BY <1>2, <1>3
  <2>2. QED
    BY <2>1
<1>5. QED
  BY <1>4

(* f[i] is the first i sequences after each other.                         *)
Flattens(f, seqs, n) ==
  f = [i \in 1 .. n |-> IF i = 1 THEN seqs[i] ELSE f[i - 1] \o seqs[i]]

(* On what two sequences have in common, they flatten to the same.         *)
LEMMA FlattensAlike ==
  ASSUME NEW s, NEW t, NEW k \in Nat, NEW n \in Nat, k <= n,
         NEW f, NEW g, Flattens(f, s, k), Flattens(g, t, n),
         \A i \in 1 .. k : s[i] = t[i]
  PROVE  \A i \in 1 .. k : f[i] = g[i]
<1> DEFINE T == {i \in 1 .. k : f[i] # g[i]}
<1>1. SUFFICES ASSUME T # {} PROVE FALSE
  OBVIOUS
<1>2. PICK i \in T : \A j \in T : i <= j
  <2>1. T \in SUBSET Nat
    OBVIOUS
  <2> HIDE DEF T
  <2>2. QED
    BY <1>1, <2>1, LeastNumber
<1>3. /\ f[i] = IF i = 1 THEN s[i] ELSE f[i - 1] \o s[i]
      /\ g[i] = IF i = 1 THEN t[i] ELSE g[i - 1] \o t[i]
  <2>1. i \in 1 .. k /\ i \in 1 .. n
    OBVIOUS
  <2>2. QED
    BY <2>1 DEF Flattens
<1>4. s[i] = t[i] /\ f[i] # g[i] /\ i \in 1 .. k
  OBVIOUS
<1>5. CASE i = 1
  BY <1>3, <1>4, <1>5
<1>6. CASE i # 1
  <2>1. i - 1 \in 1 .. k /\ ~(i <= i - 1)
    BY <1>4, <1>6
  <2>2. i - 1 \notin T
    BY <1>2, <2>1
  <2>3. f[i - 1] = g[i - 1]
    BY <2>1, <2>2
  <2>4. QED
    BY <1>3, <1>4, <1>6, <2>3
<1>7. QED
  BY <1>5, <1>6

(* One more sequence.                                                      *)
LEMMA FlattensMore ==
  ASSUME NEW seqs, NEW n \in Nat, NEW f, Flattens(f, seqs, n)
  PROVE  \E g : Flattens(g, seqs, n + 1)
<1> DEFINE more == IF n = 0 THEN seqs[1] ELSE f[n] \o seqs[n + 1]
           g == [i \in 1 .. n + 1 |-> IF i = n + 1 THEN more ELSE f[i]]
<1>1. ASSUME NEW i \in 1 .. n + 1
      PROVE  g[i] = IF i = 1 THEN seqs[i] ELSE g[i - 1] \o seqs[i]
  <2>1. CASE i = n + 1
    <3>1. CASE n = 0
      BY <2>1, <3>1
    <3>2. CASE n # 0
      <4>1. n \in 1 .. n + 1 /\ n # n + 1 /\ i # 1 /\ i - 1 = n
        BY <2>1, <3>2
      <4>2. g[n] = f[n] /\ g[i] = f[n] \o seqs[n + 1]
        BY <2>1, <3>2, <4>1
      <4>3. QED
        BY <2>1, <4>1, <4>2
    <3>3. QED
      BY <3>1, <3>2
  <2>2. CASE i # n + 1
    <3>1. i \in 1 .. n /\ g[i] = f[i]
      BY <2>2
    <3>2. f[i] = IF i = 1 THEN seqs[i] ELSE f[i - 1] \o seqs[i]
      BY <3>1 DEF Flattens
    <3>3. i # 1 => g[i - 1] = f[i - 1]
      BY <3>1
    <3>4. QED
      BY <3>1, <3>2, <3>3
  <2>3. QED
    BY <2>1, <2>2
<1>2. Flattens(g, seqs, n + 1)
  <2>1. g = [i \in 1 .. n + 1 |-> g[i]]
    OBVIOUS
  <2> HIDE DEF g
  <2>2. QED
    BY <1>1, <2>1 DEF Flattens
<1>3. QED
  BY <1>2

LEMMA FlattensExists ==
  ASSUME NEW seqs, NEW n \in Nat
  PROVE  \E f : Flattens(f, seqs, n)
<1> DEFINE T == {k \in Nat : ~\E f : Flattens(f, seqs, k)}
<1>1. SUFFICES ASSUME T # {} PROVE FALSE
  OBVIOUS
<1>2. PICK k \in T : \A j \in T : k <= j
  BY <1>1, LeastNumber
<1>3. k # 0
  <2>1. Flattens([i \in 1 .. 0 |-> 0], seqs, 0)
    BY DEF Flattens
  <2>2. QED
    BY <2>1
<1>4. PICK j \in Nat : k = j + 1
  <2>1. k - 1 \in Nat /\ k = (k - 1) + 1
    BY <1>3
  <2>2. QED
    BY <2>1
<1>5. j \notin T
  BY <1>2, <1>4
<1>6. PICK f : Flattens(f, seqs, j)
  BY <1>5
<1>7. QED
  BY <1>4, <1>6, FlattensMore

LEMMA FlattensTyped ==
  ASSUME NEW S, NEW seqs \in Seq(Seq(S)), NEW f, Flattens(f, seqs, Len(seqs))
  PROVE  \A i \in 1 .. Len(seqs) : f[i] \in Seq(S)
<1> DEFINE T == {i \in 1 .. Len(seqs) : f[i] \notin Seq(S)}
<1>1. SUFFICES ASSUME T # {} PROVE FALSE
  OBVIOUS
<1>2. PICK i \in T : \A j \in T : i <= j
  <2>1. T \in SUBSET Nat
    OBVIOUS
  <2> HIDE DEF T
  <2>2. QED
    BY <1>1, <2>1, LeastNumber
<1>3. i \in 1 .. Len(seqs) /\ seqs[i] \in Seq(S)
  OBVIOUS
<1>4. f[i] = IF i = 1 THEN seqs[i] ELSE f[i - 1] \o seqs[i]
  BY <1>3 DEF Flattens
<1>5. i # 1
  BY <1>3, <1>4
<1>6. i - 1 \in 1 .. Len(seqs) /\ ~(i <= i - 1)
  BY <1>3, <1>5
<1>7. f[i - 1] \in Seq(S)
  BY <1>2, <1>6
<1>8. f[i] \in Seq(S)
  BY <1>3, <1>4, <1>5, <1>7
<1>9. QED
  BY <1>8

(* FlattenSeq is the last value of such a function.                        *)
LEMMA FlattenSeqIs ==
  ASSUME NEW seqs, Len(seqs) \in Nat, Len(seqs) # 0
  PROVE  \E f : Flattens(f, seqs, Len(seqs)) /\ FlattenSeq(seqs) = f[Len(seqs)]
<1> DEFINE flatten[i \in 1 .. Len(seqs)] ==
             IF i = 1 THEN seqs[i] ELSE flatten[i - 1] \o seqs[i]
<1>1. FlattenSeq(seqs) = flatten[Len(seqs)]
  BY DEF FlattenSeq
<1>2. \E f : f = [i \in 1 .. Len(seqs) |-> IF i = 1 THEN seqs[i] ELSE f[i - 1] \o seqs[i]]
  BY FlattensExists DEF Flattens
<1>3. flatten = [i \in 1 .. Len(seqs) |->
                   IF i = 1 THEN seqs[i] ELSE flatten[i - 1] \o seqs[i]]
  BY <1>2
<1> HIDE DEF flatten
<1>4. QED
  BY <1>1, <1>3 DEF Flattens

(* One more sequence comes after what the others flatten to.               *)
LEMMA FlattenGrows ==
  ASSUME NEW seqs, NEW more, NEW n \in Nat, n # 0, Len(seqs) = n, Len(more) = n + 1,
         \A i \in 1 .. n : seqs[i] = more[i]
  PROVE  FlattenSeq(more) = FlattenSeq(seqs) \o more[n + 1]
<1>1. n + 1 \in Nat /\ n <= n + 1 /\ n \in 1 .. n /\ n + 1 # 0 /\ n + 1 # 1
      /\ n + 1 \in 1 .. n + 1 /\ (n + 1) - 1 = n
  OBVIOUS
<1>2. PICK f : Flattens(f, seqs, n) /\ FlattenSeq(seqs) = f[n]
  BY FlattenSeqIs
<1>3. PICK g : Flattens(g, more, n + 1) /\ FlattenSeq(more) = g[n + 1]
  BY <1>1, FlattenSeqIs
<1>4. \A i \in 1 .. n : f[i] = g[i]
  <2>1. Flattens(f, seqs, n) /\ Flattens(g, more, n + 1)
    BY <1>2, <1>3
  <2>2. n \in Nat /\ n + 1 \in Nat /\ n <= n + 1
    BY <1>1
  <2>3. QED
    BY <2>1, <2>2, FlattensAlike, SMTT(60)
<1>5. g[n + 1] = g[n] \o more[n + 1]
  BY <1>1, <1>3 DEF Flattens
<1>6. QED
  BY <1>1, <1>2, <1>3, <1>4, <1>5

(* A sequence of sequences gets one more at its end.                       *)
LEMMA FlattenAppend ==
  ASSUME NEW S, NEW seqs \in Seq(Seq(S)), NEW x \in Seq(S)
  PROVE  /\ FlattenSeq(seqs) \in Seq(S)
         /\ FlattenSeq(Append(seqs, x)) = FlattenSeq(seqs) \o x
<1>1. PICK n \in Nat : n = Len(seqs)
  OBVIOUS
<1>2. PICK more : more = Append(seqs, x)
  OBVIOUS
<1>3. /\ more \in Seq(Seq(S)) /\ Len(more) = n + 1
      /\ more[n + 1] = x /\ \A i \in 1 .. n : seqs[i] = more[i]
  BY <1>1, <1>2
<1>4. CASE n = 0
  <2>1. seqs = <<>>
    BY <1>1, <1>4, EmptySeq
  <2>2. FlattenSeq(seqs) = seqs
    BY <1>1, <1>4 DEF FlattenSeq
  <2>3. PICK g : Flattens(g, more, 1) /\ FlattenSeq(more) = g[1]
    <3>1. Len(more) = 1 /\ Len(more) \in Nat /\ Len(more) # 0
      BY <1>3, <1>4
    <3>2. QED
      BY <3>1, FlattenSeqIs
  <2>4. g[1] = x
    BY <1>3, <1>4, <2>3 DEF Flattens
  <2>5. <<>> \in Seq(S) /\ <<>> \o x = x
    OBVIOUS
  <2>6. QED
    BY <1>2, <2>1, <2>2, <2>3, <2>4, <2>5
<1>5. CASE n # 0
  <2>1. FlattenSeq(more) = FlattenSeq(seqs) \o more[n + 1]
    BY <1>1, <1>3, <1>5, FlattenGrows
  <2>2. PICK f : Flattens(f, seqs, n) /\ FlattenSeq(seqs) = f[n]
    BY <1>1, <1>5, FlattenSeqIs
  <2>3. f[n] \in Seq(S)
    BY <1>1, <1>5, <2>2, FlattensTyped
  <2>4. QED
    BY <1>2, <1>3, <2>1, <2>2, <2>3
<1>6. QED
  BY <1>4, <1>5
=============================================================================

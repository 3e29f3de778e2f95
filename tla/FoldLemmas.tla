----------------------------- MODULE FoldLemmas -----------------------------
(***************************************************************************)
(* What the proofs about directories and reads need of numbers and folds:  *)
(* induction over Nat for a set, the greatest element of a finite set, and *)
(* the function a left fold is computed by (MapThenFoldSet in Folds).      *)
(***************************************************************************)
EXTENDS Integers, SequencesExt, WellFoundedInduction, TLAPS

\* A set of naturals has a least element.
LEMMA Least ==
  ASSUME NEW T \in SUBSET Nat, T # {}
  PROVE  \E x \in T : \A y \in T : x <= y
<1>1. IsWellFoundedOn(OpToRel(<, Nat), Nat)
  BY NatLessThanWellFounded
<1>2. \E x \in T : \A y \in T : ~(<<y, x>> \in OpToRel(<, Nat))
  BY <1>1, WFMin
<1>3. ASSUME NEW x \in Nat, NEW y \in Nat, y < x
      PROVE  <<y, x>> \in OpToRel(<, Nat)
  BY <1>3, Zenon DEF OpToRel
<1>4. PICK x \in T : \A y \in T : ~(<<y, x>> \in OpToRel(<, Nat))
  BY <1>2
<1>5. \A y \in T : ~(y < x)
  BY <1>4, <1>3, Zenon
<1> QED
  BY <1>5

\* Induction, for the set of the numbers that have the property.
LEMMA NatInduct ==
  ASSUME NEW T, 0 \in T, \A n \in Nat : n \in T => n + 1 \in T
  PROVE  Nat \subseteq T
<1> DEFINE U == Nat \ T
<1> SUFFICES ASSUME U # {} PROVE FALSE
  OBVIOUS
<1>1. PICK x \in U : \A y \in U : x <= y
  <2>1. U \in SUBSET Nat
    OBVIOUS
  <2> HIDE DEF U
  <2> QED
    BY <2>1, Least
<1>2. x # 0 /\ x - 1 \in Nat /\ x - 1 \notin U
  BY <1>1
<1> QED
  BY <1>1, <1>2

\* A quotient and a remainder that fit are the quotient and the remainder.
LEMMA DivUnique ==
  ASSUME NEW d \in Nat, d > 0, NEW q \in Nat, NEW r \in Nat, r < d,
         NEW n, n = d * q + r
  PROVE  n \in Nat /\ n \div d = q /\ n % d = r
<1> DEFINE q2 == n \div d
           r2 == n % d
<1>1. d * q \in Nat /\ n \in Nat
  OBVIOUS
<1>2. q2 \in Nat /\ r2 \in Nat /\ r2 < d /\ n = d * q2 + r2
  BY <1>1
<1> HIDE DEF q2, r2
<1>3. q2 = q
  <2>1. CASE q2 >= q + 1
    <3>1. d * q2 >= d * (q + 1)
      BY <1>2, <2>1
    <3>2. d * (q + 1) = d * q + d
      OBVIOUS
    <3> QED
      BY <1>1, <1>2, <3>1, <3>2
  <2>2. CASE q >= q2 + 1
    <3>1. d * q >= d * (q2 + 1)
      BY <1>2, <2>2
    <3>2. d * (q2 + 1) = d * q2 + d
      BY <1>2
    <3> QED
      BY <1>1, <1>2, <3>1, <3>2
  <2> QED
    BY <1>2, <2>1, <2>2
<1>4. r2 = r
  BY <1>1, <1>2, <1>3
<1> QED
  BY <1>1, <1>3, <1>4 DEF q2, r2

\* Max is what its name says.
LEMMA MaxIsGreatest ==
  ASSUME NEW n \in Nat, NEW T \in SUBSET (1 .. n), T # {}
  PROVE  Max(T) \in T /\ \A y \in T : y <= Max(T)
<1> DEFINE U == { n - y : y \in T }
<1>1. PICK u \in U : \A v \in U : u <= v
  <2>1. \A y \in T : n - y \in Nat
    OBVIOUS
  <2>2. U \in SUBSET Nat
    BY <2>1
  <2>3. U # {}
    OBVIOUS
  <2> HIDE DEF U
  <2> QED
    BY <2>2, <2>3, Least
<1>2. n - u \in T /\ \A y \in T : n - u >= y
  BY <1>1
<1> QED
  BY <1>2 DEF Max

\* The greatest number up to n is n.
LEMMA MaxUpTo ==
  ASSUME NEW n \in Nat, NEW j \in 1 .. n
  PROVE  /\ Max(1 .. j) = j
         /\ (1 .. j) \ {j} = 1 .. j - 1
         /\ 1 .. j \in SUBSET (1 .. n)
<1>1. 1 .. j \in SUBSET (1 .. n) /\ j \in 1 .. j
  OBVIOUS
<1>2. Max(1 .. j) \in 1 .. j /\ j <= Max(1 .. j)
  <2>1. 1 .. j # {}
    BY <1>1
  <2> QED
    BY <1>1, <2>1, MaxIsGreatest
<1> QED
  BY <1>1, <1>2

\* h folds every subset of 1 .. m: F takes the result so far and an element,
\* and the results are in V.
FoldsUpTo(h, m, V, base, F) ==
  /\ h \in [SUBSET (1 .. m) -> V]
  /\ \A T \in SUBSET (1 .. m) :
       h[T] = IF T = {} THEN base ELSE F[<<h[T \ {Max(T)}], Max(T)>>]

\* One more element of a fold: the elements below it are folded first.
LEMMA FoldExtends ==
  ASSUME NEW n \in Nat, NEW m \in 0 .. n - 1,
         NEW V, NEW base \in V, NEW F \in [V \X (1 .. n) -> V],
         NEW h, FoldsUpTo(h, m, V, base, F)
  PROVE  \E g : FoldsUpTo(g, m + 1, V, base, F)
<1> USE DEF FoldsUpTo
<1> DEFINE g == [T \in SUBSET (1 .. m + 1) |->
                   IF m + 1 \in T THEN F[<<h[T \ {m + 1}], m + 1>>] ELSE h[T]]
<1>1. ASSUME NEW T \in SUBSET (1 .. m + 1)
      PROVE  /\ m + 1 \in T => T \ {m + 1} \in SUBSET (1 .. m)
             /\ m + 1 \notin T => T \in SUBSET (1 .. m)
  OBVIOUS
<1>2. g \in [SUBSET (1 .. m + 1) -> V]
  BY <1>1
<1>3. ASSUME NEW T \in SUBSET (1 .. m + 1)
      PROVE  g[T] = IF T = {} THEN base ELSE F[<<g[T \ {Max(T)}], Max(T)>>]
  <2>1. CASE m + 1 \in T
    <3>1. Max(T) = m + 1
      <4>1. Max(T) \in T /\ m + 1 <= Max(T)
        <5>1. m + 1 \in Nat /\ T # {}
          BY <2>1
        <5> QED
          BY <2>1, <5>1, MaxIsGreatest
      <4>2. \A x \in T : m + 1 <= x => x = m + 1
        OBVIOUS
      <4> QED
        BY <4>1, <4>2
    <3>2. g[T \ {m + 1}] = h[T \ {m + 1}]
      BY <1>1, <2>1
    <3>3. g[T] = F[<<h[T \ {m + 1}], m + 1>>]
      BY <2>1
    <3> QED
      BY <2>1, <3>1, <3>2, <3>3
  <2>2. CASE m + 1 \notin T
    <3>1. T \in SUBSET (1 .. m) /\ g[T] = h[T]
      BY <1>1, <2>2
    <3>2. ASSUME NEW x
          PROVE  T \ {x} \in SUBSET (1 .. m) /\ m + 1 \notin T \ {x}
      BY <3>1, <2>2
    <3>3. g[T \ {Max(T)}] = h[T \ {Max(T)}]
      BY <3>2
    <3>4. h[T] = IF T = {} THEN base ELSE F[<<h[T \ {Max(T)}], Max(T)>>]
      BY <3>1
    <3> HIDE DEF g
    <3> QED
      BY <3>1, <3>3, <3>4
  <2> QED
    BY <2>1, <2>2
<1> HIDE DEF g
<1> QED
  BY <1>2, <1>3

\* A fold over 1 .. n is defined, and its results stay in V when the steps do.
LEMMA FoldExists ==
  ASSUME NEW n \in Nat, NEW V, NEW base \in V, NEW F \in [V \X (1 .. n) -> V]
  PROVE  \E h : FoldsUpTo(h, n, V, base, F)
<1> DEFINE Folds(m) == \E h : FoldsUpTo(h, m, V, base, F)
           Good == { m \in Nat : m <= n => Folds(m) }
<1>1. 0 \in Good
  <2> DEFINE h == [T \in SUBSET (1 .. 0) |-> base]
  <2>1. h \in [SUBSET (1 .. 0) -> V]
    OBVIOUS
  <2>2. \A T \in SUBSET (1 .. 0) : T = {} /\ h[T] = base
    OBVIOUS
  <2> HIDE DEF h
  <2>3. Folds(0)
    BY <2>1, <2>2 DEF FoldsUpTo
  <2> HIDE DEF Folds
  <2> QED
    BY <2>3
<1>2. ASSUME NEW m \in Nat, m \in Good
      PROVE  m + 1 \in Good
  <2>1. ASSUME m + 1 <= n
        PROVE  Folds(m + 1)
    <3>1. Folds(m) /\ m \in 0 .. n - 1
      <4> HIDE DEF Folds
      <4> QED
        BY <1>2, <2>1
    <3> QED
      BY <3>1, FoldExtends
  <2> HIDE DEF Folds
  <2> QED
    BY <2>1
<1>3. Nat \subseteq Good
  <2> HIDE DEF Good
  <2> QED
    BY <1>1, <1>2, NatInduct
<1>4. Folds(n)
  <2> HIDE DEF Folds
  <2> QED
    BY <1>3
<1> QED
  BY <1>4

\* The chain of results a fold goes through.
IsChain(g, n, V, base, F) ==
  /\ g \in [0 .. n -> V]
  /\ g[0] = base
  /\ \A j \in 1 .. n : g[j] = F[<<g[j - 1], j>>]

\* Then there is the chain of partial results of a fold, too.
LEMMA ChainExists ==
  ASSUME NEW n \in Nat, NEW V, NEW base \in V, NEW F \in [V \X (1 .. n) -> V]
  PROVE  \E g : IsChain(g, n, V, base, F)
<1>1. PICK h : FoldsUpTo(h, n, V, base, F)
  BY FoldExists
<1> DEFINE g == [j \in 0 .. n |-> h[1 .. j]]
<1>2. \A j \in 0 .. n : 1 .. j \in SUBSET (1 .. n)
  OBVIOUS
<1>3. g \in [0 .. n -> V]
  BY <1>1, <1>2 DEF FoldsUpTo
<1>4. g[0] = base
  <2>1. 1 .. 0 = {}
    OBVIOUS
  <2>2. h[{}] = base
    BY <1>1 DEF FoldsUpTo
  <2> QED
    BY <2>1, <2>2
<1>5. ASSUME NEW j \in 1 .. n
      PROVE  g[j] = F[<<g[j - 1], j>>]
  <2>1. h[1 .. j] = F[<<h[(1 .. j) \ {Max(1 .. j)}], Max(1 .. j)>>]
    <3>1. 1 .. j # {}
      OBVIOUS
    <3> QED
      BY <1>1, <1>2, <3>1, SMTT(60) DEF FoldsUpTo
  <2>2. h[1 .. j] = F[<<h[1 .. j - 1], j>>]
    BY <2>1, MaxUpTo
  <2>3. j \in 0 .. n /\ j - 1 \in 0 .. n
    OBVIOUS
  <2> QED
    BY <2>2, <2>3
<1> HIDE DEF g
<1>6. IsChain(g, n, V, base, F)
  BY <1>3, <1>4, <1>5 DEF IsChain
<1> QED
  BY <1>6

\* f takes these steps, as long as its results are in V.
FollowsFold(f, n, V, base, F) ==
  /\ f[{}] = base
  /\ \A T \in SUBSET (1 .. n) :
       T # {} /\ f[T \ {Max(T)}] \in V => f[T] = F[<<f[T \ {Max(T)}], Max(T)>>]

\* Then they are all in V, and the results of the chain.
LEMMA FoldFollows ==
  ASSUME NEW n \in Nat, NEW V, NEW base \in V, NEW F,
         NEW g, IsChain(g, n, V, base, F),
         NEW f, FollowsFold(f, n, V, base, F)
  PROVE  \A j \in 0 .. n : f[1 .. j] = g[j]
<1>1. /\ g \in [0 .. n -> V] /\ g[0] = base
      /\ \A j \in 1 .. n : g[j] = F[<<g[j - 1], j>>]
  BY DEF IsChain
<1> DEFINE S == { j \in Nat : j <= n => f[1 .. j] = g[j] }
<1>2. 0 \in S
  <2>1. 1 .. 0 = {}
    OBVIOUS
  <2> QED
    BY <1>1, <2>1 DEF FollowsFold
<1>3. ASSUME NEW j \in Nat, j \in S
      PROVE  j + 1 \in S
  <2>1. ASSUME j + 1 <= n
        PROVE  f[1 .. j + 1] = g[j + 1]
    <3>1. j + 1 \in 1 .. n /\ (j + 1) - 1 = j /\ f[1 .. j] = g[j] /\ j \in 0 .. n
      BY <1>3, <2>1
    <3>2. /\ Max(1 .. j + 1) = j + 1
          /\ (1 .. j + 1) \ {j + 1} = 1 .. j
          /\ 1 .. j + 1 \in SUBSET (1 .. n)
      BY <3>1, MaxUpTo
    <3>3. 1 .. j + 1 # {}
      <4>1. 1 \in 1 .. j + 1
        BY <3>1
      <4> QED
        BY <4>1
    <3>5. g[j] \in V
      BY <1>1, <3>1
    <3>4. f[1 .. j + 1] = F[<<f[1 .. j], j + 1>>]
      BY <3>1, <3>2, <3>3, <3>5 DEF FollowsFold
    <3> QED
      BY <1>1, <3>1, <3>4
  <2> QED
    BY <2>1
<1> HIDE DEF S
<1>4. Nat \subseteq S
  BY <1>2, <1>3, NatInduct
<1> QED
  BY <1>4 DEF S

\* g[j] is the first j of the sequences, one after the other.
Flattens(g, seqs, V) ==
  /\ g \in [0 .. Len(seqs) -> Seq(V)]
  /\ g[0] = <<>>
  /\ \A j \in 1 .. Len(seqs) : g[j] = g[j - 1] \o seqs[j]

\* There are such partial results for every sequence of sequences.
LEMMA FlattensExists ==
  ASSUME NEW V, NEW seqs \in Seq(Seq(V))
  PROVE  \E g : Flattens(g, seqs, V)
<1> DEFINE n == Len(seqs)
           F == [p \in Seq(V) \X (1 .. n) |-> p[1] \o seqs[p[2]]]
<1>1. n \in Nat /\ \A j \in 1 .. n : seqs[j] \in Seq(V)
  OBVIOUS
<1>2. F \in [Seq(V) \X (1 .. n) -> Seq(V)]
  BY <1>1
<1>3. <<>> \in Seq(V)
  OBVIOUS
<1>4. PICK g : IsChain(g, n, Seq(V), <<>>, F)
  <2> HIDE DEF F, n
  <2> QED
    BY <1>1, <1>2, <1>3, ChainExists
<1>5. g \in [0 .. n -> Seq(V)] /\ g[0] = <<>>
  BY <1>4 DEF IsChain
<1>6. ASSUME NEW j \in 1 .. n
      PROVE  g[j] = g[j - 1] \o seqs[j]
  <2>1. g[j] = F[<<g[j - 1], j>>]
    BY <1>4 DEF IsChain
  <2>2. j - 1 \in 0 .. n
    <3> HIDE DEF n, F
    <3> QED
      BY <1>1
  <2>3. g[j - 1] \in Seq(V)
    <3> HIDE DEF n, F
    <3> QED
      BY <1>5, <2>2
  <2> QED
    BY <2>1, <2>3
<1>7. Flattens(g, seqs, V)
  BY <1>5, <1>6 DEF Flattens
<1> QED
  BY <1>7

\* FlattenSeq appends the sequences one after the other.
LEMMA FlattenChain ==
  ASSUME NEW V, NEW seqs \in Seq(Seq(V)), NEW g, Flattens(g, seqs, V)
  PROVE  FlattenSeq(seqs) = g[Len(seqs)]
<1> DEFINE n == Len(seqs)
           Flat(f) == f = [i \in 1 .. n |-> IF i = 1 THEN seqs[i] ELSE f[i - 1] \o seqs[i]]
           flat == CHOOSE f : Flat(f)
<1>1. n \in Nat /\ \A j \in 1 .. n : seqs[j] \in Seq(V)
  OBVIOUS
<1>2. /\ g \in [0 .. n -> Seq(V)] /\ g[0] = <<>>
      /\ \A j \in 1 .. n : g[j] = g[j - 1] \o seqs[j]
  BY DEF Flattens
<1>3. CASE n = 0
  <2>1. seqs = <<>>
    BY <1>3
  <2> QED
    BY <1>2, <1>3, <2>1 DEF FlattenSeq
<1>4. CASE n > 0
  <2>1. g[1] = seqs[1]
    <3>1. 1 \in 1 .. n /\ seqs[1] \in Seq(V) /\ 1 - 1 = 0
      BY <1>1, <1>4
    <3>2. g[1] = <<>> \o seqs[1]
      BY <1>2, <3>1
    <3> QED
      BY <3>1, <3>2
  <2>2. Flat([i \in 1 .. n |-> g[i]])
    <3>1. \A i \in 1 .. n : i # 1 => i - 1 \in 1 .. n
      OBVIOUS
    <3> QED
      BY <1>2, <2>1, <3>1
  <2>3. Flat(flat)
    <3> HIDE DEF Flat
    <3> QED
      BY <2>2
  <2>4. FlattenSeq(seqs) = flat[n]
    BY <1>4 DEF FlattenSeq
  <2>5. \A i \in 1 .. n : flat[i] = IF i = 1 THEN seqs[i] ELSE flat[i - 1] \o seqs[i]
    BY <2>3
  <2> HIDE DEF flat, Flat
  <2> DEFINE T == { i \in Nat : i \in 1 .. n => flat[i] = g[i] }
  <2>6. 0 \in T
    OBVIOUS
  <2>7. ASSUME NEW i \in Nat, i \in T
        PROVE  i + 1 \in T
    <3>1. ASSUME i + 1 \in 1 .. n, i = 0
          PROVE  flat[i + 1] = g[i + 1]
      <4>1. i + 1 = 1 /\ 1 \in 1 .. n
        BY <3>1
      <4>2. flat[1] = seqs[1]
        BY <2>5, <4>1
      <4> QED
        BY <2>1, <4>1, <4>2
    <3>2. ASSUME i + 1 \in 1 .. n, i # 0
          PROVE  flat[i + 1] = g[i + 1]
      <4>1. flat[i] = g[i] /\ i + 1 # 1 /\ (i + 1) - 1 = i
        BY <2>7, <3>2
      <4>2. flat[i + 1] = flat[(i + 1) - 1] \o seqs[i + 1]
        BY <2>5, <3>2, <4>1
      <4>3. g[i + 1] = g[(i + 1) - 1] \o seqs[i + 1]
        BY <1>2, <3>2
      <4> QED
        BY <4>1, <4>2, <4>3
    <3> QED
      BY <3>1, <3>2
  <2>8. Nat \subseteq T
    <3> HIDE DEF T
    <3> QED
      BY <2>6, <2>7, NatInduct
  <2> QED
    BY <1>1, <1>4, <2>4, <2>8
<1> QED
  BY <1>1, <1>3, <1>4

\* What FlattenSeq makes of sequences over V is one.
LEMMA FlattenIsSeq ==
  ASSUME NEW V, NEW seqs \in Seq(Seq(V))
  PROVE  FlattenSeq(seqs) \in Seq(V)
<1>1. PICK g : Flattens(g, seqs, V)
  BY FlattensExists
<1>2. Len(seqs) \in 0 .. Len(seqs)
  OBVIOUS
<1>3. g[Len(seqs)] \in Seq(V)
  BY <1>1, <1>2 DEF Flattens
<1>4. FlattenSeq(seqs) = g[Len(seqs)]
  BY <1>1, FlattenChain
<1> QED
  BY <1>3, <1>4

\* One more sequence at the end.
LEMMA FlattenAppend ==
  ASSUME NEW V, NEW seqs \in Seq(Seq(V)), NEW s \in Seq(V)
  PROVE  FlattenSeq(Append(seqs, s)) = FlattenSeq(seqs) \o s
<1> DEFINE all == Append(seqs, s)
           n == Len(seqs)
<1>1. n \in Nat /\ all \in Seq(Seq(V)) /\ Len(all) = n + 1 /\ all[n + 1] = s
      /\ \A j \in 1 .. n : all[j] = seqs[j]
  OBVIOUS
<1> HIDE DEF all, n
<1>2. PICK g : Flattens(g, all, V)
  BY <1>1, FlattensExists
<1>3. /\ g \in [0 .. n + 1 -> Seq(V)] /\ g[0] = <<>>
      /\ \A j \in 1 .. n + 1 : g[j] = g[j - 1] \o all[j]
  BY <1>1, <1>2 DEF Flattens
<1> DEFINE h == [j \in 0 .. n |-> g[j]]
<1>4. Flattens(h, seqs, V)
  <2>1. h \in [0 .. n -> Seq(V)] /\ h[0] = <<>>
    BY <1>1, <1>3
  <2>2. ASSUME NEW j \in 1 .. n
        PROVE  h[j] = h[j - 1] \o seqs[j]
    <3>1. j \in 1 .. n + 1 /\ j \in 0 .. n /\ j - 1 \in 0 .. n
      BY <1>1
    <3>2. h[j] = g[j] /\ h[j - 1] = g[j - 1]
      BY <3>1
    <3> HIDE DEF h
    <3> QED
      BY <1>1, <1>3, <3>1, <3>2
  <2> HIDE DEF h
  <2> QED
    BY <2>1, <2>2 DEF Flattens, n
<1>5. FlattenSeq(seqs) = g[n]
  <2>1. FlattenSeq(seqs) = h[n]
    <3> HIDE DEF h
    <3> QED
      BY <1>4, FlattenChain DEF n
  <2> QED
    BY <1>1, <2>1
<1>6. FlattenSeq(all) = g[n + 1]
  BY <1>1, <1>2, FlattenChain
<1>7. g[n + 1] = g[n] \o s
  <2>1. n + 1 \in 1 .. n + 1 /\ (n + 1) - 1 = n
    BY <1>1
  <2> QED
    BY <1>1, <1>3, <2>1
<1> QED
  BY <1>5, <1>6, <1>7 DEF all
=============================================================================

---------------------------- MODULE VolumeProofs -----------------------------
(***************************************************************************)
(* Proofs about FatVolume and what is built on it, for every volume and    *)
(* every way through it.  FatNav: what a caller is given for a node leads  *)
(* back to it, and the runs of a node are the bytes read of it.  Audit:    *)
(* the walk meets what the tree leads to, and reports it once.  Cli: what  *)
(* is listed and what is reported agree.                                   *)
(***************************************************************************)
EXTENDS FatNav, Cli, FoldLemmas, FiniteSetTheorems, SequenceTheorems, TLAPS

\* How many of S lie below k.
Below(S, k) == Cardinality({ j \in S : j < k })

\* The numbers of a finite set are told apart by how many lie below them.
LEMMA BelowGrows ==
  ASSUME NEW n \in Nat, NEW S \in SUBSET (1 .. n)
  PROVE  /\ IsFiniteSet(S) /\ Cardinality(S) \in Nat
         /\ \A k \in S : Below(S, k) \in 0 .. Cardinality(S) - 1
         /\ \A i, k \in S : i < k => Below(S, i) < Below(S, k)
<1>1. IsFiniteSet(1 .. n)
  BY FS_Interval, 1 \in Int, n \in Int
<1>2. IsFiniteSet(S) /\ Cardinality(S) \in Nat
  BY <1>1, FS_Subset, FS_CardinalityType
<1>3. ASSUME NEW T \in SUBSET S, NEW U \in SUBSET T, U # T
      PROVE  Cardinality(U) \in Nat /\ Cardinality(T) \in Nat /\ Cardinality(U) < Cardinality(T)
  <2>1. IsFiniteSet(T) /\ Cardinality(T) \in Nat
    BY <1>2, FS_Subset, FS_CardinalityType
  <2>2. IsFiniteSet(U) /\ Cardinality(U) <= Cardinality(T) /\ Cardinality(U) # Cardinality(T)
    BY <1>3, <2>1, FS_Subset
  <2>3. Cardinality(U) \in Nat
    BY <2>2, FS_CardinalityType
  <2> QED
    BY <2>1, <2>2, <2>3
<1>4. ASSUME NEW k \in S
      PROVE  Below(S, k) \in 0 .. Cardinality(S) - 1
  <2> DEFINE U == { j \in S : j < k }
  <2>1. U \in SUBSET S /\ U # S
    OBVIOUS
  <2>2. Cardinality(U) \in Nat /\ Cardinality(U) < Cardinality(S)
    BY <1>3, <2>1
  <2> QED
    BY <1>2, <2>2 DEF Below
<1>5. ASSUME NEW i \in S, NEW k \in S, i < k
      PROVE  Below(S, i) < Below(S, k)
  <2> DEFINE U == { j \in S : j < i }
             T == { j \in S : j < k }
  <2>3. \A j \in S : j < i => j < k
    BY <1>5
  <2>4. T \in SUBSET S /\ U \in SUBSET T
    BY <2>3
  <2>5. i \in T /\ i \notin U
    BY <1>5
  <2>1. T \in SUBSET S /\ U \in SUBSET T /\ i \in T /\ i \notin U
    BY <2>4, <2>5
  <2>2. U # T
    BY <2>1
  <2>6. Cardinality(U) < Cardinality(T)
    BY <1>3, <2>1, <2>2
  <2> QED
    BY <2>6 DEF Below
<1> QED
  BY <1>2, <1>4, <1>5

\* Every count is taken.
LEMMA BelowTaken ==
  ASSUME NEW n \in Nat, NEW S \in SUBSET (1 .. n), NEW m \in 1 .. Cardinality(S)
  PROVE  \E k \in S : Below(S, k) = m - 1
<1> DEFINE c == Cardinality(S)
<1>1. /\ IsFiniteSet(S) /\ c \in Nat
      /\ \A k \in S : Below(S, k) \in 0 .. c - 1
      /\ \A i, k \in S : i < k => Below(S, i) < Below(S, k)
  BY BelowGrows
<1> SUFFICES ASSUME \A k \in S : Below(S, k) # m - 1
             PROVE  FALSE
  OBVIOUS
<1> HIDE DEF c
<1>2. m \in 1 .. c
  BY DEF c
<1> DEFINE Places == (0 .. c - 1) \ {m - 1}
           f == [k \in S |-> Below(S, k)]
<1>3. IsFiniteSet(Places) /\ Cardinality(Places) = c - 1
  <2>1. IsFiniteSet(0 .. c - 1) /\ Cardinality(0 .. c - 1) = c
    <3> DEFINE l == c - 1
    <3>1. 0 \in Int /\ l \in Int /\ ~(0 > l) /\ l - 0 + 1 = c
      BY <1>1, <1>2
    <3> HIDE DEF l
    <3>2. \A a, b \in Int : /\ IsFiniteSet(a .. b)
                            /\ Cardinality(a .. b) = IF a > b THEN 0 ELSE b - a + 1
      BY FS_Interval
    <3> QED
      BY <3>1, <3>2, Zenon DEF l
  <2>2. m - 1 \in 0 .. c - 1
    BY <1>1, <1>2
  <2> DEFINE T == 0 .. c - 1
  <2>3. IsFiniteSet(T) /\ Cardinality(T) = c /\ m - 1 \in T
    BY <2>1, <2>2
  <2> HIDE DEF T
  <2>4. IsFiniteSet(T \ {m - 1}) /\ Cardinality(T \ {m - 1}) = Cardinality(T) - 1
    BY <2>3, FS_RemoveElement
  <2> QED
    BY <2>3, <2>4 DEF T
<1>4. f \in [S -> Places]
  BY <1>1
<1>5. Cardinality(Places) < Cardinality(S)
  BY <1>1, <1>3 DEF c
<1>6. IsFiniteSet(S)
  BY <1>1
<1>7. \E i, j \in S : i # j /\ f[i] = f[j]
  <2> HIDE DEF f, Places
  <2> QED
    BY <1>3, <1>4, <1>5, <1>6, FS_PigeonHole, ZenonT(30)
<1>8. PICK i \in S, j \in S : i # j /\ f[i] = f[j]
  BY <1>7
<1>9. i \in Nat /\ j \in Nat
  OBVIOUS
<1>10. i < j \/ j < i
  BY <1>8, <1>9
<1>11. Below(S, i) \in Nat /\ Below(S, j) \in Nat /\ Below(S, i) = Below(S, j)
  BY <1>1, <1>8
<1> QED
  BY <1>1, <1>10, <1>11

\* Ascending lists a finite set, in order and without repetition.
LEMMA AscendingLists ==
  ASSUME NEW n \in Nat, NEW S \in SUBSET (1 .. n)
  PROVE  /\ Ascending(S) \in Seq(S)
         /\ \A k \in S : \E i \in 1 .. Len(Ascending(S)) : Ascending(S)[i] = k
         /\ \A i, j \in 1 .. Len(Ascending(S)) :
              i < j => Ascending(S)[i] < Ascending(S)[j]
<1> DEFINE c == Cardinality(S)
           A == Ascending(S)
<1>1. /\ c \in Nat
      /\ \A k \in S : Below(S, k) \in 0 .. c - 1
      /\ \A i, k \in S : i < k => Below(S, i) < Below(S, k)
  BY BelowGrows
<1>2. \A m \in 1 .. c : \E k \in S : Below(S, k) = m - 1
  BY BelowTaken
<1>3. A = [m \in 1 .. c |-> CHOOSE k \in S : Below(S, k) = m - 1]
  BY DEF Ascending, Below
<1>4. \A m \in 1 .. c : A[m] \in S /\ Below(S, A[m]) = m - 1
  <2> HIDE DEF c, A
  <2> QED
    BY <1>2, <1>3
<1>5. DOMAIN A = 1 .. c /\ A = [m \in 1 .. c |-> A[m]]
  BY <1>3
<1> HIDE DEF c, A
<1>6. A \in Seq(S) /\ Len(A) = c
  BY <1>1, <1>4, <1>5
<1>7. \A k \in S : k \in Nat
  OBVIOUS
<1>8. ASSUME NEW k \in S
      PROVE  \E i \in 1 .. c : A[i] = k
  <2> DEFINE i == Below(S, k) + 1
  <2>1. i \in 1 .. c
    BY <1>1
  <2>2. PICK a \in S : a = A[i] /\ Below(S, a) = i - 1
    BY <1>4, <2>1
  <2>3. Below(S, a) = Below(S, k) /\ Below(S, k) \in Nat
    BY <1>1, <2>2
  <2>4. A[i] = k
    BY <1>1, <1>7, <2>2, <2>3
  <2> QED
    BY <2>1, <2>4
<1>9. ASSUME NEW i \in 1 .. c, NEW j \in 1 .. c, i < j
      PROVE  A[i] < A[j]
  <2>1. PICK a \in S : a = A[i] /\ Below(S, a) = i - 1
    BY <1>4
  <2>2. PICK b \in S : b = A[j] /\ Below(S, b) = j - 1
    BY <1>4
  <2>3. Below(S, a) < Below(S, b)
    BY <1>9, <2>1, <2>2
  <2>4. a \in Nat /\ b \in Nat /\ ~(b < a) /\ a # b
    BY <1>1, <1>7, <2>3
  <2> QED
    BY <2>1, <2>2, <2>4
<1> QED
  BY <1>6, <1>8, <1>9 DEF A

-----------------------------------------------------------------------------
\* What a volume is made of.
LEMMA VolumeFields ==
  ASSUME NEW v \in Volume
  PROVE  /\ v.variant \in {"Fat12", "Fat16", "Fat32", "ExFat"}
         /\ v.root_cluster \in 0 .. FIXED_ROOT
         /\ v.root_dir_start \in Nat /\ v.root_dir_bytes \in Nat
         /\ v.max_clusters \in Nat
         /\ v.link \in [Heap -> Nat]
         /\ v.image \in [0 .. ImageLen - 1 -> Slot]
         /\ root_is_clustered(v) => v.root_dir_bytes = 0
  BY DEF Volume, root_is_clustered

\* The marker is a number like those of clusters.
LEMMA MarkerIsNat ==
  /\ FIXED_ROOT \in Nat /\ FIXED_ROOT >= 2 /\ FIXED_ROOT \in Cluster
  /\ \A c \in Cluster : c \in Nat /\ c >= 2
  /\ Heap \subseteq Cluster /\ FIXED_ROOT \notin Heap
  BY MarkerAssumption DEF Cluster

\* Where the walk is after each turn: the recursive function of follow_chain.
WalkStep(v, start) ==
  [p \in Nat \X (1 .. v.max_clusters) |->
     IF p[2] = 1 THEN start ELSE IF p[1] \in Heap THEN v.link[p[1]] ELSE 0]

IsWalkOf(at, v, start) ==
  at = [n \in 1 .. v.max_clusters |->
          IF n = 1 THEN start
          ELSE IF at[n - 1] \in Heap THEN v.link[at[n - 1]] ELSE 0]

\* The walk along the links exists, with one value for each step.
LEMMA WalkExists ==
  ASSUME NEW v \in Volume, NEW start \in Nat
  PROVE  \E at : IsWalkOf(at, v, start) /\ at \in [1 .. v.max_clusters -> Nat]
<1> DEFINE max == v.max_clusters
           F == WalkStep(v, start)
<1>1. max \in Nat /\ v.link \in [Heap -> Nat] /\ Heap \subseteq Nat
  BY VolumeFields, MarkerIsNat
<1>2. F \in [Nat \X (1 .. max) -> Nat]
  BY <1>1 DEF WalkStep
<1>3. PICK g : IsChain(g, max, Nat, start, F)
  <2> HIDE DEF max, F
  <2> QED
    BY <1>1, <1>2, ChainExists
<1> DEFINE at == [n \in 1 .. max |-> g[n]]
<1>4. g \in [0 .. max -> Nat] /\ \A n \in 1 .. max : g[n] = F[<<g[n - 1], n>>]
  BY <1>3 DEF IsChain
<1>5. ASSUME NEW n \in 1 .. max
      PROVE  at[n] = IF n = 1 THEN start
                     ELSE IF at[n - 1] \in Heap THEN v.link[at[n - 1]] ELSE 0
  <2>1. n - 1 \in 0 .. max /\ g[n - 1] \in Nat /\ g[n] = F[<<g[n - 1], n>>]
    BY <1>1, <1>4
  <2>2. g[n] = IF n = 1 THEN start
               ELSE IF g[n - 1] \in Heap THEN v.link[g[n - 1]] ELSE 0
    BY <2>1 DEF WalkStep
  <2>3. n = 1 \/ n - 1 \in 1 .. max
    BY <1>1
  <2> QED
    BY <2>2, <2>3
<1>6. at \in [1 .. max -> Nat]
  BY <1>1, <1>4
<1>7. IsWalkOf(at, v, start)
  <2>1. at = [n \in 1 .. max |-> at[n]]
    OBVIOUS
  <2> HIDE DEF at
  <2> QED
    BY <1>5, <2>1 DEF IsWalkOf
<1> QED
  BY <1>6, <1>7

\* follow_chain lists clusters, from the one it is given; one that the FAT has
\* no entry for is the last.
LEMMA FollowChainLists ==
  ASSUME NEW v \in Volume, NEW start \in Nat
  PROVE  /\ follow_chain(v, start) \in Seq(Cluster)
         /\ Len(follow_chain(v, start)) > 0 => follow_chain(v, start)[1] = start
         /\ start \notin Heap => Len(follow_chain(v, start)) <= 1
<1> DEFINE max == v.max_clusters
           at == CHOOSE f : IsWalkOf(f, v, start)
           D == { m \in 1 .. max : at[m] \in Cluster }
           C == [n \in D |-> at[n]]
<1>1. max \in Nat /\ v.link \in [Heap -> Nat] /\ Heap \subseteq Cluster /\ 0 \notin Cluster
  BY VolumeFields, MarkerIsNat DEF Cluster
<1>2. follow_chain(v, start) = C
  BY DEF follow_chain, IsWalkOf
<1>3. IsWalkOf(at, v, start)
  BY WalkExists
<1> HIDE DEF max, at
<1>4. \A n \in 1 .. max :
        at[n] = IF n = 1 THEN start
                ELSE IF at[n - 1] \in Heap THEN v.link[at[n - 1]] ELSE 0
  BY <1>3 DEF IsWalkOf, max
<1>5. ASSUME NEW m \in D, m > 1
      PROVE  m - 1 \in D /\ at[m - 1] \in Heap
  <2>1. at[m - 1] \in Heap /\ m - 1 \in 1 .. max
    BY <1>1, <1>4, <1>5
  <2> QED
    BY <1>1, <2>1
<1>6. PICK l \in Nat : D = 1 .. l
  <2> DEFINE Out == { m \in Nat : m + 1 \notin D }
  <2>1. max + 1 \notin D /\ D \subseteq 1 .. max
    BY <1>1
  <2>2. max \in Out
    BY <1>1, <2>1
  <2>3. PICK l \in Out : \A m \in Out : l <= m
    <3> HIDE DEF D
    <3> QED
      BY <2>2, Least
  <2>4. \A m \in 1 .. l : m \in D
    <3>1. ASSUME NEW m \in 1 .. l
          PROVE  m \in D
      <4>1. m - 1 \in Nat /\ m - 1 < l /\ (m - 1) + 1 = m
        BY <2>3
      <4> HIDE DEF D
      <4>2. m - 1 \notin Out
        BY <2>3, <4>1
      <4> QED
        BY <4>1, <4>2
    <3> QED
      BY <3>1
  <2> DEFINE Low == { m \in Nat : \A k \in D : k > l => k - l > m }
  <2>5. Nat \subseteq Low
    <3>1. 0 \in Low
      <4> HIDE DEF D
      <4> QED
        BY <2>1
    <3>2. ASSUME NEW m \in Nat, m \in Low
          PROVE  m + 1 \in Low
      <4>1. ASSUME NEW k \in D, k > l
            PROVE  k - l > m + 1
        <5>1. k \in Nat /\ k - l > m /\ l \in Nat
          BY <3>2, <4>1
        <5>2. k # l + 1
          BY <2>3
        <5>3. k > 1 /\ k - 1 > l
          BY <5>1, <5>2
        <5>4. k - 1 \in D
          BY <1>5, <5>3
        <5>5. (k - 1) - l > m
          BY <3>2, <5>3, <5>4
        <5> QED
          BY <5>1, <5>5
      <4> QED
        BY <4>1
    <3> HIDE DEF Low
    <3> QED
      BY <3>1, <3>2, NatInduct
  <2>6. \A k \in D : k <= l
    <3>1. ASSUME NEW k \in D, k > l
          PROVE  FALSE
      <4>1. k \in Nat /\ l \in Nat /\ k - l \in Nat
        BY <3>1
      <4>2. k - l \in Low
        BY <2>5, <4>1
      <4> QED
        BY <3>1, <4>1, <4>2
    <3> QED
      BY <3>1
  <2>7. D = 1 .. l
    <3>1. l \in Nat
      BY <2>3
    <3>2. \A k \in D : k \in Nat /\ k >= 1
      BY <2>1
    <3>3. D \subseteq 1 .. l
      <4> HIDE DEF D
      <4> QED
        BY <2>6, <3>1, <3>2
    <3> HIDE DEF D
    <3> QED
      BY <2>4, <3>3
  <2> QED
    BY <2>3, <2>7
<1>7. C \in Seq(Cluster) /\ Len(C) = l
  <2>1. \A n \in 1 .. l : at[n] \in Cluster
    BY <1>6
  <2>2. C = [n \in 1 .. l |-> at[n]]
    BY <1>6
  <2> HIDE DEF C
  <2> QED
    BY <2>1, <2>2
<1>8. l > 0 => C[1] = start
  <2>1. ASSUME l > 0
        PROVE  C[1] = start
    <3>1. 1 \in D
      BY <1>6, <2>1
    <3> QED
      BY <1>4, <3>1
  <2> QED
    BY <2>1
<1>9. start \notin Heap => l <= 1
  <2>1. ASSUME start \notin Heap, l > 1
        PROVE  FALSE
    <3>1. 2 \in D /\ 1 \in D
      BY <1>6, <2>1
    <3>2. at[1] \in Heap
      BY <1>5, <3>1
    <3>3. at[1] = start
      BY <1>4, <3>1
    <3> QED
      BY <2>1, <3>2, <3>3
  <2> QED
    BY <2>1
<1> QED
  BY <1>2, <1>7, <1>8, <1>9

\* The clusters of an extent are clusters; those of the marker are no others.
LEMMA ClustersLists ==
  ASSUME NEW v \in Volume, NEW first \in 0 .. FIXED_ROOT, NEW size \in Nat,
         NEW contiguous \in BOOLEAN
  PROVE  /\ clusters(v, first, size, contiguous) \in Seq(Cluster)
         /\ first < 2 => clusters(v, first, size, contiguous) = <<>>
         /\ first = FIXED_ROOT =>
              \A k \in 1 .. Len(clusters(v, first, size, contiguous)) :
                clusters(v, first, size, contiguous)[k] = FIXED_ROOT
<1> DEFINE C == clusters(v, first, size, contiguous)
<1>1. /\ first \in Nat /\ FIXED_ROOT \in Nat /\ FIXED_ROOT >= 2 /\ first <= FIXED_ROOT
      /\ FIXED_ROOT \notin Heap /\ v.max_clusters \in Nat
  BY MarkerIsNat, VolumeFields
<1>2. CASE first < 2
  <2>1. C = <<>>
    BY <1>2 DEF clusters
  <2>2. C \in Seq(Cluster)
    BY <2>1
  <2> QED
    BY <1>1, <1>2, <2>1, <2>2
<1>3. CASE ~(first < 2) /\ contiguous /\ size > 0
  <2> DEFINE l == LesserOf(LesserOf(ClustersFor(size), v.max_clusters), FIXED_ROOT + 1 - first)
  <2>1. ClustersFor(size) \in Nat
    <3>1. size + ClusterSize - 1 \in Nat /\ ClusterSize \in Nat /\ ClusterSize > 0
      BY ReadAssumption
    <3> QED
      BY <3>1 DEF ClustersFor
  <2>2. l \in Nat /\ (first = FIXED_ROOT => l <= 1)
    BY <1>1, <2>1 DEF LesserOf
  <2>3. C = [k \in 1 .. l |-> first + k - 1]
    BY <1>3 DEF clusters
  <2> HIDE DEF l, C
  <2>4. \A k \in 1 .. l : first + k - 1 \in Cluster
    BY <1>1, <1>3, <2>2 DEF Cluster
  <2>5. C \in Seq(Cluster) /\ Len(C) = l
    BY <2>2, <2>3, <2>4
  <2>6. first = FIXED_ROOT => \A k \in 1 .. l : C[k] = FIXED_ROOT
    BY <1>1, <2>2, <2>3
  <2> QED
    BY <1>3, <2>5, <2>6 DEF C
<1>4. CASE ~(first < 2) /\ ~(contiguous /\ size > 0)
  <2>1. C = follow_chain(v, first)
    BY <1>4 DEF clusters
  <2> HIDE DEF C
  <2>2. /\ C \in Seq(Cluster)
        /\ Len(C) > 0 => C[1] = first
        /\ first \notin Heap => Len(C) <= 1
    BY <1>1, <2>1, FollowChainLists
  <2>3. first = FIXED_ROOT => \A k \in 1 .. Len(C) : C[k] = FIXED_ROOT
    <3>1. Len(C) \in Nat
      BY <2>2
    <3> QED
      BY <1>1, <2>2, <3>1
  <2> QED
    BY <1>4, <2>2, <2>3 DEF C
<1> QED
  BY <1>2, <1>3, <1>4

-----------------------------------------------------------------------------
ImageBytes == 0 .. ImageLen - 1

\* A slice lies in the image; none of a cluster from the marker on does.
LEMMA SliceInImage ==
  ASSUME NEW o \in Nat, NEW n \in Nat
  PROVE  /\ Slice(o, n) \in Seq(ImageBytes)
         /\ o >= ImageLen \/ n = 0 => Slice(o, n) = <<>>
<1> DEFINE l == LesserOf(n, IF ImageLen > o THEN ImageLen - o ELSE 0)
<1>1. l \in Nat /\ (l > 0 => o + l <= ImageLen) /\ (o >= ImageLen \/ n = 0 => l = 0)
  BY ReadAssumption DEF LesserOf
<1>2. Slice(o, n) = [k \in 1 .. l |-> o + k - 1]
  BY DEF Slice
<1> HIDE DEF l
<1>3. \A k \in 1 .. l : o + k - 1 \in ImageBytes
  BY <1>1, ReadAssumption DEF ImageBytes
<1>4. Slice(o, n) \in Seq(ImageBytes)
  BY <1>1, <1>2, <1>3
<1>5. l = 0 => Slice(o, n) = <<>>
  BY <1>2
<1> QED
  BY <1>1, <1>4, <1>5

\* Clusters lie at offsets of the image.
LEMMA OffsetIsNat ==
  ASSUME NEW c \in Cluster
  PROVE  cluster_offset(c) \in Nat
<1>1. \A a, b \in Nat : a * b \in Nat
  OBVIOUS
<1>2. c - 2 \in Nat /\ ClusterSize \in Nat /\ DataStart \in Nat
  BY ReadAssumption DEF Cluster
<1>3. (c - 2) * ClusterSize \in Nat
  BY <1>1, <1>2
<1> QED
  BY <1>2, <1>3 DEF cluster_offset

\* What the loop over a directory's clusters keeps to, its result keeps to.
LEMMA DirResultIn ==
  ASSUME NEW chain \in Seq(Cluster), NEW V, <<>> \in V,
         \A s \in V : \A k \in 1 .. Len(chain) :
           s \o Slice(cluster_offset(chain[k]), ClusterSize) \in V
  PROVE  ReadDirResult([chain |-> chain]) \in V
<1> DEFINE n == Len(chain)
           More(s, c) == IF Len(s) >= MaxDirBytes THEN s
                         ELSE s \o Slice(cluster_offset(c), ClusterSize)
           F == [p \in V \X (1 .. n) |-> More(p[1], chain[p[2]])]
           Iter(f) == f = [T \in SUBSET (1 .. n) |->
                             IF T = {} THEN <<>>
                             ELSE More(f[T \ {Max(T)}], chain[Max(T)])]
           iter == CHOOSE f : Iter(f)
<1>1. n \in Nat /\ DOMAIN chain = 1 .. n
  OBVIOUS
<1>2. ReadDirResult([chain |-> chain]) = iter[1 .. n]
  BY <1>1 DEF ReadDirResult, FoldLeft, MapThenFoldSet
<1>3. F \in [V \X (1 .. n) -> V]
  OBVIOUS
<1>4. \A s \in V : \A k \in 1 .. n : F[<<s, k>>] = More(s, chain[k])
  OBVIOUS
<1> HIDE DEF F, More, n
<1>5. PICK h : FoldsUpTo(h, n, V, <<>>, F)
  BY <1>1, <1>3, FoldExists
<1>6. PICK g : IsChain(g, n, V, <<>>, F)
  BY <1>1, <1>3, ChainExists
<1>7. \A T \in SUBSET (1 .. n) : T # {} => Max(T) \in 1 .. n
  BY <1>1, MaxIsGreatest
<1>8. Iter(h)
  <2>1. ASSUME NEW T \in SUBSET (1 .. n)
        PROVE  h[T] = IF T = {} THEN <<>>
                      ELSE More(h[T \ {Max(T)}], chain[Max(T)])
    <3>1. CASE T = {}
      BY <1>5, <3>1 DEF FoldsUpTo
    <3>2. CASE T # {}
      <4>1. T \ {Max(T)} \in SUBSET (1 .. n)
        OBVIOUS
      <4>2. h[T \ {Max(T)}] \in V
        BY <1>5, <4>1 DEF FoldsUpTo
      <4>3. h[T] = F[<<h[T \ {Max(T)}], Max(T)>>]
        BY <1>5, <3>2 DEF FoldsUpTo
      <4> QED
        BY <1>4, <1>7, <3>2, <4>2, <4>3
    <3> QED
      BY <3>1, <3>2
  <2>2. h = [T \in SUBSET (1 .. n) |-> h[T]]
    BY <1>5 DEF FoldsUpTo
  <2> QED
    BY <2>1, <2>2
<1>9. Iter(iter)
  <2> HIDE DEF Iter
  <2> QED
    BY <1>8
<1>10. \A T \in SUBSET (1 .. n) :
         iter[T] = IF T = {} THEN <<>>
                   ELSE More(iter[T \ {Max(T)}], chain[Max(T)])
  <2> HIDE DEF iter
  <2> QED
    BY <1>9
<1> HIDE DEF iter, Iter
<1>11. iter[{}] = <<>>
  BY <1>10
<1>12. FollowsFold(iter, n, V, <<>>, F)
  BY <1>4, <1>7, <1>10, <1>11 DEF FollowsFold
<1>13. \A j \in 0 .. n : iter[1 .. j] = g[j]
  BY <1>1, <1>6, <1>12, FoldFollows
<1>14. n \in 0 .. n /\ g[n] \in V
  BY <1>1, <1>6 DEF IsChain
<1> QED
  BY <1>2, <1>13, <1>14

\* Directories are slots; clusters below 2, the marker's and, where the root
\* lies in the heap, the root region hold none.
LEMMA DirOffsets ==
  ASSUME NEW chain \in Seq(Cluster)
  PROVE  /\ ReadDirResult([chain |-> chain]) \in Seq(ImageBytes)
         /\ (\A k \in 1 .. Len(chain) : chain[k] = FIXED_ROOT)
              => ReadDirResult([chain |-> chain]) = <<>>
<1> DEFINE piece(k) == Slice(cluster_offset(chain[k]), ClusterSize)
<1>1. \A k \in 1 .. Len(chain) : chain[k] \in Cluster
  OBVIOUS
<1>2. \A k \in 1 .. Len(chain) : cluster_offset(chain[k]) \in Nat
  BY <1>1, OffsetIsNat
<1>3. ClusterSize \in Nat
  BY ReadAssumption
<1>4. \A k \in 1 .. Len(chain) : piece(k) \in Seq(ImageBytes)
  BY <1>2, <1>3, SliceInImage
<1>5. ReadDirResult([chain |-> chain]) \in Seq(ImageBytes)
  <2> DEFINE V == Seq(ImageBytes)
  <2>1. <<>> \in V
    OBVIOUS
  <2>2. \A s \in V : \A k \in 1 .. Len(chain) : s \o piece(k) \in V
    <3> HIDE DEF piece
    <3> QED
      BY <1>4
  <2> HIDE DEF V
  <2>3. ReadDirResult([chain |-> chain]) \in V
    BY <2>1, <2>2, DirResultIn
  <2> QED
    BY <2>3 DEF V
<1>6. ASSUME \A k \in 1 .. Len(chain) : chain[k] = FIXED_ROOT
      PROVE  ReadDirResult([chain |-> chain]) = <<>>
  <2> DEFINE V == {<<>>}
  <2>1. <<>> \in V
    OBVIOUS
  <2>2. \A k \in 1 .. Len(chain) : piece(k) = <<>>
    <3>1. cluster_offset(FIXED_ROOT) >= ImageLen
      BY MarkerAssumption
    <3> QED
      BY <1>2, <1>3, <1>6, <3>1, SliceInImage
  <2>3. \A s \in V : \A k \in 1 .. Len(chain) : s \o piece(k) \in V
    <3>1. <<>> \o <<>> = <<>>
      OBVIOUS
    <3> HIDE DEF piece
    <3> QED
      BY <2>2, <3>1
  <2> HIDE DEF V
  <2>4. ReadDirResult([chain |-> chain]) \in V
    BY <2>1, <2>3, DirResultIn
  <2> QED
    BY <2>4 DEF V
<1> QED
  BY <1>5, <1>6

\* What read_dir_bytes reads of a directory are slots.
LEMMA SlotsRead ==
  ASSUME NEW v \in Volume
  PROVE  /\ read_dir_bytes(v, FixedRoot) \in Seq(Slot)
         /\ root_is_clustered(v) => read_dir_bytes(v, FixedRoot) = <<>>
         /\ \A first \in 0 .. FIXED_ROOT, size \in Nat, contiguous \in BOOLEAN :
              LET slots == read_dir_bytes(v, Chain(first, size, contiguous))
              IN  /\ slots \in Seq(Slot)
                  /\ first < 2 \/ first = FIXED_ROOT => slots = <<>>
<1> DEFINE at(os) == [k \in 1 .. Len(os) |-> v.image[os[k]]]
<1>1. ASSUME NEW os \in Seq(ImageBytes)
      PROVE  at(os) \in Seq(Slot) /\ (os = <<>> => at(os) = <<>>)
  <2>2. Len(os) \in Nat /\ \A k \in 1 .. Len(os) : os[k] \in ImageBytes
    OBVIOUS
  <2>1. \A k \in 1 .. Len(os) : v.image[os[k]] \in Slot
    <3>1. v.image \in [ImageBytes -> Slot]
      BY VolumeFields DEF ImageBytes
    <3> QED
      BY <2>2, <3>1
  <2>3. at(os) \in Seq(Slot)
    BY <2>1, <2>2
  <2> QED
    BY <2>3
<1>2. /\ read_dir_bytes(v, FixedRoot) \in Seq(Slot)
      /\ root_is_clustered(v) => read_dir_bytes(v, FixedRoot) = <<>>
  <2> DEFINE os == Slice(v.root_dir_start, v.root_dir_bytes)
  <2>1. os \in Seq(ImageBytes) /\ (root_is_clustered(v) => os = <<>>)
    BY VolumeFields, SliceInImage
  <2>2. read_dir_bytes(v, FixedRoot) = at(os)
    BY DEF read_dir_bytes, FixedRoot
  <2> HIDE DEF at, os
  <2> QED
    BY <1>1, <2>1, <2>2
<1>3. ASSUME NEW first \in 0 .. FIXED_ROOT, NEW size \in Nat, NEW contiguous \in BOOLEAN
      PROVE  /\ read_dir_bytes(v, Chain(first, size, contiguous)) \in Seq(Slot)
             /\ first < 2 \/ first = FIXED_ROOT =>
                  read_dir_bytes(v, Chain(first, size, contiguous)) = <<>>
  <2> DEFINE C == clusters(v, first, size, contiguous)
             os == ReadDirResult([chain |-> C])
  <2>1. /\ C \in Seq(Cluster)
        /\ first < 2 => C = <<>>
        /\ first = FIXED_ROOT => \A k \in 1 .. Len(C) : C[k] = FIXED_ROOT
    BY ClustersLists
  <2>2. read_dir_bytes(v, Chain(first, size, contiguous)) = at(os)
    BY DEF read_dir_bytes, Chain
  <2> HIDE DEF at, C
  <2>3. os \in Seq(ImageBytes)
    BY <2>1, DirOffsets
  <2>4. first < 2 \/ first = FIXED_ROOT => os = <<>>
    <3>1. first < 2 => \A k \in 1 .. Len(C) : C[k] = FIXED_ROOT
      BY <2>1
    <3> QED
      BY <2>1, <3>1, DirOffsets
  <2> HIDE DEF os
  <2> QED
    BY <1>1, <2>2, <2>3, <2>4
<1> QED
  BY <1>2, <1>3

-----------------------------------------------------------------------------
\* What list_nodes makes of the slots of a directory: nodes of entries under the
\* marker, with an index of their own below the one where indices saturate.
IsListing(nodes, v, marker) ==
  /\ nodes \in Seq(Node)
  /\ \A k \in 1 .. Len(nodes) :
       /\ nodes[k].id = Entry(marker, nodes[k].id.index)
       /\ nodes[k].id.index \in 0 .. MaxIndex
       /\ v.variant # "ExFat" => ~nodes[k].contiguous
       /\ v.variant = "ExFat" => ~nodes[k].is_volume_label
  /\ \A i, k \in 1 .. Len(nodes) :
       /\ nodes[i].id.index = nodes[k].id.index
       /\ nodes[k].id.index < MaxIndex
       => i = k

\* What is built at a slot is a node, with the id of that slot.
LEMMA NodeAtIsNode ==
  ASSUME NEW v \in Volume, NEW slots \in Seq(Slot), NEW marker \in 0 .. FIXED_ROOT,
         NEW k \in 1 .. Len(slots)
  PROVE  /\ node_at(v, slots, k, marker) \in Node
         /\ node_at(v, slots, k, marker).id = Entry(marker, LesserOf(k - 1, MaxIndex))
         /\ LesserOf(k - 1, MaxIndex) \in 0 .. MaxIndex
         /\ v.variant # "ExFat" => ~node_at(v, slots, k, marker).contiguous
         /\ v.variant = "ExFat" => ~node_at(v, slots, k, marker).is_volume_label
<1> DEFINE nd == node_at(v, slots, k, marker)
<1>1. slots[k] \in Slot /\ k \in Nat /\ k >= 1
  OBVIOUS
<1>2. LesserOf(k - 1, MaxIndex) \in 0 .. MaxIndex
  BY <1>1, MarkerAssumption DEF LesserOf
<1>3. nd.id = Entry(marker, LesserOf(k - 1, MaxIndex))
  BY DEF node_at, SlotIndex
<1>4. Entry(marker, LesserOf(k - 1, MaxIndex))
        \in [dir_cluster : 0 .. FIXED_ROOT, index : 0 .. MaxIndex]
  BY <1>2 DEF Entry
<1>5. 0 \in 0 .. FIXED_ROOT
  BY MarkerIsNat
<1>6. nd \in Node
  <2> DEFINE s == slots[k]
  <2>1. /\ s.name \in Names /\ s.is_dir \in BOOLEAN /\ s.deleted \in BOOLEAN
        /\ s.is_volume_label \in BOOLEAN /\ s.first_cluster \in 0 .. FIXED_ROOT
        /\ s.size \in Nat /\ s.contiguous \in BOOLEAN
    BY <1>1 DEF Slot
  <2> HIDE DEF s
  <2>2. PICK name, label, size, first, flag :
          /\ nd = [id |-> nd.id, name |-> name, is_dir |-> s.is_dir,
                   is_deleted |-> s.deleted, is_volume_label |-> label,
                   size |-> size, first_cluster |-> first, contiguous |-> flag]
          /\ name = s.name \/ name = NoName
          /\ label = s.is_volume_label \/ label = FALSE
          /\ size = s.size \/ size = 0
          /\ first = s.first_cluster \/ first = 0
          /\ flag = s.contiguous \/ flag = FALSE
    <3> DEFINE x == v.variant = "ExFat"
               e == x => s.span >= 1 /\ k + 1 <= Len(slots)
               f == x => s.span >= 2 /\ k + s.span <= Len(slots)
    <3>1. nd = [id |-> nd.id, name |-> IF f THEN s.name ELSE NoName,
                is_dir |-> s.is_dir, is_deleted |-> s.deleted,
                is_volume_label |-> ~x /\ s.is_volume_label,
                size |-> IF e THEN s.size ELSE 0,
                first_cluster |-> IF e THEN s.first_cluster ELSE 0,
                contiguous |-> x /\ e /\ s.contiguous]
      BY DEF node_at, s
    <3> DEFINE name == IF f THEN s.name ELSE NoName
               label == ~x /\ s.is_volume_label
               size == IF e THEN s.size ELSE 0
               first == IF e THEN s.first_cluster ELSE 0
               flag == x /\ e /\ s.contiguous
    <3>2. nd = [id |-> nd.id, name |-> name, is_dir |-> s.is_dir,
                is_deleted |-> s.deleted, is_volume_label |-> label,
                size |-> size, first_cluster |-> first, contiguous |-> flag]
      BY <3>1
    <3> HIDE DEF nd, e, f, x
    <3>3. /\ name = s.name \/ name = NoName
          /\ size = s.size \/ size = 0
          /\ first = s.first_cluster \/ first = 0
      OBVIOUS
    <3>4. label = s.is_volume_label \/ label = FALSE
      BY <2>1
    <3>5. flag = s.contiguous \/ flag = FALSE
      BY <2>1
    <3> HIDE DEF name, label, size, first, flag
    <3> QED
      BY <3>2, <3>3, <3>4, <3>5, Zenon
  <2> HIDE DEF nd
  <2>3. nd.id \in {Root} \cup [dir_cluster : 0 .. FIXED_ROOT, index : 0 .. MaxIndex]
    BY <1>3, <1>4
  <2>4. name \in Names \cup {NoName} /\ size \in Nat /\ first \in 0 .. FIXED_ROOT
    BY <1>5, <2>1, <2>2
  <2>5. label \in BOOLEAN /\ flag \in BOOLEAN
    BY <2>1, <2>2
  <2> QED
    BY <2>1, <2>2, <2>3, <2>4, <2>5 DEF Node, FileId, EntryId
<1>7. /\ v.variant # "ExFat" => ~nd.contiguous
      /\ v.variant = "ExFat" => ~nd.is_volume_label
  BY DEF node_at
<1> QED
  BY <1>2, <1>3, <1>6, <1>7

\* list_nodes gives a listing, and none for a directory without slots.
LEMMA NodesAreListed ==
  ASSUME NEW v \in Volume, NEW slots \in Seq(Slot), NEW marker \in 0 .. FIXED_ROOT
  PROVE  /\ IsListing(list_nodes(v, slots, marker), v, marker)
         /\ slots = <<>> => list_nodes(v, slots, marker) = <<>>
<1> DEFINE S == { k \in 1 .. Len(slots) : k \in Visited(slots) /\ slots[k].kind = "entry" }
           heads == Ascending(S)
           L == list_nodes(v, slots, marker)
<1>1. Len(slots) \in Nat /\ S \in SUBSET (1 .. Len(slots))
  OBVIOUS
<1>2. L = [m \in 1 .. Len(heads) |-> node_at(v, slots, heads[m], marker)]
  BY DEF list_nodes
<1> HIDE DEF S
<1>3. /\ heads \in Seq(S)
      /\ \A i, j \in 1 .. Len(heads) : i < j => heads[i] < heads[j]
  BY <1>1, AscendingLists
<1> HIDE DEF heads, L
<1>4. Len(heads) \in Nat /\ \A m \in 1 .. Len(heads) : heads[m] \in 1 .. Len(slots)
  <2>1. Len(heads) \in Nat /\ \A m \in 1 .. Len(heads) : heads[m] \in S
    BY <1>3
  <2>2. \A k \in S : k \in 1 .. Len(slots)
    BY <1>1
  <2> QED
    BY <2>1, <2>2
<1>5. ASSUME NEW m \in 1 .. Len(heads)
      PROVE  /\ L[m] \in Node
             /\ L[m].id = Entry(marker, LesserOf(heads[m] - 1, MaxIndex))
             /\ LesserOf(heads[m] - 1, MaxIndex) \in 0 .. MaxIndex
             /\ v.variant # "ExFat" => ~L[m].contiguous
             /\ v.variant = "ExFat" => ~L[m].is_volume_label
  <2>1. L[m] = node_at(v, slots, heads[m], marker)
    BY <1>2
  <2> QED
    BY <1>4, <2>1, NodeAtIsNode
<1>6. L \in Seq(Node) /\ Len(L) = Len(heads)
  <2>1. L = [m \in 1 .. Len(heads) |-> L[m]]
    BY <1>2
  <2> QED
    BY <1>4, <1>5, <2>1
<1>7. \A m \in 1 .. Len(heads) : L[m].id.index = LesserOf(heads[m] - 1, MaxIndex)
  <2>1. \A i : Entry(marker, i).index = i
    BY DEF Entry
  <2> QED
    BY <1>5, <2>1
<1>8. ASSUME NEW i \in 1 .. Len(heads), NEW k \in 1 .. Len(heads),
             L[i].id.index = L[k].id.index, L[k].id.index < MaxIndex
      PROVE  i = k
  <2>1. heads[i] \in Nat /\ heads[k] \in Nat /\ MaxIndex \in Nat
    BY <1>4, MarkerAssumption
  <2>2. LesserOf(heads[i] - 1, MaxIndex) = LesserOf(heads[k] - 1, MaxIndex)
        /\ LesserOf(heads[k] - 1, MaxIndex) < MaxIndex
    BY <1>7, <1>8
  <2>3. heads[i] = heads[k]
    BY <2>1, <2>2 DEF LesserOf
  <2>4. ~(i < k) /\ ~(k < i)
    BY <1>3, <2>1, <2>3
  <2> QED
    BY <1>4, <2>4
<1>9. IsListing(L, v, marker)
  <2>1. \A k \in 1 .. Len(L) : L[k].id = Entry(marker, L[k].id.index)
    BY <1>5, <1>6, <1>7
  <2>2. \A k \in 1 .. Len(L) : L[k].id.index \in 0 .. MaxIndex
    BY <1>5, <1>6, <1>7
  <2> QED
    BY <1>5, <1>6, <1>8, <2>1, <2>2 DEF IsListing
<1>10. slots = <<>> => L = <<>>
  <2>1. ASSUME slots = <<>>
        PROVE  L = <<>>
    <3>1. Len(slots) = 0
      BY <2>1
    <3>2. Len(heads) = 0
      BY <1>4, <3>1
    <3> QED
      BY <1>6, <3>2
  <2> QED
    BY <2>1
<1> QED
  BY <1>9, <1>10 DEF L

-----------------------------------------------------------------------------

\* Ids are told apart, and what is there from what is not.
LEMMA Shapes ==
  /\ \A a, b : Root # Entry(a, b)
  /\ \A a, b : Entry(a, b).dir_cluster = a /\ Entry(a, b).index = b
  /\ \A id \in EntryId : /\ id = Entry(id.dir_cluster, id.index) /\ id # Root
                         /\ id.dir_cluster \in 0 .. FIXED_ROOT
                         /\ id.index \in 0 .. MaxIndex
  /\ Err \notin Node
  /\ \A nodes : Err # [nodes |-> nodes]
  /\ \A first, size, contiguous : Err # Chain(first, size, contiguous)
  /\ Err # FixedRoot
  /\ Err \notin EntryId
<1>1. \A a, b : Root # Entry(a, b)
  <2>1. "root" \in DOMAIN Root
    BY DEF Root
  <2>2. \A a, b : "root" \notin DOMAIN Entry(a, b)
    BY DEF Entry
  <2> QED
    BY <2>1, <2>2
<1>2. \A a, b : Entry(a, b).dir_cluster = a /\ Entry(a, b).index = b
  BY DEF Entry
<1>3. \A id \in EntryId : /\ id = Entry(id.dir_cluster, id.index)
                          /\ id.dir_cluster \in 0 .. FIXED_ROOT
                          /\ id.index \in 0 .. MaxIndex
  BY DEF Entry, EntryId
<1>4. "err" \in DOMAIN Err
  BY DEF Err
<1>5. \A n \in Node : "err" \notin DOMAIN n
  BY DEF Node
<1>6. \A nodes : "err" \notin DOMAIN [nodes |-> nodes]
  OBVIOUS
<1>7. \A first, size, contiguous : "err" \notin DOMAIN Chain(first, size, contiguous)
  BY DEF Chain
<1>8. "err" \notin DOMAIN FixedRoot
  BY DEF FixedRoot
<1>9. \A id \in EntryId : "err" \notin DOMAIN id
  BY DEF EntryId
<1> QED
  BY <1>1, <1>2, <1>3, <1>4, <1>5, <1>6, <1>7, <1>8, <1>9

\* The first of some places of a sequence.
LEMMA MinIsLeast ==
  ASSUME NEW n \in Nat, NEW S \in SUBSET (1 .. n), S # {}
  PROVE  Min(S) \in S /\ \A y \in S : Min(S) <= y
<1>1. S \in SUBSET Nat
  OBVIOUS
<1>2. \E x \in S : \A y \in S : x <= y
  BY <1>1, Least
<1> QED
  BY <1>2 DEF Min

\* The first of a set of places is one of them.
LEMMA FirstIsThere ==
  ASSUME NEW n \in Nat, NEW S \in SUBSET (1 .. n), NEW nodes
  PROVE  /\ S = {} => FirstOf(nodes, S) = Err
         /\ S # {} => /\ Min(S) \in S /\ \A y \in S : Min(S) <= y
                      /\ FirstOf(nodes, S) = nodes[Min(S)]
  BY MinIsLeast DEF FirstOf

\* A directory read through an id.
LEMMA UnderIsListing ==
  ASSUME NEW v \in Volume, NEW c \in 0 .. FIXED_ROOT
  PROVE  /\ IsListing(entries_under(v, c), v, c)
         /\ c < 2 => entries_under(v, c) = <<>>
<1> DEFINE source == IF c = FIXED_ROOT THEN FixedRoot ELSE Chain(c, 0, FALSE)
           slots == read_dir_bytes(v, source)
<1>1. entries_under(v, c) = list_nodes(v, slots, c)
  BY DEF entries_under
<1>2. slots \in Seq(Slot) /\ (c < 2 => slots = <<>>)
  <2>1. CASE c = FIXED_ROOT
    BY <2>1, SlotsRead, MarkerIsNat
  <2>2. CASE c # FIXED_ROOT
    <3>1. 0 \in Nat /\ FALSE \in BOOLEAN
      OBVIOUS
    <3>2. /\ read_dir_bytes(v, Chain(c, 0, FALSE)) \in Seq(Slot)
          /\ c < 2 => read_dir_bytes(v, Chain(c, 0, FALSE)) = <<>>
      BY <3>1, SlotsRead
    <3> QED
      BY <2>2, <3>2
  <2> QED
    BY <2>1, <2>2
<1> HIDE DEF slots
<1> QED
  BY <1>1, <1>2, NodesAreListed

\* What an id leads to has that id.
LEMMA ResolvedHasId ==
  ASSUME NEW v \in Volume, NEW id \in EntryId, resolve_entry(v, id) # Err
  PROVE  /\ resolve_entry(v, id) \in Node
         /\ resolve_entry(v, id).id = id
         /\ v.variant # "ExFat" => ~resolve_entry(v, id).contiguous
         /\ id.dir_cluster >= 2
<1> DEFINE c == id.dir_cluster
           nodes == entries_under(v, c)
           S == { k \in DOMAIN nodes : nodes[k].id.index = id.index }
<1>1. c \in 0 .. FIXED_ROOT /\ id = Entry(c, id.index)
  BY Shapes
<1>2. IsListing(nodes, v, c) /\ (c < 2 => nodes = <<>>)
  BY <1>1, UnderIsListing
<1>3. resolve_entry(v, id) = FirstOf(nodes, S)
  BY DEF resolve_entry
<1> HIDE DEF nodes
<1>4. nodes \in Seq(Node) /\ Len(nodes) \in Nat /\ DOMAIN nodes = 1 .. Len(nodes)
  BY <1>2 DEF IsListing
<1>5. S \in SUBSET (1 .. Len(nodes)) /\ \A k \in S : nodes[k].id.index = id.index
  BY <1>4
<1> HIDE DEF S
<1>6. PICK k \in S : resolve_entry(v, id) = nodes[k]
  BY <1>3, <1>4, <1>5, FirstIsThere
<1>7. k \in 1 .. Len(nodes) /\ nodes[k] \in Node
  BY <1>4, <1>5
<1>8. nodes[k].id = Entry(c, id.index)
  BY <1>2, <1>5, <1>7 DEF IsListing
<1>9. v.variant # "ExFat" => ~nodes[k].contiguous
  BY <1>2, <1>7 DEF IsListing
<1>10. ~(c < 2)
  <2>1. nodes # <<>>
    BY <1>4, <1>7
  <2> QED
    BY <1>2, <2>1
<1> QED
  BY <1>1, <1>6, <1>7, <1>8, <1>9, <1>10

\* A directory in the heap is read by its clusters.
SlotsAt(v, chain) ==
  [k \in 1 .. Len(ReadDirResult([chain |-> chain])) |->
     v.image[ReadDirResult([chain |-> chain])[k]]]

\* A directory is read by the clusters it is followed along.
LEMMA ReadByClusters ==
  \A v, first, size, contiguous :
    read_dir_bytes(v, Chain(first, size, contiguous))
      = SlotsAt(v, clusters(v, first, size, contiguous))
<1>1. ASSUME NEW v, NEW source, ~source.fixed
      PROVE  read_dir_bytes(v, source)
               = SlotsAt(v, clusters(v, source.first_cluster, source.size, source.contiguous))
  BY <1>1 DEF read_dir_bytes, SlotsAt
<1>2. \A first, size, contiguous :
        /\ ~Chain(first, size, contiguous).fixed
        /\ Chain(first, size, contiguous).first_cluster = first
        /\ Chain(first, size, contiguous).size = size
        /\ Chain(first, size, contiguous).contiguous = contiguous
  BY DEF Chain
<1> QED
  BY <1>1, <1>2

\* A directory that can be listed: its nodes lie in it, and where it is read
\* alike from above and from below the ids of its children lead into it.
LEMMA DirUnder ==
  ASSUME NEW v \in Volume, NEW id \in FileId, read_dir(v, id) # Err
  PROVE  LET nodes == read_dir(v, id).nodes
             marker == source_marker(dir_source(v, id))
         IN  /\ marker \in 0 .. FIXED_ROOT
             /\ IsListing(nodes, v, marker)
             /\ nodes # <<>> => marker >= 2
             /\ marker = FIXED_ROOT /\ (id = Root => root_is_clustered(v)) => nodes = <<>>
             /\ ReadAlike(v, meta(v, id)) =>
                  \/ entries_under(v, marker) = nodes
                  \/ marker = FIXED_ROOT /\ nodes = <<>>
<1> DEFINE src == dir_source(v, id)
           m == source_marker(src)
           slots == read_dir_bytes(v, src)
           nodes == list_nodes(v, slots, m)
           below == IF m = FIXED_ROOT THEN FixedRoot ELSE Chain(m, 0, FALSE)
<1>1. src # Err /\ read_dir(v, id) = [nodes |-> nodes]
  BY DEF read_dir, Listing
<1>2. SUFFICES /\ m \in 0 .. FIXED_ROOT /\ slots \in Seq(Slot)
               /\ slots # <<>> => m >= 2
               /\ m = FIXED_ROOT /\ (id = Root => root_is_clustered(v)) => slots = <<>>
               /\ ReadAlike(v, meta(v, id)) =>
                    \/ read_dir_bytes(v, below) = slots
                    \/ m = FIXED_ROOT /\ slots = <<>>
  <2> HIDE DEF m, slots, src
  <2>1. IsListing(nodes, v, m) /\ (slots = <<>> => nodes = <<>>)
    BY <1>2, NodesAreListed
  <2>2. entries_under(v, m) = list_nodes(v, read_dir_bytes(v, below), m)
    BY DEF entries_under
  <2> HIDE DEF below
  <2>3. ReadAlike(v, meta(v, id)) =>
          entries_under(v, m) = nodes \/ (m = FIXED_ROOT /\ nodes = <<>>)
    BY <1>2, <2>1, <2>2
  <2>4. read_dir(v, id).nodes = nodes
    BY <1>1
  <2>5. /\ m = FIXED_ROOT /\ (id = Root => root_is_clustered(v)) => nodes = <<>>
        /\ nodes # <<>> => m >= 2
    BY <1>2, <2>1
  <2> HIDE DEF nodes
  <2> USE DEF m, src
  <2> QED
    BY <1>2, <2>1, <2>3, <2>4, <2>5
<1>3. 0 \in Nat /\ FALSE \in BOOLEAN /\ FIXED_ROOT \in 0 .. FIXED_ROOT
  BY MarkerIsNat
<1>4. CASE id = Root /\ ~root_is_clustered(v)
  <2>1. src = FixedRoot
    BY <1>4 DEF dir_source
  <2>2. m = FIXED_ROOT
    BY <2>1 DEF source_marker, FixedRoot
  <2>3. below = FixedRoot
    BY <2>2
  <2>4. slots = read_dir_bytes(v, FixedRoot) /\ slots \in Seq(Slot)
    BY <2>1, SlotsRead
  <2>5. FIXED_ROOT >= 2
    BY MarkerIsNat
  <2> HIDE DEF below, m, slots
  <2> QED
    BY <1>3, <1>4, <2>2, <2>3, <2>4, <2>5
<1>5. CASE id = Root /\ root_is_clustered(v)
  <2>1. src = Chain(v.root_cluster, 0, FALSE)
    BY <1>5 DEF dir_source
  <2>2. m = v.root_cluster /\ m \in 0 .. FIXED_ROOT
    BY <2>1, VolumeFields DEF source_marker, Chain
  <2>3. slots \in Seq(Slot) /\ (m < 2 \/ m = FIXED_ROOT => slots = <<>>)
    <3> HIDE DEF m
    <3> QED
      BY <1>3, <2>1, <2>2, SlotsRead
  <2>4. slots = read_dir_bytes(v, Chain(m, 0, FALSE))
    BY <2>1, <2>2
  <2>5. m # FIXED_ROOT => below = Chain(m, 0, FALSE)
    OBVIOUS
  <2> HIDE DEF m, slots, below
  <2>6. slots # <<>> => m >= 2 /\ m # FIXED_ROOT
    BY <2>2, <2>3, MarkerIsNat
  <2> QED
    BY <2>2, <2>3, <2>4, <2>5, <2>6
<1>6. CASE id # Root
  <2> DEFINE d == resolve_entry(v, id)
  <2>1. id \in EntryId
    BY <1>6 DEF FileId
  <2>2. d # Err /\ src = Chain(d.first_cluster, d.size, d.contiguous)
    BY <1>1, <1>6 DEF dir_source, SourceOf
  <2>3. d \in Node /\ meta(v, id) = d
    BY <1>6, <2>1, <2>2, ResolvedHasId DEF meta
  <2>4. d.first_cluster \in 0 .. FIXED_ROOT /\ d.size \in Nat /\ d.contiguous \in BOOLEAN
    BY <2>3 DEF Node
  <2> HIDE DEF d
  <2>5. m = d.first_cluster
    BY <2>2 DEF source_marker, Chain
  <2>6. slots \in Seq(Slot) /\ (m < 2 \/ m = FIXED_ROOT => slots = <<>>)
    <3> HIDE DEF m
    <3> QED
      BY <2>2, <2>4, <2>5, SlotsRead
  <2>7. ReadAlike(v, d) => read_dir_bytes(v, Chain(m, 0, FALSE)) = slots
    <3>1. slots = read_dir_bytes(v, Chain(d.first_cluster, d.size, d.contiguous))
      BY <2>2
    <3> HIDE DEF slots, m
    <3>2. ASSUME ReadAlike(v, d)
          PROVE  read_dir_bytes(v, Chain(m, 0, FALSE)) = slots
      <4>1. clusters(v, d.first_cluster, d.size, d.contiguous) = clusters(v, m, 0, FALSE)
        BY <2>5, <3>2 DEF ReadAlike
      <4>2. read_dir_bytes(v, Chain(d.first_cluster, d.size, d.contiguous))
              = read_dir_bytes(v, Chain(m, 0, FALSE))
        BY <4>1, ReadByClusters
      <4> QED
        BY <3>1, <4>2
    <3> QED
      BY <3>2
  <2>8. m # FIXED_ROOT => below = Chain(m, 0, FALSE)
    OBVIOUS
  <2> HIDE DEF m, slots, below
  <2>9. m \in 0 .. FIXED_ROOT
    BY <2>4, <2>5
  <2>10. slots # <<>> => m >= 2 /\ m # FIXED_ROOT
    BY <2>6, <2>9, MarkerIsNat
  <2> QED
    BY <2>3, <2>6, <2>7, <2>8, <2>9, <2>10
<1> QED
  BY <1>4, <1>5, <1>6

\* The same without the name of the marker.
LEMMA ListedUnder ==
  ASSUME NEW v \in Volume, NEW id \in FileId, read_dir(v, id) # Err
  PROVE  \E marker \in 0 .. FIXED_ROOT :
           LET nodes == read_dir(v, id).nodes
           IN  /\ IsListing(nodes, v, marker)
               /\ nodes # <<>> => marker >= 2
               /\ nodes # <<>> /\ ReadAlike(v, meta(v, id)) =>
                    entries_under(v, marker) = nodes
  BY DirUnder

\* A node that a directory lists: its id, and where it leads.
LEMMA ListedLeadsBack ==
  ASSUME NEW v \in Volume, NEW id \in FileId, read_dir(v, id) # Err,
         NEW n \in Range(read_dir(v, id).nodes)
  PROVE  /\ n \in Node /\ n.id \in EntryId /\ n.id.dir_cluster >= 2
         /\ v.variant # "ExFat" => ~n.contiguous
         /\ v.variant = "ExFat" => ~n.is_volume_label
         /\ ReadAlike(v, meta(v, id)) /\ n.id.index < MaxIndex =>
              resolve_entry(v, n.id) = n
<1> DEFINE nodes == read_dir(v, id).nodes
<1>1. PICK marker \in 0 .. FIXED_ROOT :
        /\ IsListing(nodes, v, marker)
        /\ nodes # <<>> => marker >= 2
        /\ nodes # <<>> /\ ReadAlike(v, meta(v, id)) => entries_under(v, marker) = nodes
  BY ListedUnder
<1>2. n \in Range(nodes)
  OBVIOUS
<1> HIDE DEF nodes
<1>3. nodes \in Seq(Node) /\ Len(nodes) \in Nat /\ DOMAIN nodes = 1 .. Len(nodes)
  BY <1>1 DEF IsListing
<1>4. PICK k \in 1 .. Len(nodes) : n = nodes[k]
  BY <1>2, <1>3 DEF Range
<1>5. nodes # <<>>
  BY <1>3, <1>4
<1>6. /\ n \in Node /\ n.id = Entry(marker, n.id.index) /\ n.id.index \in 0 .. MaxIndex
      /\ v.variant # "ExFat" => ~n.contiguous
      /\ v.variant = "ExFat" => ~n.is_volume_label
  BY <1>1, <1>3, <1>4 DEF IsListing
<1>7. n.id \in EntryId /\ n.id.dir_cluster = marker
  <2>1. Entry(marker, n.id.index) \in EntryId
    BY <1>6 DEF Entry, EntryId
  <2> QED
    BY <1>6, <2>1, Shapes
<1>8. ASSUME ReadAlike(v, meta(v, id)), n.id.index < MaxIndex
      PROVE  resolve_entry(v, n.id) = n
  <2> DEFINE S == { i \in DOMAIN nodes : nodes[i].id.index = n.id.index }
  <2>1. S = {k}
    <3>1. k \in S
      BY <1>3, <1>4
    <3>2. \A i \in 1 .. Len(nodes) : nodes[i].id.index = n.id.index => i = k
      BY <1>1, <1>4, <1>8 DEF IsListing
    <3> QED
      BY <1>3, <3>1, <3>2
  <2>2. resolve_entry(v, n.id) = FirstOf(nodes, S)
    BY <1>1, <1>5, <1>7, <1>8 DEF resolve_entry
  <2> HIDE DEF S
  <2>3. FirstOf(nodes, S) = nodes[k]
    <3>1. S \in SUBSET (1 .. Len(nodes)) /\ S # {}
      BY <2>1
    <3>2. Min(S) \in S /\ FirstOf(nodes, S) = nodes[Min(S)]
      BY <1>3, <3>1, FirstIsThere
    <3> QED
      BY <2>1, <3>2
  <2> QED
    BY <1>4, <2>2, <2>3
<1> QED
  BY <1>1, <1>5, <1>6, <1>7, <1>8

\* What a listing holds under a name is one of its nodes.
LEMMA NamedIsListed ==
  ASSUME NEW v \in Volume, NEW id \in FileId, NEW name, NamedIn(read_dir(v, id), name) # Err
  PROVE  /\ read_dir(v, id) # Err
         /\ NamedIn(read_dir(v, id), name) \in Range(read_dir(v, id).nodes)
<1> DEFINE listed == read_dir(v, id)
           nodes == listed.nodes
           S == { k \in DOMAIN nodes : /\ ~nodes[k].is_deleted
                                       /\ ~nodes[k].is_volume_label
                                       /\ nodes[k].name = name }
<1>1. listed # Err /\ NamedIn(listed, name) = FirstOf(nodes, S)
  BY DEF NamedIn
<1>2. PICK marker : IsListing(nodes, v, marker)
  BY <1>1, ListedUnder
<1> HIDE DEF nodes, listed
<1>3. Len(nodes) \in Nat /\ DOMAIN nodes = 1 .. Len(nodes)
  BY <1>2 DEF IsListing
<1>4. S \in SUBSET (1 .. Len(nodes))
  BY <1>3
<1> HIDE DEF S
<1>5. FirstOf(nodes, S) \in Range(nodes)
  <2>1. S # {}
    BY <1>1, <1>3, <1>4, FirstIsThere DEF listed
  <2>2. Min(S) \in S /\ FirstOf(nodes, S) = nodes[Min(S)]
    BY <1>3, <1>4, <2>1, FirstIsThere
  <2> QED
    BY <1>3, <1>4, <2>2 DEF Range
<1> QED
  BY <1>1, <1>5 DEF listed, nodes

-----------------------------------------------------------------------------
\* The caller holds nodes, with ids below a directory of the heap or the root
\* region; the last was resolved from its id, or listed under `parent`.
Placed(n) == n.id # Root => n.id.dir_cluster >= 2

IsResolved == meta(vol, node.id) = node
IsListed ==
  read_dir(vol, parent.id) # Err /\ node \in Range(read_dir(vol, parent.id).nodes)

NavInv ==
  /\ vol \in Volume
  /\ NavTypeOK
  /\ Placed(parent) /\ Placed(node)
  /\ IsResolved \/ IsListed

\* The ids of nodes are those of the root or of entries.
LEMMA NodeIds ==
  \A n \in Node : n.id \in FileId
  BY DEF Node, FileId, EntryId

\* The root is a node of its own id.
LEMMA RootIsNode ==
  root_node \in Node /\ root_node.id = Root /\ ~root_node.contiguous
<1>1. 0 \in 0 .. FIXED_ROOT
  BY MarkerIsNat
<1> QED
  BY <1>1 DEF root_node, Node, FileId, NoName

\* The caller starts at the root, which meta resolves to itself.
LEMMA NavInitInv == NavInit => NavInv
<1> SUFFICES ASSUME NavInit PROVE NavInv
  OBVIOUS
<1>1. vol \in Volume /\ parent = root_node /\ node = root_node
  BY VolumesAssumption DEF NavInit
<1>2. meta(vol, Root) = root_node
  BY DEF meta
<1> QED
  BY <1>1, <1>2, RootIsNode DEF NavInv, NavTypeOK, Placed, IsResolved

\* A listing, and a name or id resolved, keep to NavInv.
LEMMA NavStepInv == NavInv /\ [NavNext]_nav_vars => NavInv'
<1> SUFFICES ASSUME NavInv, [NavNext]_nav_vars PROVE NavInv'
  OBVIOUS
<1>0. /\ vol \in Volume /\ parent \in Node /\ node \in Node
      /\ node.id \in FileId /\ Placed(node)
  BY NodeIds DEF NavInv, NavTypeOK
<1>1. CASE UNCHANGED nav_vars
  BY <1>1 DEF nav_vars, NavInv, NavTypeOK, Placed, IsResolved, IsListed
<1>2. CASE ReadDir
  <2>1. /\ read_dir(vol, node.id) # Err
        /\ node' \in Range(read_dir(vol, node.id).nodes)
        /\ parent' = node /\ vol' = vol
    BY <1>2 DEF ReadDir
  <2>2. /\ node' \in Node /\ node'.id \in EntryId /\ node'.id.dir_cluster >= 2
        /\ vol.variant # "ExFat" => ~node'.contiguous
    BY <1>0, <2>1, ListedLeadsBack
  <2>3. NavTypeOK' /\ Placed(parent)' /\ Placed(node)'
    BY <1>0, <2>1, <2>2 DEF NavTypeOK, Placed
  <2>4. IsListed'
    BY <2>1 DEF IsListed
  <2> QED
    BY <1>0, <2>1, <2>3, <2>4 DEF NavInv
<1>3. CASE \E name \in Names : Lookup(name)
  <2>1. PICK name \in Names : Lookup(name)
    BY <1>3
  <2> DEFINE id == lookup(vol, node.id, name)
             found == NamedIn(read_dir(vol, node.id), name)
  <2>2. id # Err /\ node' = meta(vol, id) /\ node' # Err /\ parent' = node /\ vol' = vol
    BY <2>1 DEF Lookup
  <2>3. found # Err /\ id = found.id
    BY <2>2 DEF lookup, IdOf
  <2>4. read_dir(vol, node.id) # Err /\ found \in Range(read_dir(vol, node.id).nodes)
    BY <1>0, <2>3, NamedIsListed
  <2>5. id \in EntryId /\ id.dir_cluster >= 2
    <3> HIDE DEF found, id
    <3> QED
      BY <1>0, <2>3, <2>4, ListedLeadsBack
  <2> HIDE DEF id
  <2>6. id # Root /\ node' = resolve_entry(vol, id)
    BY <2>2, <2>5, Shapes DEF meta
  <2>7. /\ node' \in Node /\ node'.id = id
        /\ vol.variant # "ExFat" => ~node'.contiguous
    BY <1>0, <2>2, <2>5, <2>6, ResolvedHasId
  <2>8. NavTypeOK' /\ Placed(parent)' /\ Placed(node)'
    BY <1>0, <2>2, <2>5, <2>7 DEF NavTypeOK, Placed
  <2>9. IsResolved'
    BY <2>2, <2>7 DEF IsResolved
  <2> QED
    BY <1>0, <2>2, <2>8, <2>9 DEF NavInv
<1> QED
  BY <1>1, <1>2, <1>3 DEF NavNext

\* For every volume: however the caller goes through it (FatFs read_dir, lookup
\* and meta), the node it holds was resolved from its id or listed where it says.
THEOREM NavInvAlways == NavSpec => []NavInv
  BY NavInitInv, NavStepInv, PTL DEF NavSpec

\* The caller is given nodes, of their type; those of FAT volumes are never
\* contiguous (fs.rs, node_from).
THEOREM NodesAreTyped == NavSpec => []NavTypeOK
<1>1. NavInv => NavTypeOK
  BY DEF NavInv
<1> QED
  BY <1>1, NavInvAlways, PTL

-----------------------------------------------------------------------------
\* For every volume: the id of a node leads back to it, within the stated
\* conditions (fs.rs, resolve_entry).
THEOREM HandlesStable == NavSpec => []HandlesAreStable
<1>1. NavInv => HandlesAreStable
  <2> SUFFICES ASSUME NavInv, ReadAlike(vol, meta(vol, parent.id)), Addressable(node)
               PROVE  meta(vol, node.id) = node
    BY DEF HandlesAreStable
  <2>1. CASE IsResolved
    BY <2>1 DEF IsResolved
  <2>2. CASE IsListed
    <3>1. vol \in Volume /\ parent.id \in FileId
      BY NodeIds DEF NavInv, NavTypeOK
    <3>2. /\ read_dir(vol, parent.id) # Err
          /\ node \in Range(read_dir(vol, parent.id).nodes)
      BY <2>2 DEF IsListed
    <3>3. node.id \in EntryId
      BY <3>1, <3>2, ListedLeadsBack
    <3>4. node.id # Root /\ node.id.index < MaxIndex
      BY <3>3, Shapes DEF Addressable
    <3>5. resolve_entry(vol, node.id) = node
      BY <3>1, <3>2, <3>4, ListedLeadsBack
    <3> QED
      BY <3>4, <3>5 DEF meta
  <2> QED
    BY <2>1, <2>2 DEF NavInv
<1> QED
  BY <1>1, NavInvAlways, PTL

\* A number made of a quotient and a remainder gives them back.
LEMMA PartsAreUnique ==
  \A d \in Nat \ {0} : \A q, r \in Nat : r < d => (d * q + r) \div d = q /\ (d * q + r) % d = r
<1> SUFFICES ASSUME NEW d \in Nat \ {0}, NEW q \in Nat, NEW r \in Nat, r < d
             PROVE  (d * q + r) \div d = q /\ (d * q + r) % d = r
  OBVIOUS
<1> DEFINE n == d * q + r
<1>1. n = d * q + r /\ d > 0
  OBVIOUS
<1> HIDE DEF n
<1>2. n \div d = q /\ n % d = r
  BY <1>1, DivUnique
<1> QED
  BY <1>2 DEF n

\* A VFS address comes back as the id it was made from.
LEMMA VfsIdComesBack ==
  ASSUME NEW id \in FileId, id # Root => id.dir_cluster >= 2
  PROVE  from_vfs_id(to_vfs_id(id)) = id
<1>1. CASE id = Root
  BY <1>1 DEF from_vfs_id, to_vfs_id
<1>2. CASE id # Root
  <2>1. to_vfs_id(id) = [cluster |-> id.dir_cluster, index |-> id.index]
    BY <1>2 DEF to_vfs_id
  <2>2. id.dir_cluster # 0 /\ id = Entry(id.dir_cluster, id.index)
    BY <1>2, Shapes DEF FileId
  <2> QED
    BY <2>1, <2>2 DEF from_vfs_id
<1> QED
  BY <1>1, <1>2

\* For every volume: VFS addresses and metadata addresses are those of one id
\* (vfs.rs, to_vfs_id, from_vfs_id, ino_of).
THEOREM IdsAreExact == NavSpec => []VfsIdsAreExact
<1>1. NavInv => VfsIdsAreExact
  <2> SUFFICES ASSUME NavInv PROVE VfsIdsAreExact
    OBVIOUS
  <2>1. /\ node.id \in FileId /\ Placed(node)
        /\ parent.id \in FileId /\ Placed(parent)
    BY NodeIds DEF NavInv, NavTypeOK
  <2>2. MaxIndex \in Nat
    BY MarkerAssumption
  <2> DEFINE d == MaxIndex + 1
  <2>3. d \in Nat /\ d > 0
    BY <2>2
  <2>4. ASSUME NEW n, n.id \in FileId, Placed(n), n.id # Root
        PROVE  /\ n.id = Entry(n.id.dir_cluster, n.id.index)
               /\ n.id.dir_cluster \in Nat /\ n.id.dir_cluster >= 2
               /\ n.id.index \in Nat /\ n.id.index < d
               /\ ino_of(n.id) = d * n.id.dir_cluster + n.id.index
    <3>1. n.id \in EntryId /\ n.id.dir_cluster >= 2
      BY <2>4 DEF FileId, Placed
    <3>2. /\ n.id = Entry(n.id.dir_cluster, n.id.index)
          /\ n.id.dir_cluster \in Nat /\ n.id.index \in Nat /\ n.id.index <= MaxIndex
      BY <3>1, Shapes, MarkerIsNat
    <3>3. ino_of(n.id) = n.id.dir_cluster * d + n.id.index
      BY <2>4 DEF ino_of
    <3>4. \A a, b \in Nat : a * b = b * a
      OBVIOUS
    <3> HIDE DEF d
    <3>5. n.id.dir_cluster * d = d * n.id.dir_cluster
      BY <2>3, <3>2, <3>4
    <3> QED
      BY <2>2, <3>1, <3>2, <3>3, <3>5 DEF d
  <2>5. from_vfs_id(to_vfs_id(node.id)) = node.id
    BY <2>1, VfsIdComesBack DEF Placed
  <2>6. ASSUME ino_of(node.id) = ino_of(parent.id)
        PROVE  node.id = parent.id
    <3>0. ASSUME NEW n, n.id \in FileId, Placed(n), n.id # Root
          PROVE  ino_of(n.id) # 0
      <4> DEFINE q == n.id.dir_cluster
                 r == n.id.index
      <4>1. /\ q \in Nat /\ q >= 2 /\ r \in Nat /\ r < d
            /\ ino_of(n.id) = d * q + r
        BY <2>4, <3>0
      <4> HIDE DEF d, q, r
      <4>2. ino_of(n.id) \div d = q
        BY <2>3, <4>1, PartsAreUnique
      <4>3. 0 \div d = 0
        BY <2>3
      <4> QED
        BY <4>1, <4>2, <4>3
    <3>1. ino_of(Root) = 0
      BY DEF ino_of
    <3>2. CASE node.id = Root \/ parent.id = Root
      BY <2>1, <2>6, <3>0, <3>1, <3>2
    <3>3. CASE node.id # Root /\ parent.id # Root
      <4> DEFINE a == node.id
                 b == parent.id
                 i == ino_of(a)
      <4>1. /\ a = Entry(a.dir_cluster, a.index)
            /\ a.dir_cluster \in Nat /\ a.index \in Nat /\ a.index < d
            /\ i = d * a.dir_cluster + a.index
        BY <2>1, <2>4, <3>3
      <4>2. /\ b = Entry(b.dir_cluster, b.index)
            /\ b.dir_cluster \in Nat /\ b.index \in Nat /\ b.index < d
            /\ i = d * b.dir_cluster + b.index
        BY <2>1, <2>4, <2>6, <3>3
      <4> DEFINE ac == a.dir_cluster
                 ai == a.index
                 bc == b.dir_cluster
                 bi == b.index
      <4> HIDE DEF d, a, b, i, ac, ai, bc, bi
      <4>3. i \div d = a.dir_cluster /\ i % d = a.index
        <5>1. ac \in Nat /\ ai \in Nat /\ ai < d /\ i = d * ac + ai
          BY <4>1 DEF ac, ai
        <5>2. i \div d = ac /\ i % d = ai
          BY <2>3, <5>1, PartsAreUnique
        <5> QED
          BY <5>2 DEF ac, ai
      <4>4. i \div d = b.dir_cluster /\ i % d = b.index
        <5>1. bc \in Nat /\ bi \in Nat /\ bi < d /\ i = d * bc + bi
          BY <4>2 DEF bc, bi
        <5>2. i \div d = bc /\ i % d = bi
          BY <2>3, <5>1, PartsAreUnique
        <5> QED
          BY <5>2 DEF bc, bi
      <4> QED
        BY <4>1, <4>2, <4>3, <4>4 DEF a, b
    <3> QED
      BY <3>2, <3>3
  <2> QED
    BY <2>5, <2>6 DEF VfsIdsAreExact
<1> QED
  BY <1>1, NavInvAlways, PTL

-----------------------------------------------------------------------------
\* The first of some of the listed places, in the listing that is shown.
LEMMA FirstShown ==
  ASSUME NEW n \in Nat, NEW S \in SUBSET (1 .. n), NEW P \in SUBSET S, P # {},
         NEW Q, Q = { q \in 1 .. Len(Ascending(S)) : Ascending(S)[q] \in P }
  PROVE  /\ Q \in SUBSET (1 .. Len(Ascending(S))) /\ Q # {}
         /\ Ascending(S)[Min(Q)] = Min(P)
<1> DEFINE A == Ascending(S)
<1>1. /\ A \in Seq(S)
      /\ \A k \in S : \E i \in 1 .. Len(A) : A[i] = k
      /\ \A i, j \in 1 .. Len(A) : i < j => A[i] < A[j]
  BY AscendingLists
<1> HIDE DEF A
<1>2. P \in SUBSET (1 .. n)
  OBVIOUS
<1>3. Min(P) \in P /\ \A y \in P : Min(P) <= y
  BY <1>2, MinIsLeast
<1>4. PICK i \in 1 .. Len(A) : A[i] = Min(P)
  BY <1>1, <1>3
<1>5. i \in Q /\ Q \in SUBSET (1 .. Len(A)) /\ Len(A) \in Nat
  BY <1>1, <1>3, <1>4 DEF A
<1>6. Min(Q) \in Q /\ Min(Q) <= i
  BY <1>5, MinIsLeast
<1>7. Min(Q) \in 1 .. Len(A) /\ A[Min(Q)] \in P
  BY <1>5, <1>6 DEF A
<1>8. ~(Min(Q) < i)
  <2>1. ASSUME Min(Q) < i
        PROVE  FALSE
    <3>1. A[Min(Q)] < A[i]
      BY <1>1, <1>7, <2>1
    <3>2. Min(P) <= A[Min(Q)]
      BY <1>3, <1>7
    <3>0. \A x \in P : x \in Int
      BY <1>2
    <3>3. Min(P) \in Int /\ A[Min(Q)] \in Int
      BY <1>3, <1>7, <3>0
    <3> QED
      BY <1>4, <3>1, <3>2, <3>3
  <2> QED
    BY <2>1
<1>9. Min(Q) = i
  BY <1>5, <1>6, <1>7, <1>8
<1> QED
  BY <1>4, <1>5, <1>9 DEF A

\* What the adapter shows of a listing.
Shown(nodes) ==
  { k \in DOMAIN nodes : /\ ~nodes[k].is_deleted /\ ~nodes[k].is_volume_label
                         /\ nodes[k].name \notin Dots }
VfsEntry(n) == [name |-> n.name, id |-> to_vfs_id(n.id), kind |-> node_kind(n)]
ShownEntries(nodes) ==
  [k \in 1 .. Len(Ascending(Shown(nodes))) |-> VfsEntry(nodes[Ascending(Shown(nodes))[k]])]

\* What the adapter lists is what read_dir lists, as far as it is shown.
LEMMA VfsListing ==
  ASSUME NEW v, NEW ino, vfs_read_dir(v, ino) # VfsError
  PROVE  /\ read_dir(v, from_vfs_id(ino)) # Err
         /\ vfs_read_dir(v, ino).entries = ShownEntries(read_dir(v, from_vfs_id(ino)).nodes)
<1>1. vfs_read_dir(v, ino) =
        IF read_dir(v, from_vfs_id(ino)) = Err THEN VfsError
        ELSE [entries |-> ShownEntries(read_dir(v, from_vfs_id(ino)).nodes)]
  BY DEF vfs_read_dir, ShownEntries, Shown, VfsEntry
<1> QED
  BY <1>1

\* Each entry of the adapter is that of a node shown, at its place.
LEMMA EntriesShown ==
  ASSUME NEW v \in Volume, NEW id \in FileId, read_dir(v, id) # Err
  PROVE  LET nodes == read_dir(v, id).nodes
             E == ShownEntries(nodes)
             A == Ascending(Shown(nodes))
         IN  /\ nodes \in Seq(Node) /\ Len(nodes) \in Nat /\ DOMAIN nodes = 1 .. Len(nodes)
             /\ Shown(nodes) \in SUBSET (1 .. Len(nodes))
             /\ DOMAIN E = 1 .. Len(A)
             /\ \A q \in 1 .. Len(A) : /\ A[q] \in Shown(nodes)
                                       /\ A[q] \in 1 .. Len(nodes)
                                       /\ E[q] = VfsEntry(nodes[A[q]])
<1> DEFINE nodes == read_dir(v, id).nodes
           A == Ascending(Shown(nodes))
<1>1. PICK marker : IsListing(nodes, v, marker)
  BY ListedUnder
<1> HIDE DEF nodes
<1>2. nodes \in Seq(Node) /\ Len(nodes) \in Nat /\ DOMAIN nodes = 1 .. Len(nodes)
  BY <1>1 DEF IsListing
<1>3. Shown(nodes) \in SUBSET (1 .. Len(nodes))
  BY <1>2 DEF Shown
<1>4. A \in Seq(Shown(nodes))
  BY <1>2, <1>3, AscendingLists
<1>5. /\ DOMAIN ShownEntries(nodes) = 1 .. Len(A)
      /\ \A q \in 1 .. Len(A) : ShownEntries(nodes)[q] = VfsEntry(nodes[A[q]])
  BY DEF ShownEntries
<1> HIDE DEF A
<1>6. \A q \in 1 .. Len(A) : A[q] \in Shown(nodes)
  BY <1>4
<1> QED
  BY <1>2, <1>3, <1>5, <1>6 DEF nodes, A

PlacesOf(name, E) == { k \in DOMAIN E : E[k].name = name }

\* A name the adapter lists is looked up to the first entry it lists under it.
LEMMA NameIsFound ==
  ASSUME NEW v \in Volume, NEW id \in FileId, read_dir(v, id) # Err, NEW name,
         NEW E, E = ShownEntries(read_dir(v, id).nodes),
         \E e \in Range(E) : e.name = name
  PROVE  /\ lookup(v, id, name) # Err
         /\ to_vfs_id(lookup(v, id, name))
              = FirstOf(E, PlacesOf(name, E)).id
<1> DEFINE nodes == read_dir(v, id).nodes
           S == Shown(nodes)
           A == Ascending(S)
           P == { k \in DOMAIN nodes : /\ ~nodes[k].is_deleted
                                       /\ ~nodes[k].is_volume_label
                                       /\ nodes[k].name = name }
           Q == PlacesOf(name, E)
<1>1. /\ nodes \in Seq(Node) /\ Len(nodes) \in Nat /\ DOMAIN nodes = 1 .. Len(nodes)
      /\ S \in SUBSET (1 .. Len(nodes)) /\ DOMAIN E = 1 .. Len(A)
      /\ \A q \in 1 .. Len(A) : /\ A[q] \in S /\ A[q] \in 1 .. Len(nodes)
                                /\ E[q] = VfsEntry(nodes[A[q]])
  BY EntriesShown
<1>2. lookup(v, id, name) = IdOf(FirstOf(nodes, P))
  BY DEF lookup, NamedIn
<1>3. \A k \in S : /\ k \in DOMAIN nodes /\ ~nodes[k].is_deleted
                   /\ ~nodes[k].is_volume_label /\ nodes[k].name \notin Dots
  BY DEF Shown
<1>4. \A k \in DOMAIN nodes :
        ~nodes[k].is_deleted /\ ~nodes[k].is_volume_label /\ nodes[k].name \notin Dots => k \in S
  BY DEF Shown
<1>5. \A q \in 1 .. Len(A) : E[q].name = nodes[A[q]].name /\ E[q].id = to_vfs_id(nodes[A[q]].id)
  <2> HIDE DEF A, nodes
  <2>1. \A n : VfsEntry(n).name = n.name /\ VfsEntry(n).id = to_vfs_id(n.id)
    BY DEF VfsEntry
  <2> QED
    BY <1>1, <2>1
<1> HIDE DEF S, A, nodes
<1>6. PICK q \in 1 .. Len(A) : E[q].name = name
  BY <1>1 DEF Range
<1>7. name \notin Dots /\ A[q] \in P
  BY <1>1, <1>3, <1>5, <1>6
<1>8. P \in SUBSET S
  BY <1>4, <1>7
<1>9. Q = { k \in 1 .. Len(A) : A[k] \in P }
  <2>1. \A k \in 1 .. Len(A) : E[k].name = name <=> A[k] \in P
    BY <1>1, <1>3, <1>5
  <2> QED
    BY <1>1, <2>1 DEF PlacesOf
<1>10. P \in SUBSET (1 .. Len(nodes)) /\ P # {}
  BY <1>1, <1>7, <1>8
<1> HIDE DEF P, Q
<1>11. Q \in SUBSET (1 .. Len(A)) /\ Q # {} /\ A[Min(Q)] = Min(P)
  BY <1>1, <1>8, <1>9, <1>10, FirstShown DEF A
<1>12. Len(A) \in Nat
  <2>1. A \in Seq(S)
    BY <1>1, AscendingLists DEF A
  <2> QED
    BY <2>1
<1>13. /\ FirstOf(nodes, P) = nodes[Min(P)] /\ Min(P) \in P
       /\ FirstOf(E, Q) = E[Min(Q)] /\ Min(Q) \in 1 .. Len(A)
  BY <1>1, <1>10, <1>11, <1>12, FirstIsThere
<1>14. FirstOf(E, Q).id = to_vfs_id(nodes[Min(P)].id)
  BY <1>5, <1>11, <1>13
<1>15. nodes[Min(P)] \in Node /\ nodes[Min(P)] \in Range(nodes)
  <2>1. PICK k \in 1 .. Len(nodes) : k = Min(P)
    BY <1>10, <1>13
  <2>2. nodes \in Seq(Node) /\ k \in DOMAIN nodes
    BY <1>1
  <2> HIDE DEF nodes
  <2>3. nodes[k] \in Node /\ nodes[k] \in Range(nodes)
    BY <2>2 DEF Range
  <2> QED
    BY <2>1, <2>3
<1>16. nodes[Min(P)].id \in EntryId
  BY <1>15, ListedLeadsBack DEF nodes
<1>17. lookup(v, id, name) = nodes[Min(P)].id
  BY <1>2, <1>13, <1>15, Shapes DEF IdOf
<1> QED
  BY <1>14, <1>16, <1>17, Shapes DEF Q

\* For every volume: what the adapter lists, it finds (vfs.rs, read_dir, lookup
\* and meta).
THEOREM ListedIsFound == NavSpec => []VfsListedIsFound
<1>1. NavInv => VfsListedIsFound
  <2> SUFFICES ASSUME NavInv PROVE VfsListedIsFound
    OBVIOUS
  <2> DEFINE id == node.id
             ino == to_vfs_id(id)
             listed == vfs_read_dir(vol, ino)
             E == listed.entries
             nodes == read_dir(vol, id).nodes
  <2>1. vol \in Volume /\ id \in FileId /\ (id # Root => id.dir_cluster >= 2)
    BY NodeIds DEF NavInv, NavTypeOK, Placed
  <2>2. from_vfs_id(ino) = id
    BY <2>1, VfsIdComesBack
  <2>3. SUFFICES ASSUME listed # VfsError
                 PROVE  /\ \A name \in { e.name : e \in Range(E) } :
                             vfs_lookup(vol, ino, name)
                               = FirstOf(E, { k \in DOMAIN E : E[k].name = name }).id
                        /\ ReadAlike(vol, meta(vol, id)) =>
                             \A e \in Range(E) : e.id.index < MaxIndex =>
                               \E found \in {vfs_meta(vol, e.id)} :
                                 found # VfsError /\ found.kind = e.kind /\ found.allocated
    BY DEF VfsListedIsFound
  <2>4. read_dir(vol, id) # Err /\ E = ShownEntries(nodes)
    BY <2>2, <2>3, VfsListing
  <2> HIDE DEF listed, E, ino, id
  <2>5. ASSUME NEW name \in { e.name : e \in Range(E) }
        PROVE  vfs_lookup(vol, ino, name) = FirstOf(E, { k \in DOMAIN E : E[k].name = name }).id
    <3>1. /\ lookup(vol, id, name) # Err
          /\ to_vfs_id(lookup(vol, id, name)) = FirstOf(E, PlacesOf(name, E)).id
      <4>1. \E e \in Range(E) : e.name = name
        OBVIOUS
      <4> QED
        BY <2>1, <2>4, <4>1, NameIsFound
    <3>2. vfs_lookup(vol, ino, name) = to_vfs_id(lookup(vol, id, name))
      BY <2>2, <3>1 DEF vfs_lookup
    <3> QED
      BY <3>1, <3>2 DEF PlacesOf
  <2>6. ASSUME ReadAlike(vol, meta(vol, id)), NEW e \in Range(E), e.id.index < MaxIndex
        PROVE  /\ vfs_meta(vol, e.id) # VfsError
               /\ vfs_meta(vol, e.id).kind = e.kind
               /\ vfs_meta(vol, e.id).allocated
    <3> DEFINE A == Ascending(Shown(nodes))
    <3>1. /\ DOMAIN nodes = 1 .. Len(nodes) /\ DOMAIN E = 1 .. Len(A)
          /\ \A q \in 1 .. Len(A) : /\ A[q] \in Shown(nodes) /\ A[q] \in 1 .. Len(nodes)
                                    /\ E[q] = VfsEntry(nodes[A[q]])
      BY <2>1, <2>4, EntriesShown
    <3>2. PICK q \in 1 .. Len(A) : e = E[q]
      BY <3>1 DEF Range
    <3> DEFINE n == nodes[A[q]]
    <3>3. n \in Range(nodes) /\ e = VfsEntry(n) /\ ~n.is_deleted
      BY <3>1, <3>2 DEF Range, Shown
    <3> HIDE DEF n, nodes
    <3>4. /\ n \in Node /\ n.id \in EntryId /\ n.id.dir_cluster >= 2
          /\ n.id.index < MaxIndex => resolve_entry(vol, n.id) = n
      BY <2>1, <2>4, <2>6, <3>3, ListedLeadsBack DEF nodes
    <3>5. /\ n.id \in FileId /\ n.id # Root /\ e.id = to_vfs_id(n.id)
          /\ e.kind = node_kind(n)
      BY <3>3, <3>4, Shapes DEF VfsEntry, FileId
    <3>6. e.id.index = n.id.index /\ from_vfs_id(e.id) = n.id
      BY <3>4, <3>5, VfsIdComesBack DEF to_vfs_id
    <3>7. meta(vol, n.id) = n /\ n # Err
      BY <2>6, <3>4, <3>5, <3>6, Shapes DEF meta
    <3>8. vfs_meta(vol, e.id) =
            [ino |-> ino_of(n.id), kind |-> node_kind(n), allocated |-> ~n.is_deleted,
             size |-> n.size]
      BY <3>6, <3>7 DEF vfs_meta
    <3>9. "kind" \in DOMAIN vfs_meta(vol, e.id) /\ "kind" \notin DOMAIN VfsError
      BY <3>8 DEF VfsError
    <3>10. vfs_meta(vol, e.id) # VfsError
      BY <3>9
    <3>11. vfs_meta(vol, e.id).kind = node_kind(n) /\ vfs_meta(vol, e.id).allocated = ~n.is_deleted
      BY <3>8
    <3> QED
      BY <3>3, <3>5, <3>10, <3>11
  <2> QED
    BY <2>5, <2>6
<1> QED
  BY <1>1, NavInvAlways, PTL

-----------------------------------------------------------------------------
\* The offsets of one run.
Span(o, l) == [k \in 1 .. l |-> o + k - 1]
Spans(rs) == [n \in 1 .. Len(rs) |-> Span(rs[n][1], rs[n][2])]

\* A run is as many offsets as it is long...
LEMMA SpanType ==
  ASSUME NEW o \in Nat, NEW l \in Nat
  PROVE  Span(o, l) \in Seq(Nat) /\ Len(Span(o, l)) = l
<1>1. \A k \in 1 .. l : o + k - 1 \in Nat
  OBVIOUS
<1> QED
  BY <1>1 DEF Span

\* ...and there is one for each run.
LEMMA SpansType ==
  ASSUME NEW rs \in Seq(Nat \X Nat)
  PROVE  Spans(rs) \in Seq(Seq(Nat)) /\ Len(Spans(rs)) = Len(rs)
<1>1. \A n \in 1 .. Len(rs) : rs[n][1] \in Nat /\ rs[n][2] \in Nat
  OBVIOUS
<1>2. \A n \in 1 .. Len(rs) : Span(rs[n][1], rs[n][2]) \in Seq(Nat)
  BY <1>1, SpanType
<1>3. Len(rs) \in Nat
  OBVIOUS
<1> QED
  BY <1>2, <1>3 DEF Spans

\* A sequence that is another one and an element more.
LEMMA Appended ==
  ASSUME NEW V, NEW s \in Seq(V), NEW x \in V, NEW t \in Seq(V),
         Len(t) = Len(s) + 1, t[Len(s) + 1] = x, \A k \in 1 .. Len(s) : t[k] = s[k]
  PROVE  t = Append(s, x)
<1>1. /\ Append(s, x) \in Seq(V) /\ Len(Append(s, x)) = Len(s) + 1
      /\ Append(s, x)[Len(s) + 1] = x
      /\ \A k \in 1 .. Len(s) : Append(s, x)[k] = s[k]
  OBVIOUS
<1>2. Len(s) \in Nat /\ \A k \in 1 .. Len(s) + 1 : k \in 1 .. Len(s) \/ k = Len(s) + 1
  OBVIOUS
<1> DEFINE u == Append(s, x)
<1> HIDE DEF u
<1>3. u \in Seq(V) /\ Len(u) = Len(t) /\ \A k \in 1 .. Len(t) : u[k] = t[k]
  BY <1>1, <1>2 DEF u
<1>4. t = u
  BY <1>3
<1> QED
  BY <1>4 DEF u

\* A sequence that is one after another.
LEMMA Concatenated ==
  ASSUME NEW V, NEW s \in Seq(V), NEW u \in Seq(V), NEW t \in Seq(V),
         Len(t) = Len(s) + Len(u),
         \A k \in 1 .. Len(s) : t[k] = s[k],
         \A k \in 1 .. Len(u) : t[Len(s) + k] = u[k]
  PROVE  t = s \o u
<1>1. /\ s \o u \in Seq(V) /\ Len(s \o u) = Len(s) + Len(u)
      /\ \A k \in 1 .. Len(s) + Len(u) :
           (s \o u)[k] = IF k <= Len(s) THEN s[k] ELSE u[k - Len(s)]
  BY ConcatProperties
<1> DEFINE w == s \o u
<1>2. Len(s) \in Nat /\ Len(u) \in Nat
  OBVIOUS
<1> HIDE DEF w
<1>3. ASSUME NEW k \in 1 .. Len(t)
      PROVE  w[k] = t[k]
  <2>1. CASE k <= Len(s)
    BY <1>1, <1>2, <2>1 DEF w
  <2>2. CASE k > Len(s)
    <3>1. k - Len(s) \in 1 .. Len(u) /\ Len(s) + (k - Len(s)) = k
      BY <1>2, <2>2
    <3>2. w[k] = u[k - Len(s)]
      BY <1>1, <1>2, <2>2 DEF w
    <3>3. t[Len(s) + (k - Len(s))] = u[k - Len(s)]
      BY <3>1
    <3> QED
      BY <3>1, <3>2, <3>3
  <2> QED
    BY <1>2, <2>1, <2>2
<1>4. w \in Seq(V) /\ Len(w) = Len(t)
  BY <1>1 DEF w
<1>5. t = w
  BY <1>3, <1>4
<1> QED
  BY <1>5 DEF w

\* The parts of a concatenation.
LEMMA ConcatParts ==
  ASSUME NEW s \in Seq(Nat), NEW t \in Seq(Nat)
  PROVE  /\ s \o t \in Seq(Nat) /\ Len(s \o t) = Len(s) + Len(t)
         /\ \A k \in 1 .. Len(s) : (s \o t)[k] = s[k]
         /\ \A k \in 1 .. Len(t) : (s \o t)[Len(s) + k] = t[k]
<1> QED
  OBVIOUS

\* Concatenation may be bracketed either way.
LEMMA Associative ==
  \A s, t, u \in Seq(Nat) : (s \o t) \o u = s \o (t \o u)
<1> SUFFICES ASSUME NEW s \in Seq(Nat), NEW t \in Seq(Nat), NEW u \in Seq(Nat)
             PROVE  (s \o t) \o u = s \o (t \o u)
  OBVIOUS
<1> DEFINE st == s \o t
           tu == t \o u
           w == st \o u
<1>1. Len(s) \in Nat /\ Len(t) \in Nat /\ Len(u) \in Nat
  OBVIOUS
<1>2. /\ st \in Seq(Nat) /\ Len(st) = Len(s) + Len(t)
      /\ \A k \in 1 .. Len(s) : st[k] = s[k]
      /\ \A k \in 1 .. Len(t) : st[Len(s) + k] = t[k]
  BY ConcatParts
<1>3. /\ tu \in Seq(Nat) /\ Len(tu) = Len(t) + Len(u)
      /\ \A k \in 1 .. Len(t) : tu[k] = t[k]
      /\ \A k \in 1 .. Len(u) : tu[Len(t) + k] = u[k]
  BY ConcatParts
<1> HIDE DEF st, tu
<1>4. /\ w \in Seq(Nat) /\ Len(w) = Len(st) + Len(u)
      /\ \A k \in 1 .. Len(st) : w[k] = st[k]
      /\ \A k \in 1 .. Len(u) : w[Len(st) + k] = u[k]
  BY <1>2, ConcatParts
<1> HIDE DEF w
<1>5. Len(w) = Len(s) + Len(tu) /\ \A k \in 1 .. Len(s) : w[k] = s[k]
  <2>1. Len(w) = Len(s) + Len(tu)
    BY <1>1, <1>2, <1>3, <1>4
  <2>2. \A k \in 1 .. Len(s) : k \in 1 .. Len(st)
    BY <1>1, <1>2
  <2>3. \A k \in 1 .. Len(s) : w[k] = s[k]
    BY <1>2, <1>4, <2>2
  <2> QED
    BY <2>1, <2>3
<1>6. ASSUME NEW k \in 1 .. Len(tu)
      PROVE  w[Len(s) + k] = tu[k]
  <2>1. CASE k <= Len(t)
    <3>1. k \in 1 .. Len(t) /\ Len(s) + k \in 1 .. Len(st)
      BY <1>1, <1>2, <2>1
    <3> QED
      BY <1>2, <1>3, <1>4, <3>1
  <2>2. CASE k > Len(t)
    <3> DEFINE i == k - Len(t)
    <3>1. i \in 1 .. Len(u) /\ i = k - Len(t)
      BY <1>1, <1>3, <2>2
    <3> HIDE DEF i
    <3>2. k = Len(t) + i /\ Len(s) + k = Len(st) + i
      BY <1>1, <1>2, <3>1
    <3>3. w[Len(st) + i] = u[i] /\ tu[Len(t) + i] = u[i]
      BY <1>3, <1>4, <3>1
    <3> QED
      BY <3>2, <3>3
  <2> QED
    BY <1>1, <2>1, <2>2
<1>7. w = s \o tu
  BY <1>3, <1>4, <1>5, <1>6, Concatenated
<1> QED
  BY <1>7, Zenon DEF w, st, tu

\* A run more covers its offsets after those of the others.
LEMMA RunBytesAppend ==
  ASSUME NEW rs \in Seq(Nat \X Nat), NEW o \in Nat, NEW l \in Nat
  PROVE  /\ RunBytes(Append(rs, <<o, l>>)) = RunBytes(rs) \o Span(o, l)
         /\ RunBytes(rs) \in Seq(Nat)
<1>1. \A r : RunBytes(r) = FlattenSeq(Spans(r))
  BY DEF RunBytes, Spans, Span
<1>2. Spans(Append(rs, <<o, l>>)) = Append(Spans(rs), Span(o, l))
  <2> DEFINE all == Append(rs, <<o, l>>)
             n == Len(rs)
  <2>1. /\ n \in Nat /\ all \in Seq(Nat \X Nat) /\ Len(all) = n + 1
        /\ all[n + 1] = <<o, l>> /\ \A k \in 1 .. n : all[k] = rs[k]
    OBVIOUS
  <2> HIDE DEF n, all
  <2>2. /\ Spans(rs) \in Seq(Seq(Nat)) /\ Len(Spans(rs)) = n
        /\ Spans(all) \in Seq(Seq(Nat)) /\ Len(Spans(all)) = n + 1
    BY <2>1, SpansType DEF n
  <2>3. n + 1 \in 1 .. Len(all) /\ \A k \in 1 .. n : k \in 1 .. Len(all)
    BY <2>1
  <2>4. Spans(all)[n + 1] = Span(all[n + 1][1], all[n + 1][2])
    BY <2>3 DEF Spans
  <2>5. Spans(all)[n + 1] = Span(o, l)
    BY <2>1, <2>4
  <2>6. \A k \in 1 .. n : Spans(all)[k] = Spans(rs)[k]
    <3>1. \A k \in 1 .. n : Spans(all)[k] = Span(all[k][1], all[k][2])
      BY <2>3 DEF Spans
    <3>2. \A k \in 1 .. n : Spans(rs)[k] = Span(rs[k][1], rs[k][2])
      BY DEF Spans, n
    <3> QED
      BY <2>1, <3>1, <3>2
  <2>7. Span(o, l) \in Seq(Nat)
    BY SpanType
  <2>8. Spans(all) = Append(Spans(rs), Span(o, l))
    BY <2>2, <2>5, <2>6, <2>7, Appended
  <2> QED
    BY <2>8 DEF all
<1>3. Spans(rs) \in Seq(Seq(Nat)) /\ Span(o, l) \in Seq(Nat)
  BY SpanType, SpansType
<1>4. FlattenSeq(Append(Spans(rs), Span(o, l))) = FlattenSeq(Spans(rs)) \o Span(o, l)
  BY <1>3, FlattenAppend
<1>5. FlattenSeq(Spans(rs)) \in Seq(Nat)
  BY <1>3, FlattenIsSeq
<1> QED
  BY <1>1, <1>2, <1>4, <1>5

\* A run that grows at its end: the last of `rs` is of b bytes, that of `grown`
\* of l more.
Grows(rs, grown, a, b, l) ==
  /\ rs \in Seq(Nat \X Nat) /\ rs # <<>> /\ a \in Nat /\ b \in Nat /\ l \in Nat
  /\ grown \in Seq(Nat \X Nat) /\ Len(grown) = Len(rs)
  /\ rs[Len(rs)] = <<a, b>> /\ grown[Len(rs)] = <<a, b + l>>
  /\ \A k \in 1 .. Len(rs) - 1 : grown[k] = rs[k]

\* ...and covers the l offsets after its end besides.
LEMMA RunBytesGrow ==
  ASSUME NEW rs, NEW grown, NEW a, NEW b, NEW l, Grows(rs, grown, a, b, l)
  PROVE  RunBytes(grown) = RunBytes(rs) \o Span(a + b, l)
<1>0. /\ rs \in Seq(Nat \X Nat) /\ rs # <<>> /\ a \in Nat /\ b \in Nat /\ l \in Nat
      /\ grown \in Seq(Nat \X Nat) /\ Len(grown) = Len(rs)
      /\ rs[Len(rs)] = <<a, b>> /\ grown[Len(rs)] = <<a, b + l>>
      /\ \A k \in 1 .. Len(rs) - 1 : grown[k] = rs[k]
  BY DEF Grows
<1> USE <1>0
<1> DEFINE n == Len(rs)
           front == [k \in 1 .. n - 1 |-> rs[k]]
           d == b + l
           last == <<a, b>>
           more == <<a, d>>
<1>1. n \in Nat /\ n > 0 /\ \A k \in 1 .. n : rs[k] \in Nat \X Nat
  <2>1. rs \in Seq(Nat \X Nat) /\ rs # <<>>
    OBVIOUS
  <2> HIDE <1>0
  <2>2. n \in Nat /\ n > 0
    BY <2>1
  <2>3. \A k \in 1 .. n : rs[k] \in Nat \X Nat
    BY <2>1
  <2> QED
    BY <2>2, <2>3
<1>2. front \in Seq(Nat \X Nat) /\ Len(front) = n - 1
  <2> HIDE <1>0
  <2>1. n - 1 \in Nat /\ \A k \in 1 .. n - 1 : rs[k] \in Nat \X Nat
    BY <1>1
  <2> HIDE DEF n
  <2> QED
    BY <2>1
<1>3. /\ d \in Nat /\ d = b + l /\ a + b \in Nat
      /\ last \in Nat \X Nat /\ more \in Nat \X Nat
  OBVIOUS
<1>4. \A k \in 1 .. n - 1 : front[k] = rs[k]
  OBVIOUS
<1> HIDE DEF front
<1>5. Len(front) + 1 = n
  BY <1>1, <1>2
<1>6. \A k \in 1 .. Len(front) : rs[k] = front[k] /\ grown[k] = front[k]
  BY <1>2, <1>4
<1>7. rs[Len(front) + 1] = last /\ grown[Len(front) + 1] = more
  BY <1>5 DEF n
<1>8. Len(rs) = Len(front) + 1 /\ Len(grown) = Len(front) + 1
  BY <1>5
<1> HIDE DEF d, last, more
<1>9. rs = Append(front, last)
  BY <1>2, <1>3, <1>6, <1>7, <1>8, Appended
<1>10. grown = Append(front, more)
  BY <1>2, <1>3, <1>6, <1>7, <1>8, Appended
<1> USE DEF d, last, more
<1>11. /\ RunBytes(Append(front, last)) = RunBytes(front) \o Span(a, b)
       /\ RunBytes(Append(front, more)) = RunBytes(front) \o Span(a, d)
       /\ RunBytes(front) \in Seq(Nat)
  <2>1. RunBytes(Append(front, <<a, b>>)) = RunBytes(front) \o Span(a, b)
    BY <1>2, RunBytesAppend
  <2> HIDE DEF d
  <2>2. /\ RunBytes(Append(front, <<a, d>>)) = RunBytes(front) \o Span(a, d)
        /\ RunBytes(front) \in Seq(Nat)
    <3> HIDE <1>0
    <3>1. a \in Nat
      BY <1>0
    <3> QED
      BY <1>2, <1>3, <3>1, RunBytesAppend, SMTT(60)
  <2> QED
    BY <2>1, <2>2
<1>12. /\ Span(a, b) \in Seq(Nat) /\ Len(Span(a, b)) = b
       /\ Span(a + b, l) \in Seq(Nat) /\ Len(Span(a + b, l)) = l
       /\ Span(a, d) \in Seq(Nat) /\ Len(Span(a, d)) = d
  BY <1>3, SpanType
<1>13. Span(a, d) = Span(a, b) \o Span(a + b, l)
  <2>1. \A k \in 1 .. b : Span(a, d)[k] = Span(a, b)[k]
    BY <1>3 DEF Span
  <2>2. \A k \in 1 .. l : Span(a, d)[b + k] = Span(a + b, l)[k]
    BY <1>3 DEF Span
  <2> DEFINE s == Span(a, b)
             u == Span(a + b, l)
             t == Span(a, d)
  <2>3. /\ s \in Seq(Nat) /\ u \in Seq(Nat) /\ t \in Seq(Nat) /\ Len(t) = Len(s) + Len(u)
        /\ \A k \in 1 .. Len(s) : t[k] = s[k]
        /\ \A k \in 1 .. Len(u) : t[Len(s) + k] = u[k]
    BY <1>12, <2>1, <2>2
  <2> HIDE DEF s, u, t
  <2>4. t = s \o u
    BY <2>3, Concatenated
  <2> QED
    BY <2>4 DEF s, u, t
<1>14. RunBytes(grown) = RunBytes(rs) \o Span(a + b, l)
  <2>1. (RunBytes(front) \o Span(a, b)) \o Span(a + b, l)
          = RunBytes(front) \o (Span(a, b) \o Span(a + b, l))
    <3>1. \A s, t, u \in Seq(Nat) : (s \o t) \o u = s \o (t \o u)
      BY Associative
    <3> QED
      BY <1>11, <1>12, <3>1
  <2> QED
    BY <1>9, <1>10, <1>11, <1>13, <2>1
<1> QED
  BY <1>14

\* Runs are numbers in Nat \X Nat, the rest of the data is counted down.
RunAccs == [remaining : Nat, runs : Seq(Nat \X Nat)]

\* A run of no bytes covers nothing.
LEMMA EmptySpan ==
  ASSUME NEW o, NEW s \in Seq(Nat)
  PROVE  s \o Span(o, 0) = s
<1>1. Span(o, 0) = <<>>
  BY DEF Span
<1> QED
  BY <1>1

\* A turn of the loop of runs adds the data of one cluster to what they cover.
LEMMA AddClusterCovers ==
  ASSUME NEW acc \in RunAccs, NEW c \in Cluster, NEW l,
         l = LesserOf(ClusterSize, acc.remaining)
  PROVE  /\ l \in Nat /\ l <= acc.remaining
         /\ AddCluster(acc, c) \in RunAccs
         /\ AddCluster(acc, c).remaining = acc.remaining - l
         /\ RunBytes(AddCluster(acc, c).runs)
              = RunBytes(acc.runs) \o Span(cluster_offset(c), l)
<1> DEFINE off == cluster_offset(c)
           rs == acc.runs
           next == AddCluster(acc, c)
           last == rs[Len(rs)]
<1>1. /\ acc.remaining \in Nat /\ rs \in Seq(Nat \X Nat) /\ off \in Nat
      /\ ClusterSize \in Nat \ {0}
  BY OffsetIsNat, ReadAssumption DEF RunAccs
<1>2. l \in Nat /\ l <= acc.remaining /\ acc.remaining - l \in Nat
  BY <1>1 DEF LesserOf
<1>3. CASE acc.remaining = 0
  <2>1. l = 0 /\ next = acc
    BY <1>1, <1>3 DEF LesserOf, AddCluster
  <2>2. RunBytes(rs) \in Seq(Nat)
    BY <1>1, RunBytesAppend
  <2>3. RunBytes(rs) \o Span(off, 0) = RunBytes(rs)
    BY <2>2, EmptySpan
  <2> QED
    BY <1>2, <1>3, <2>1, <2>3
<1>4. CASE acc.remaining # 0 /\ rs # <<>> /\ last[1] + last[2] = off
  <2>1. next = [remaining |-> acc.remaining - l,
                runs |-> [rs EXCEPT ![Len(rs)] = <<last[1], last[2] + l>>]]
    BY <1>4 DEF AddCluster
  <2>2. last \in Nat \X Nat
    BY <1>1, <1>4
  <2> DEFINE a == last[1]
             b == last[2]
             grown == [rs EXCEPT ![Len(rs)] = <<a, b + l>>]
  <2>3. a \in Nat /\ b \in Nat /\ rs[Len(rs)] = <<a, b>> /\ a + b = off
    BY <1>4, <2>2
  <2>4. next = [remaining |-> acc.remaining - l, runs |-> grown]
    BY <2>1
  <2>5. b + l \in Nat
    BY <1>2, <2>3
  <2>6. rs \in Seq(Nat \X Nat) /\ rs # <<>>
    BY <1>1, <1>4
  <2>7. /\ grown \in Seq(Nat \X Nat) /\ Len(grown) = Len(rs)
        /\ grown[Len(rs)] = <<a, b + l>>
        /\ \A k \in 1 .. Len(rs) - 1 : grown[k] = rs[k]
    <3>1. <<a, b + l>> \in Nat \X Nat
      BY <2>3, <2>5
    <3>2. Len(rs) \in 1 .. Len(rs)
      BY <2>6
    <3> HIDE DEF a, b, rs
    <3> QED
      BY <2>6, <3>1, <3>2
  <2> HIDE DEF a, b, grown, rs, off, next
  <2>8. RunBytes(grown) = RunBytes(rs) \o Span(a + b, l)
    <3>1. Grows(rs, grown, a, b, l)
      BY <1>2, <2>3, <2>6, <2>7 DEF Grows
    <3> QED
      BY <3>1, RunBytesGrow
  <2>9. next \in RunAccs /\ next.remaining = acc.remaining - l /\ next.runs = grown
    BY <1>2, <2>4, <2>7 DEF RunAccs
  <2> QED
    BY <1>2, <2>3, <2>8, <2>9 DEF rs, off, next
<1>5. CASE acc.remaining # 0 /\ (rs = <<>> \/ last[1] + last[2] # off)
  <2> DEFINE more == Append(rs, <<off, l>>)
  <2>1. next = [remaining |-> acc.remaining - l, runs |-> more]
    BY <1>5 DEF AddCluster
  <2>2. more \in Seq(Nat \X Nat)
    BY <1>1, <1>2
  <2>3. RunBytes(more) = RunBytes(rs) \o Span(off, l)
    BY <1>1, <1>2, RunBytesAppend
  <2> HIDE DEF more, rs, off, next
  <2> QED
    BY <1>2, <2>1, <2>2, <2>3 DEF RunAccs, rs, off, next
<1> QED
  BY <1>3, <1>4, <1>5

\* The loop of runs, turn by turn.
IsRunsChain(g, chain, total) ==
  /\ g \in [0 .. Len(chain) -> RunAccs]
  /\ g[0] = [remaining |-> total, runs |-> <<>>]
  /\ \A j \in 1 .. Len(chain) : g[j] = AddCluster(g[j - 1], chain[j])

\* The runs of an extent are where that loop ends.
LEMMA RunsChainExists ==
  ASSUME NEW chain \in Seq(Cluster), NEW total \in Nat
  PROVE  \E g : /\ IsRunsChain(g, chain, total)
                /\ FoldLeft(AddCluster, [remaining |-> total, runs |-> <<>>], chain)
                     = g[Len(chain)]
<1> DEFINE n == Len(chain)
           base == [remaining |-> total, runs |-> <<>>]
           F == [p \in RunAccs \X (1 .. n) |-> AddCluster(p[1], chain[p[2]])]
           Iter(f) == f = [T \in SUBSET (1 .. n) |->
                             IF T = {} THEN base
                             ELSE AddCluster(f[T \ {Max(T)}], chain[Max(T)])]
           iter == CHOOSE f : Iter(f)
<1>1. n \in Nat /\ DOMAIN chain = 1 .. n /\ base \in RunAccs
  BY DEF RunAccs
<1>2. FoldLeft(AddCluster, base, chain) = iter[1 .. n]
  BY <1>1 DEF FoldLeft, MapThenFoldSet
<1>3. F \in [RunAccs \X (1 .. n) -> RunAccs]
  <2>1. \A k \in 1 .. n : chain[k] \in Cluster
    OBVIOUS
  <2>2. \A acc \in RunAccs : \A k \in 1 .. n : AddCluster(acc, chain[k]) \in RunAccs
    BY <2>1, AddClusterCovers
  <2> QED
    BY <2>2
<1>4. \A s \in RunAccs : \A k \in 1 .. n : F[<<s, k>>] = AddCluster(s, chain[k])
  OBVIOUS
<1> HIDE DEF F, n, base
<1>5. PICK h : FoldsUpTo(h, n, RunAccs, base, F)
  BY <1>1, <1>3, FoldExists
<1>6. PICK g : IsChain(g, n, RunAccs, base, F)
  BY <1>1, <1>3, ChainExists
<1>7. \A T \in SUBSET (1 .. n) : T # {} => Max(T) \in 1 .. n
  BY <1>1, MaxIsGreatest
<1>8. Iter(h)
  <2>1. ASSUME NEW T \in SUBSET (1 .. n)
        PROVE  h[T] = IF T = {} THEN base
                      ELSE AddCluster(h[T \ {Max(T)}], chain[Max(T)])
    <3>1. CASE T = {}
      BY <1>5, <3>1 DEF FoldsUpTo
    <3>2. CASE T # {}
      <4>1. T \ {Max(T)} \in SUBSET (1 .. n)
        OBVIOUS
      <4>2. h[T \ {Max(T)}] \in RunAccs
        BY <1>5, <4>1 DEF FoldsUpTo
      <4>3. h[T] = F[<<h[T \ {Max(T)}], Max(T)>>]
        BY <1>5, <3>2 DEF FoldsUpTo
      <4> QED
        BY <1>4, <1>7, <3>2, <4>2, <4>3
    <3> QED
      BY <3>1, <3>2
  <2>2. h = [T \in SUBSET (1 .. n) |-> h[T]]
    BY <1>5 DEF FoldsUpTo
  <2> QED
    BY <2>1, <2>2
<1>9. Iter(iter)
  <2> HIDE DEF Iter
  <2> QED
    BY <1>8
<1>10. \A T \in SUBSET (1 .. n) :
         iter[T] = IF T = {} THEN base
                   ELSE AddCluster(iter[T \ {Max(T)}], chain[Max(T)])
  <2> HIDE DEF iter
  <2> QED
    BY <1>9
<1> HIDE DEF iter, Iter
<1>11. iter[{}] = base
  BY <1>10
<1>12. FollowsFold(iter, n, RunAccs, base, F)
  BY <1>4, <1>7, <1>10, <1>11 DEF FollowsFold
<1>13. iter[1 .. n] = g[n]
  <2> DEFINE V == RunAccs
  <2>1. /\ n \in Nat /\ base \in V /\ IsChain(g, n, V, base, F)
        /\ FollowsFold(iter, n, V, base, F)
    BY <1>1, <1>6, <1>12
  <2> HIDE DEF V
  <2>2. \A j \in 0 .. n : iter[1 .. j] = g[j]
    BY <2>1, FoldFollows
  <2> QED
    BY <1>1, <2>2
<1>14. /\ g \in [0 .. n -> RunAccs] /\ g[0] = base
       /\ \A j \in 1 .. n : g[j] = F[<<g[j - 1], j>>]
  BY <1>6 DEF IsChain
<1>15. ASSUME NEW j \in 1 .. n
       PROVE  g[j] = AddCluster(g[j - 1], chain[j])
  <2>1. j - 1 \in 0 .. n
    BY <1>1
  <2> QED
    BY <1>4, <1>14, <2>1
<1>16. IsRunsChain(g, chain, total)
  BY <1>14, <1>15 DEF IsRunsChain, n, base
<1> QED
  BY <1>2, <1>13, <1>16 DEF n, base

\* The call that reads all of an extent.
WholeRead(chain, total) ==
  [op |-> "read_at", chain |-> chain, total |-> total, off |-> 0, len |-> total]

\* What lies within the clusters of a chain.
LEMMA DivBelow ==
  \A d \in Nat \ {0} : \A x, n \in Nat : (x \div d < n <=> x < d * n) /\ x \div d \in Nat
<1> SUFFICES ASSUME NEW d \in Nat \ {0}, NEW x \in Nat, NEW n \in Nat
             PROVE  (x \div d < n <=> x < d * n) /\ x \div d \in Nat
  OBVIOUS
<1> DEFINE q == x \div d
           r == x % d
<1>1. q \in Nat /\ r \in Nat /\ x = d * q + r /\ r < d
  OBVIOUS
<1> HIDE DEF q, r
<1>2. CASE q < n
  <2> DEFINE e == n - (q + 1)
  <2>1. e \in Nat /\ n = q + 1 + e
    BY <1>1, <1>2
  <2> HIDE DEF e
  <2>2. d * n = d * q + d + d * e /\ d * e \in Nat /\ d * q \in Nat
    BY <1>1, <2>1
  <2>3. x < d * n
    BY <1>1, <2>2
  <2> QED
    BY <1>1, <1>2, <2>3 DEF q
<1>3. CASE ~ (q < n)
  <2> DEFINE e == q - n
  <2>1. e \in Nat /\ q = n + e
    BY <1>1, <1>3
  <2> HIDE DEF e
  <2>2. d * q = d * n + d * e /\ d * e \in Nat /\ d * n \in Nat
    BY <1>1, <2>1
  <2>3. ~ (x < d * n)
    BY <1>1, <2>2
  <2> QED
    BY <1>1, <1>3, <2>3 DEF q
<1> QED
  BY <1>2, <1>3

\* The runs of a chain cover the data of its clusters, position by position.
LEMMA RunsCover ==
  ASSUME NEW chain \in Seq(Cluster), NEW total \in Nat, NEW g, IsRunsChain(g, chain, total)
  PROVE  LET bytes == RunBytes(g[Len(chain)].runs)
         IN  /\ bytes \in Seq(Nat)
             /\ Len(bytes) = LesserOf(total, ClusterSize * Len(chain))
             /\ \A k \in 1 .. Len(bytes) : bytes[k] = Loc(WholeRead(chain, total), k - 1)
<1> DEFINE n == Len(chain)
           c == WholeRead(chain, total)
           D == ClusterSize
           B(j) == RunBytes(g[j].runs)
           Here(j) == /\ B(j) \in Seq(Nat)
                      /\ Len(B(j)) = LesserOf(total, D * j)
                      /\ g[j].remaining = total - Len(B(j))
                      /\ \A k \in 1 .. Len(B(j)) : B(j)[k] = Loc(c, k - 1)
           S == { j \in Nat : j <= n => Here(j) }
<1>1. n \in Nat /\ D \in Nat \ {0}
  BY ReadAssumption
<1>2. /\ g \in [0 .. n -> RunAccs] /\ g[0] = [remaining |-> total, runs |-> <<>>]
      /\ \A j \in 1 .. n : g[j] = AddCluster(g[j - 1], chain[j])
  BY DEF IsRunsChain
<1>3. 0 \in S
  <2>1. B(0) = <<>>
    <3>1. g[0].runs = <<>>
      BY <1>2
    <3>2. RunBytes(<<>>) = <<>>
      BY DEF RunBytes, FlattenSeq
    <3> QED
      BY <3>1, <3>2
  <2>2. D * 0 = 0 /\ LesserOf(total, 0) = 0
    BY <1>1 DEF LesserOf
  <2>3. g[0].remaining = total
    BY <1>2
  <2> DEFINE b == B(0)
  <2>4. b \in Seq(Nat) /\ Len(b) = 0 /\ total - 0 = total
    BY <2>1
  <2>5. Len(b) = LesserOf(total, D * 0)
    BY <2>2, <2>4
  <2> HIDE DEF b, c, D
  <2>6. \A k \in 1 .. Len(b) : b[k] = Loc(c, k - 1)
    BY <2>4
  <2>7. g[0].remaining = total - Len(b)
    BY <2>3, <2>4
  <2>8. Here(0)
    BY <2>4, <2>5, <2>6, <2>7 DEF b
  <2> HIDE DEF Here
  <2> QED
    BY <2>8
<1>4. ASSUME NEW j \in Nat, j \in S
      PROVE  j + 1 \in S
  <2>1. ASSUME j + 1 <= n
        PROVE  Here(j + 1)
    <3>1. /\ j + 1 \in 1 .. n /\ (j + 1) - 1 = j /\ j \in 0 .. n /\ j <= n
          /\ chain[j + 1] \in Cluster
      BY <1>1, <2>1
    <3>2. Here(j)
      BY <1>4, <3>1
    <3> DEFINE acc == g[j]
               l == LesserOf(D, acc.remaining)
               off == cluster_offset(chain[j + 1])
               p == D * j
    <3>3. acc \in RunAccs /\ g[j + 1] = AddCluster(acc, chain[j + 1])
      BY <1>2, <3>1
    <3>4. /\ l \in Nat /\ l <= acc.remaining
          /\ g[j + 1].remaining = acc.remaining - l
          /\ B(j + 1) = B(j) \o Span(off, l)
      <4> DEFINE next == chain[j + 1]
      <4>1. next \in Cluster /\ g[j + 1] = AddCluster(acc, next) /\ off = cluster_offset(next)
        BY <3>1, <3>3
      <4>2. acc \in RunAccs /\ l = LesserOf(ClusterSize, acc.remaining)
        BY <3>3
      <4> HIDE DEF next, acc, l, off
      <4>3. /\ l \in Nat /\ l <= acc.remaining
            /\ AddCluster(acc, next).remaining = acc.remaining - l
            /\ RunBytes(AddCluster(acc, next).runs)
                 = RunBytes(acc.runs) \o Span(cluster_offset(next), l)
        BY <4>1, <4>2, AddClusterCovers
      <4> QED
        BY <4>1, <4>3 DEF acc
    <3>5. off \in Nat /\ Span(off, l) \in Seq(Nat) /\ Len(Span(off, l)) = l
      BY <3>1, <3>4, OffsetIsNat, SpanType
    <3>6. p \in Nat /\ D * (j + 1) = p + D
      BY <1>1
    <3>7. acc.remaining \in Nat /\ acc.remaining = total - Len(B(j))
      BY <3>2, <3>3 DEF RunAccs
    <3>8. /\ Len(B(j)) = LesserOf(total, p) /\ Len(B(j)) \in Nat
          /\ l > 0 => Len(B(j)) = p /\ l <= D
          /\ LesserOf(total, p + D) = Len(B(j)) + l
      <4>1. Len(B(j)) = LesserOf(total, p)
        BY <3>2
      <4> DEFINE m == Len(B(j))
                 rest == acc.remaining
      <4>2. m = LesserOf(total, p) /\ rest = total - m /\ l = LesserOf(D, rest)
        BY <3>7, <4>1
      <4> HIDE DEF m, rest, l, p
      <4>3. /\ m \in Nat /\ l > 0 => m = p /\ l <= D
            /\ LesserOf(total, p + D) = m + l
        BY <1>1, <3>6, <4>2 DEF LesserOf
      <4> QED
        BY <4>1, <4>3 DEF m
    <3>9. /\ B(j + 1) \in Seq(Nat) /\ Len(B(j + 1)) = Len(B(j)) + l
          /\ \A k \in 1 .. Len(B(j)) : B(j + 1)[k] = B(j)[k]
          /\ \A k \in 1 .. l : B(j + 1)[Len(B(j)) + k] = Span(off, l)[k]
      <4> DEFINE s == B(j)
                 t == Span(off, l)
      <4>1. s \in Seq(Nat) /\ t \in Seq(Nat) /\ Len(t) = l /\ B(j + 1) = s \o t
        BY <3>2, <3>4, <3>5
      <4> HIDE DEF s, t, B, l, off
      <4>2. /\ s \o t \in Seq(Nat) /\ Len(s \o t) = Len(s) + Len(t)
            /\ \A k \in 1 .. Len(s) : (s \o t)[k] = s[k]
            /\ \A k \in 1 .. Len(t) : (s \o t)[Len(s) + k] = t[k]
        BY <4>1, ConcatParts
      <4> QED
        BY <4>1, <4>2 DEF s, t
    <3>10. ASSUME NEW i \in 1 .. l
           PROVE  B(j + 1)[Len(B(j)) + i] = Loc(c, (Len(B(j)) + i) - 1)
      <4>1. l > 0 /\ i - 1 \in Nat /\ i - 1 < D /\ Len(B(j)) = p
        BY <1>1, <3>4, <3>8
      <4>2. (D * j + (i - 1)) \div D = j /\ (D * j + (i - 1)) % D = i - 1
        BY <1>1, <4>1, PartsAreUnique
      <4>3. (p + i) - 1 = D * j + (i - 1)
        BY <3>6, <4>1
      <4> DEFINE x == D * j + (i - 1)
      <4>4. x \div D = j /\ x % D = i - 1 /\ (Len(B(j)) + i) - 1 = x
        BY <4>1, <4>2, <4>3
      <4> HIDE DEF x
      <4>5. Loc(c, x) = off + (i - 1)
        BY <4>4 DEF Loc, WholeRead
      <4>6. Span(off, l)[i] = off + i - 1
        BY DEF Span
      <4>7. B(j + 1)[Len(B(j)) + i] = Span(off, l)[i]
        BY <3>9
      <4> QED
        BY <3>5, <4>1, <4>4, <4>5, <4>6, <4>7
    <3> HIDE DEF l, off, p, acc, c, B, D
    <3>11. ASSUME NEW k \in 1 .. Len(B(j + 1))
           PROVE  B(j + 1)[k] = Loc(c, k - 1)
      <4>1. CASE k <= Len(B(j))
        <5>1. k \in 1 .. Len(B(j))
          BY <3>8, <4>1
        <5> QED
          BY <3>2, <3>9, <5>1
      <4>2. CASE k > Len(B(j))
        <5> DEFINE i == k - Len(B(j))
        <5>1. i \in 1 .. l /\ Len(B(j)) + i = k
          <6> DEFINE m == Len(B(j))
                     w == Len(B(j + 1))
          <6>1. m \in Nat /\ l \in Nat /\ w = m + l /\ k \in 1 .. w /\ k > m
            BY <3>4, <3>8, <3>9, <4>2
          <6> HIDE DEF m, w
          <6>2. k - m \in 1 .. l /\ m + (k - m) = k
            BY <6>1
          <6> QED
            BY <6>2 DEF m
        <5> HIDE DEF i
        <5>2. B(j + 1)[Len(B(j)) + i] = Loc(c, (Len(B(j)) + i) - 1)
          BY <3>10, <5>1
        <5> QED
          BY <5>1, <5>2
      <4> QED
        BY <3>8, <4>1, <4>2
    <3>12. Len(B(j + 1)) = LesserOf(total, D * (j + 1))
      BY <3>6, <3>8, <3>9
    <3>13. g[j + 1].remaining = total - Len(B(j + 1))
      BY <3>4, <3>7, <3>8, <3>9 DEF acc
    <3> QED
      BY <3>9, <3>11, <3>12, <3>13, SMTT(60)
  <2> HIDE DEF Here
  <2> QED
    BY <2>1
<1> HIDE DEF S
<1>5. Nat \subseteq S
  BY <1>3, <1>4, NatInduct
<1>6. Here(n)
  <2> HIDE DEF Here
  <2> QED
    BY <1>1, <1>5 DEF S
<1> QED
  BY <1>6

\* read_at of the whole stops where the data, the chain or the image ends.
LEMMA WholeReadStops ==
  ASSUME NEW extent, NEW chain \in Seq(Cluster), NEW total \in Nat,
         extent.chain = chain, extent.total = total
  PROVE  \E n \in 0 .. total :
           LET c == WholeRead(chain, total)
               covered == LesserOf(total, ClusterSize * Len(chain))
           IN  /\ read_at(extent, 0, total) = [k \in 1 .. n |-> Loc(c, k - 1)]
               /\ n <= covered
               /\ n < covered => Loc(c, n) >= ImageLen
<1> DEFINE c == WholeRead(chain, total)
           there(p) == /\ p < End(c) /\ p \div ClusterSize < Len(c.chain)
                       /\ Loc(c, p) < ImageLen
           Stops(m) == /\ \A k \in 0 .. m - 1 : there(0 + k)
                       /\ m < total => ~there(0 + m)
           covered == LesserOf(total, ClusterSize * Len(chain))
           T == { m \in Nat : m <= total /\ (m < total => ~there(m)) }
           n == CHOOSE m \in 0 .. total : Stops(m)
<1>1. /\ ClusterSize \in Nat \ {0} /\ ImageLen \in Nat /\ Len(chain) \in Nat
      /\ c.chain = chain /\ End(c) = total
  BY ReadAssumption DEF WholeRead, End, LesserOf
<1>2. read_at(extent, 0, total) = [k \in 1 .. n |-> Loc(c, 0 + k - 1)]
  BY DEF read_at, WholeRead
<1>3. ASSUME NEW p \in Nat
      PROVE  /\ p \div ClusterSize < Len(chain) <=> p < ClusterSize * Len(chain)
             /\ p < ClusterSize * Len(chain) => Loc(c, p) \in Nat
  <2>1. /\ p \div ClusterSize < Len(chain) <=> p < ClusterSize * Len(chain)
        /\ p \div ClusterSize \in Nat
    BY <1>1, DivBelow
  <2> DEFINE q == p \div ClusterSize
             r == p % ClusterSize
  <2>2. ASSUME p < ClusterSize * Len(chain)
        PROVE  Loc(c, p) \in Nat
    <3>1. q \in Nat /\ q < Len(chain) /\ r \in Nat
      BY <1>1, <2>1, <2>2
    <3> HIDE DEF q, r
    <3>2. q + 1 \in 1 .. Len(chain)
      BY <1>1, <3>1
    <3>3. chain[q + 1] \in Cluster
      BY <3>2
    <3>4. cluster_offset(chain[q + 1]) \in Nat
      BY <3>3, OffsetIsNat
    <3>5. Loc(c, p) = cluster_offset(chain[q + 1]) + r
      BY <1>1 DEF Loc, q, r
    <3> QED
      BY <3>1, <3>4, <3>5
  <2> QED
    BY <2>1, <2>2
<1>4. ASSUME NEW p \in Nat
      PROVE  there(p) <=> p < covered /\ Loc(c, p) < ImageLen
  <2>1. covered = LesserOf(total, ClusterSize * Len(chain)) /\ ClusterSize * Len(chain) \in Nat
    BY <1>1
  <2>2. p < covered <=> p < total /\ p < ClusterSize * Len(chain)
    BY <2>1 DEF LesserOf
  <2> QED
    BY <1>1, <1>3, <2>2
<1>5. \A k \in Nat : 0 + k = k
  OBVIOUS
<1> HIDE DEF there
<1>6. Stops(n) /\ n \in 0 .. total
  <2>1. T \in SUBSET Nat /\ total \in T
    OBVIOUS
  <2>2. PICK m \in T : \A y \in T : m <= y
    <3> HIDE DEF T
    <3> QED
      BY <2>1, Least
  <2>3. m \in 0 .. total /\ (m < total => ~there(m))
    OBVIOUS
  <2>4. ASSUME NEW k \in 0 .. m - 1
        PROVE  there(k)
    <3>1. k \in Nat /\ k < m /\ k < total
      BY <2>3
    <3>2. k \notin T
      <4> HIDE DEF T
      <4> QED
        BY <2>1, <2>2, <3>1
    <3> QED
      BY <3>1, <3>2
  <2>5. Stops(m)
    BY <1>5, <2>3, <2>4
  <2> HIDE DEF Stops
  <2> QED
    BY <2>3, <2>5
<1>7. /\ n \in 0 .. total
      /\ \A k \in 0 .. n - 1 : there(k)
      /\ n < total => ~there(n)
  BY <1>5, <1>6
<1> HIDE DEF n
<1>8. covered \in Nat /\ covered <= total
  <2>1. ClusterSize * Len(chain) \in Nat
    BY <1>1
  <2> QED
    BY <2>1 DEF LesserOf
<1>9. n <= covered
  <2>1. CASE n = 0
    BY <1>8, <2>1
  <2>2. CASE n > 0
    <3>1. n - 1 \in 0 .. n - 1 /\ n - 1 \in Nat
      BY <1>7, <2>2
    <3>2. there(n - 1)
      BY <1>7, <3>1
    <3>3. n - 1 < covered
      BY <1>4, <3>1, <3>2
    <3> QED
      BY <1>7, <1>8, <3>3
  <2> QED
    BY <1>7, <2>1, <2>2
<1>10. n < covered => Loc(c, n) >= ImageLen
  <2> SUFFICES ASSUME n < covered
               PROVE  Loc(c, n) >= ImageLen
    OBVIOUS
  <2>1. n \in Nat /\ ~there(n)
    BY <1>7, <1>8
  <2>2. ~ (Loc(c, n) < ImageLen)
    BY <1>4, <2>1
  <2>3. n < ClusterSize * Len(chain)
    <3>1. ClusterSize * Len(chain) \in Nat
      BY <1>1
    <3> QED
      BY <2>1, <3>1 DEF LesserOf
  <2>4. Loc(c, n) \in Nat
    BY <1>3, <2>1, <2>3
  <2> QED
    BY <1>1, <2>2, <2>4
<1>11. read_at(extent, 0, total) = [k \in 1 .. n |-> Loc(c, k - 1)]
  <2>1. \A k \in 1 .. n : 0 + k - 1 = k - 1
    BY <1>7
  <2> QED
    BY <1>2, <2>1 DEF n
<1> QED
  BY <1>7, <1>9, <1>10, <1>11

\* The extent of a node is of clusters.
LEMMA ExtentLists ==
  ASSUME NEW v \in Volume, NEW id \in FileId,
         data_extent(v, id) # Err, data_extent(v, id).chain # <<>>
  PROVE  data_extent(v, id).chain \in Seq(Cluster) /\ data_extent(v, id).total \in Nat
<1> DEFINE found == IF id = Root THEN dir_source(v, Root) ELSE resolve_entry(v, id)
           first == found.first_cluster
           size == found.size
           contiguous == found.contiguous
           chain == clusters(v, first, size, contiguous)
<1>1. ~ (id = Root /\ ~root_is_clustered(v))
  BY DEF data_extent
<1>2. data_extent(v, id) = ExtentOf(v, found)
  BY <1>1 DEF data_extent
<1>3. found # Err
  BY <1>2 DEF ExtentOf
<1>4. first \in 0 .. FIXED_ROOT /\ size \in Nat /\ contiguous \in BOOLEAN
  <2>1. CASE id = Root
    <3>1. found = Chain(v.root_cluster, 0, FALSE)
      BY <1>1, <2>1 DEF dir_source
    <3>2. v.root_cluster \in 0 .. FIXED_ROOT
      BY VolumeFields
    <3> HIDE DEF found
    <3>3. first = v.root_cluster /\ size = 0
      BY <3>1 DEF Chain
    <3>4. contiguous \in BOOLEAN
      BY <3>1, Zenon DEF Chain
    <3> QED
      BY <3>2, <3>3, <3>4
  <2>2. CASE id # Root
    <3>1. found = resolve_entry(v, id) /\ id \in EntryId
      BY <2>2 DEF FileId
    <3>2. found \in Node
      BY <1>3, <3>1, ResolvedHasId
    <3> QED
      BY <3>2 DEF Node
  <2> QED
    BY <2>1, <2>2
<1>5. ExtentOf(v, found) = extent_of(v, first, size, contiguous)
  BY <1>3 DEF ExtentOf
<1> HIDE DEF first, size, contiguous
<1>6. chain \in Seq(Cluster)
  BY <1>4, ClustersLists
<1>7. extent_of(v, first, size, contiguous)
        = [chain |-> chain,
           total |-> IF size > 0 THEN size ELSE Len(chain) * ClusterSize]
  BY DEF extent_of
<1> HIDE DEF chain
<1>8. Len(chain) * ClusterSize \in Nat
  BY <1>6, ReadAssumption
<1> QED
  BY <1>2, <1>4, <1>5, <1>6, <1>7, <1>8

\* For every volume: extents and read_at say the same of where the data of a
\* node is (fs.rs, runs and read_at; vfs.rs, extents and read_at).
THEOREM RunsAreRead == NavSpec => []RunsAreWhatIsRead
<1>1. NavInv => RunsAreWhatIsRead
  <2> DEFINE extent == data_extent(vol, node.id)
             chain == extent.chain
             total == extent.total
             ino == to_vfs_id(node.id)
             bytes == RunBytes(vfs_extents(vol, ino).runs)
             read == vfs_read_at(vol, ino, 0, extent.total).bytes
             c == WholeRead(chain, total)
             covered == LesserOf(total, ClusterSize * Len(chain))
  <2> SUFFICES ASSUME NavInv, extent # Err, chain # <<>>
               PROVE  /\ IsPrefix(read, bytes)
                      /\ Len(read) < Len(bytes) => bytes[Len(read) + 1] >= ImageLen
    BY DEF RunsAreWhatIsRead
  <2>1. vol \in Volume /\ node.id \in FileId /\ Placed(node)
    BY NodeIds DEF NavInv, NavTypeOK
  <2>2. from_vfs_id(ino) = node.id
    <3>1. node.id # Root => node.id.dir_cluster >= 2
      BY <2>1 DEF Placed
    <3> QED
      BY <2>1, <3>1, VfsIdComesBack
  <2>3. chain \in Seq(Cluster) /\ total \in Nat
    BY <2>1, ExtentLists
  <2>4. vfs_extents(vol, ino).runs = runs(vol, extent)
    BY <2>2 DEF vfs_extents
  <2>5. read = read_at(extent, 0, total)
    BY <2>2 DEF vfs_read_at
  <2>6. runs(vol, extent)
          = FoldLeft(AddCluster, [remaining |-> total, runs |-> <<>>], chain).runs
    BY DEF runs
  <2>7. PICK g : /\ IsRunsChain(g, chain, total)
                 /\ FoldLeft(AddCluster, [remaining |-> total, runs |-> <<>>], chain)
                      = g[Len(chain)]
    <3> HIDE DEF chain, total
    <3> QED
      BY <2>3, RunsChainExists
  <2>8. bytes = RunBytes(g[Len(chain)].runs)
    BY <2>4, <2>6, <2>7
  <2> HIDE DEF chain, total, bytes, read, ino
  <2>9. /\ bytes \in Seq(Nat) /\ Len(bytes) = covered
        /\ \A k \in 1 .. Len(bytes) : bytes[k] = Loc(c, k - 1)
    BY <2>3, <2>7, <2>8, RunsCover
  <2>10. PICK n \in 0 .. total :
           /\ read = [k \in 1 .. n |-> Loc(c, k - 1)]
           /\ n <= covered
           /\ n < covered => Loc(c, n) >= ImageLen
    <3>1. extent.chain = chain /\ extent.total = total
      BY DEF chain, total
    <3> HIDE DEF extent
    <3> QED
      BY <2>3, <2>5, <3>1, WholeReadStops, SMTT(60)
  <2> HIDE DEF c, covered, extent
  <2>11. n \in Nat /\ Len(read) = n /\ covered \in Nat
    BY <2>3, <2>9, <2>10
  <2>12. \A k \in 1 .. n : k \in 1 .. Len(bytes) /\ read[k] = bytes[k]
    BY <2>9, <2>10, <2>11
  <2>13. IsPrefix(read, bytes)
    <3>1. SubSeq(read, 1, n) = [k \in 1 .. n |-> read[k]]
      BY <2>10, <2>11
    <3>2. SubSeq(bytes, 1, n) = [k \in 1 .. n |-> bytes[k]]
      BY <2>9, <2>10, <2>11
    <3>3. SubSeq(read, 1, n) = SubSeq(bytes, 1, n)
      BY <2>12, <3>1, <3>2
    <3>4. Len(read) <= Len(bytes)
      BY <2>9, <2>10, <2>11
    <3> QED
      BY <2>11, <3>3, <3>4 DEF IsPrefix
  <2>14. Len(read) < Len(bytes) => bytes[Len(read) + 1] >= ImageLen
    <3> SUFFICES ASSUME n < covered
                 PROVE  bytes[n + 1] >= ImageLen
      BY <2>9, <2>11
    <3>1. n + 1 \in 1 .. Len(bytes) /\ (n + 1) - 1 = n
      BY <2>9, <2>11
    <3>2. bytes[n + 1] = Loc(c, (n + 1) - 1)
      BY <2>9, <3>1
    <3> QED
      BY <2>10, <3>1, <3>2
  <2> QED
    BY <2>13, <2>14
<1> QED
  BY <1>1, NavInvAlways, PTL

-----------------------------------------------------------------------------
\* The walk of the audit.  A directory is named by the marker it is listed with.
MarkerOf(v) == source_marker(dir_source(v, Root))
Under(v, c) == Range(entries_under(v, c))

\* What lies under a marker.
LEMMA UnderIsNode ==
  ASSUME NEW v \in Volume, NEW c \in 0 .. FIXED_ROOT, NEW n \in Under(v, c)
  PROVE  /\ n \in Node /\ n.id \in EntryId /\ n.id.dir_cluster = c
         /\ n.id.index < MaxIndex => resolve_entry(v, n.id) = n
<1> DEFINE nodes == entries_under(v, c)
<1>1. IsListing(nodes, v, c)
  BY UnderIsListing
<1>2. n \in Range(nodes)
  BY DEF Under
<1>3. nodes = entries_under(v, c)
  OBVIOUS
<1> HIDE DEF nodes
<1>4. nodes \in Seq(Node) /\ Len(nodes) \in Nat /\ DOMAIN nodes = 1 .. Len(nodes)
  BY <1>1 DEF IsListing
<1>5. PICK k \in 1 .. Len(nodes) : n = nodes[k]
  BY <1>2, <1>4 DEF Range
<1>6. n \in Node /\ n.id = Entry(c, n.id.index) /\ n.id.index \in 0 .. MaxIndex
  BY <1>1, <1>4, <1>5 DEF IsListing
<1>7. n.id \in EntryId /\ n.id.dir_cluster = c
  <2>1. Entry(c, n.id.index) \in EntryId
    BY <1>6 DEF Entry, EntryId
  <2> QED
    BY <1>6, <2>1, Shapes
<1>8. ASSUME n.id.index < MaxIndex
      PROVE  resolve_entry(v, n.id) = n
  <2> DEFINE S == { i \in DOMAIN nodes : nodes[i].id.index = n.id.index }
  <2>1. S = {k}
    <3>1. k \in S
      BY <1>4, <1>5
    <3>2. \A i \in 1 .. Len(nodes) : nodes[i].id.index = n.id.index => i = k
      BY <1>1, <1>5, <1>8 DEF IsListing
    <3> QED
      BY <1>4, <3>1, <3>2
  <2>2. resolve_entry(v, n.id) = FirstOf(nodes, S)
    BY <1>3, <1>7 DEF resolve_entry
  <2> HIDE DEF S
  <2>3. FirstOf(nodes, S) = nodes[k]
    <3>1. S \in SUBSET (1 .. Len(nodes)) /\ S # {}
      BY <2>1
    <3>2. Min(S) \in S /\ FirstOf(nodes, S) = nodes[Min(S)]
      BY <1>4, <3>1, FirstIsThere
    <3> QED
      BY <2>1, <3>2
  <2> QED
    BY <1>5, <2>2, <2>3
<1> QED
  BY <1>6, <1>7, <1>8

\* The root is listed as it is read from below.
LEMMA RootListing ==
  ASSUME NEW v \in Volume
  PROVE  LET nodes == read_dir(v, Root).nodes
         IN  /\ MarkerOf(v) \in 0 .. FIXED_ROOT
             /\ read_dir(v, Root) # Err
             /\ nodes = entries_under(v, MarkerOf(v))
<1>1. read_dir(v, Root) # Err
  BY Shapes DEF read_dir, Listing, dir_source
<1>2. Root \in FileId
  BY DEF FileId
<1> DEFINE nodes == read_dir(v, Root).nodes
           m == MarkerOf(v)
<1>3. /\ m \in 0 .. FIXED_ROOT
      /\ m = FIXED_ROOT /\ root_is_clustered(v) => nodes = <<>>
      /\ ReadAlike(v, meta(v, Root)) =>
           entries_under(v, m) = nodes \/ (m = FIXED_ROOT /\ nodes = <<>>)
  BY <1>1, <1>2, DirUnder DEF MarkerOf
<1>4. ReadAlike(v, meta(v, Root))
  BY DEF ReadAlike, meta, root_node, clusters
<1>5. root_is_clustered(v) => entries_under(v, FIXED_ROOT) = <<>>
  <2>1. root_is_clustered(v) => read_dir_bytes(v, FixedRoot) = <<>>
    BY SlotsRead
  <2>2. FIXED_ROOT \in 0 .. FIXED_ROOT /\ read_dir_bytes(v, FixedRoot) \in Seq(Slot)
    BY MarkerIsNat, SlotsRead
  <2> QED
    BY <2>1, <2>2, NodesAreListed DEF entries_under
<1>6. ~root_is_clustered(v) => entries_under(v, m) = nodes
  <2>1. ASSUME ~root_is_clustered(v)
        PROVE  entries_under(v, m) = nodes
    <3>1. dir_source(v, Root) = FixedRoot
      BY <2>1 DEF dir_source
    <3>2. m = FIXED_ROOT
      BY <3>1 DEF MarkerOf, source_marker, FixedRoot
    <3>3. read_dir(v, Root) = [nodes |-> list_nodes(v, read_dir_bytes(v, FixedRoot), FIXED_ROOT)]
      BY <1>1, <3>1, <3>2 DEF read_dir, Listing, MarkerOf
    <3> QED
      BY <3>2, <3>3 DEF entries_under
  <2> QED
    BY <2>1
<1> HIDE DEF nodes, m
<1>7. nodes = entries_under(v, m)
  BY <1>3, <1>4, <1>5, <1>6
<1> QED
  BY <1>1, <1>3, <1>7 DEF nodes, m

\* The fixed root is the root of a volume that has one, and else empty.
LEMMA UnderFixedRoot ==
  ASSUME NEW v \in Volume
  PROVE  Under(v, FIXED_ROOT) = {} \/ MarkerOf(v) = FIXED_ROOT
<1>1. CASE root_is_clustered(v)
  <2>1. read_dir_bytes(v, FixedRoot) = <<>>
    BY <1>1, SlotsRead
  <2>2. FIXED_ROOT \in 0 .. FIXED_ROOT /\ read_dir_bytes(v, FixedRoot) \in Seq(Slot)
    BY MarkerIsNat, SlotsRead
  <2>3. entries_under(v, FIXED_ROOT) = <<>>
    BY <2>1, <2>2, NodesAreListed DEF entries_under
  <2>4. Range(<<>>) = {}
    BY DEF Range
  <2> QED
    BY <2>3, <2>4 DEF Under
<1>2. CASE ~root_is_clustered(v)
  <2>1. dir_source(v, Root) = FixedRoot
    BY <1>2 DEF dir_source
  <2> QED
    BY <2>1 DEF MarkerOf, source_marker, FixedRoot
<1> QED
  BY <1>1, <1>2

\* A live directory that is found is listed as it is read from below.
LEMMA ChildListing ==
  ASSUME NEW v \in Volume, NEW c \in 0 .. FIXED_ROOT, NEW n \in Under(v, c),
         ReadAlike(v, n), n.id.index < MaxIndex, read_dir(v, n.id) # Err
  PROVE  LET nodes == read_dir(v, n.id).nodes
         IN  /\ n.first_cluster \in 0 .. FIXED_ROOT
             /\ IsListing(nodes, v, n.first_cluster)
             /\ n.first_cluster = FIXED_ROOT => nodes = <<>>
             /\ n.first_cluster # FIXED_ROOT => nodes = entries_under(v, n.first_cluster)
<1>1. n \in Node /\ n.id \in EntryId /\ resolve_entry(v, n.id) = n
  BY UnderIsNode
<1>2. n.id # Root /\ n.id \in FileId /\ n # Err
  BY <1>1, Shapes DEF FileId
<1>3. meta(v, n.id) = n
  BY <1>1, <1>2 DEF meta
<1>4. source_marker(dir_source(v, n.id)) = n.first_cluster
  <2>1. dir_source(v, n.id) = SourceOf(n)
    BY <1>1, <1>2 DEF dir_source
  <2>2. SourceOf(n) # Err
    BY <2>1 DEF read_dir, Listing
  <2>3. SourceOf(n) = Chain(n.first_cluster, n.size, n.contiguous)
    BY <2>2 DEF SourceOf
  <2> QED
    BY <2>1, <2>3 DEF source_marker, Chain
<1> DEFINE nodes == read_dir(v, n.id).nodes
           m == source_marker(dir_source(v, n.id))
<1>5. /\ m \in 0 .. FIXED_ROOT /\ IsListing(nodes, v, m)
      /\ m = FIXED_ROOT => nodes = <<>>
      /\ entries_under(v, m) = nodes \/ (m = FIXED_ROOT /\ nodes = <<>>)
  BY <1>2, <1>3, DirUnder
<1> HIDE DEF nodes
<1> QED
  BY <1>4, <1>5 DEF nodes

-----------------------------------------------------------------------------
\* What a walk keeps to, of the stack `st` of frames, the directories `se` seen
\* and the anomalies `o` of a volume v.
IsReport(a) == a.kind = "DeletedDirectoryEntry"

\* The rest of the listing of directory c.
IsFrame(v, s, c) == IsListing(s, v, c) /\ Range(s) \subseteq Under(v, c)

\* The directories that frame f can be of: the first is the root's, pushed when
\* the volume was opened, the others were seen before they were pushed.
Met(v, se, f) == IF f = 1 THEN {MarkerOf(v)} ELSE se

FramesOK(v, st, se) ==
  /\ st \in Seq(Seq(Node))
  /\ \A f \in 1 .. Len(st) : \E c \in Met(v, se, f) : IsFrame(v, st[f], c)
  /\ \A f, g \in 2 .. Len(st) : \A a \in Range(st[f]), b \in Range(st[g]) :
       a.id.dir_cluster = b.id.dir_cluster => f = g
  /\ \A f \in 2 .. Len(st) : \A a \in Range(st[f]) : a.id.dir_cluster # FIXED_ROOT

\* A report comes from the first frame (R) or from another; no two of the one
\* kind are of one entry, and what is reported is not in a frame of that kind.
OutMarked(v, o, st, se, R) ==
  /\ R \subseteq 1 .. Len(o)
  /\ \A k \in 1 .. Len(o) : IsReport(o[k]) =>
       /\ k \in R => o[k].id.dir_cluster = MarkerOf(v)
       /\ k \notin R => o[k].id.dir_cluster \in se \ {FIXED_ROOT}
  /\ \A k, l \in 1 .. Len(o) :
       /\ IsReport(o[k]) /\ o[k].id.index < MaxIndex
       /\ o[k] = o[l] /\ (k \in R <=> l \in R)
       => k = l
  /\ \A k \in 1 .. Len(o) : IsReport(o[k]) /\ o[k].id.index < MaxIndex =>
       \A f \in 1 .. Len(st) : (k \in R <=> f = 1) =>
         \A n \in Range(st[f]) : n.id # o[k].id

\* Frames that hold less than others.
Smaller(v, small, st) ==
  /\ small \in Seq(Seq(Node)) /\ Len(small) <= Len(st)
  /\ \A f \in 1 .. Len(small) :
       /\ Range(small[f]) \subseteq Range(st[f])
       /\ \A c \in 0 .. FIXED_ROOT : IsListing(st[f], v, c) => IsListing(small[f], v, c)

\* The frames but for the last.
LEMMA FrontIs ==
  ASSUME NEW st \in Seq(Seq(Node)), st # <<>>
  PROVE  /\ Front(st) \in Seq(Seq(Node)) /\ Len(Front(st)) = Len(st) - 1
         /\ \A f \in 1 .. Len(st) - 1 : Front(st)[f] = st[f]
<1> DEFINE T == Seq(Node)
           n == Len(st)
<1>1. st \in Seq(T) /\ n \in Nat /\ n > 0
  BY EmptySeq
<1>2. Front(st) = SubSeq(st, 1, n - 1)
  BY DEF Front
<1> HIDE DEF n, T
<1>3. n - 1 \in Nat /\ n - 1 <= Len(st) /\ \A f \in 1 .. n - 1 : st[f] \in T
  BY <1>1 DEF n
<1> DEFINE front == [f \in 1 .. n - 1 |-> st[f]]
<1>4. SubSeq(st, 1, n - 1) = front
  BY <1>1, <1>3
<1>5. front \in Seq(T) /\ Len(front) = n - 1
  BY <1>3
<1> QED
  BY <1>2, <1>4, <1>5 DEF n, T

\* A frame more; any sequence and an element more.
IsPush(Frame, below, top, pushed) ==
  below \in Seq(Frame) /\ top \in Frame /\ pushed = Append(below, top)

\* What it leaves as it was.
LEMMA PushedIs ==
  ASSUME NEW Frame, NEW below, NEW top, NEW pushed, IsPush(Frame, below, top, pushed)
  PROVE  /\ pushed \in Seq(Frame) /\ Len(pushed) = Len(below) + 1 /\ Len(below) \in Nat
         /\ pushed[Len(below) + 1] = top
         /\ \A f \in 1 .. Len(below) : pushed[f] = below[f]
BY AppendProperties DEF IsPush

\* Frames that hold less are as good.
LEMMA FramesShrink ==
  ASSUME NEW v \in Volume, NEW st, NEW se \in SUBSET (0 .. FIXED_ROOT), FramesOK(v, st, se),
         NEW small, Smaller(v, small, st)
  PROVE  FramesOK(v, small, se)
<1>1. /\ st \in Seq(Seq(Node)) /\ Len(st) \in Nat
      /\ small \in Seq(Seq(Node)) /\ Len(small) \in Nat /\ Len(small) <= Len(st)
  BY DEF FramesOK, Smaller
<1>2. /\ \A f \in 1 .. Len(small) : f \in 1 .. Len(st)
      /\ \A f \in 2 .. Len(small) : f \in 2 .. Len(st) /\ f \in 1 .. Len(small)
  BY <1>1
<1>3. \A f \in 1 .. Len(small) : Range(small[f]) \subseteq Range(st[f])
  BY DEF Smaller
<1>4. ASSUME NEW f \in 1 .. Len(small)
      PROVE  \E c \in Met(v, se, f) : IsFrame(v, small[f], c)
  <2>1. PICK c \in Met(v, se, f) : IsFrame(v, st[f], c)
    BY <1>2 DEF FramesOK
  <2>2. c \in 0 .. FIXED_ROOT
    BY RootListing DEF Met
  <2> QED
    BY <1>3, <2>1, <2>2 DEF IsFrame, Smaller
<1>5. \A f, g \in 2 .. Len(small) : \A a \in Range(small[f]), b \in Range(small[g]) :
        a.id.dir_cluster = b.id.dir_cluster => f = g
  <2> SUFFICES ASSUME NEW f \in 2 .. Len(small), NEW g \in 2 .. Len(small),
                      NEW a \in Range(small[f]), NEW b \in Range(small[g]),
                      a.id.dir_cluster = b.id.dir_cluster
               PROVE  f = g
    OBVIOUS
  <2>1. /\ f \in 2 .. Len(st) /\ f \in 1 .. Len(small)
        /\ g \in 2 .. Len(st) /\ g \in 1 .. Len(small)
    BY <1>2
  <2>2. a \in Range(st[f]) /\ b \in Range(st[g])
    BY <1>3, <2>1
  <2> QED
    BY <2>1, <2>2 DEF FramesOK
<1>6. \A f \in 2 .. Len(small) : \A a \in Range(small[f]) : a.id.dir_cluster # FIXED_ROOT
  BY <1>2, <1>3 DEF FramesOK
<1> QED
  BY <1>1, <1>4, <1>5, <1>6 DEF FramesOK

\* The reports stay apart from frames that hold less.
LEMMA OutShrink ==
  ASSUME NEW v, NEW o, NEW st, NEW se, NEW R, OutMarked(v, o, st, se, R),
         NEW small, Smaller(v, small, st), Len(st) \in Nat
  PROVE  OutMarked(v, o, small, se, R)
<1>1. small \in Seq(Seq(Node)) /\ Len(small) \in Nat /\ Len(small) <= Len(st)
  BY DEF Smaller
<1>2. \A f \in 1 .. Len(small) : f \in 1 .. Len(st)
  BY <1>1
<1>3. \A f \in 1 .. Len(small) : Range(small[f]) \subseteq Range(st[f])
  BY DEF Smaller
<1>4. \A k \in 1 .. Len(o) : IsReport(o[k]) /\ o[k].id.index < MaxIndex =>
        \A f \in 1 .. Len(small) : (k \in R <=> f = 1) =>
          \A n \in Range(small[f]) : n.id # o[k].id
  BY <1>2, <1>3 DEF OutMarked
<1> QED
  BY <1>4 DEF OutMarked

\* A directory more that was seen changes nothing.
LEMMA SeenGrows ==
  ASSUME NEW v, NEW st, NEW se, FramesOK(v, st, se), NEW m
  PROVE  /\ FramesOK(v, st, se \cup {m})
         /\ \A o, R : OutMarked(v, o, st, se, R) => OutMarked(v, o, st, se \cup {m}, R)
<1>1. \A f : Met(v, se, f) \subseteq Met(v, se \cup {m}, f)
  BY DEF Met
<1>2. FramesOK(v, st, se \cup {m})
  BY <1>1 DEF FramesOK
<1>3. ASSUME NEW o, NEW R, OutMarked(v, o, st, se, R)
      PROVE  OutMarked(v, o, st, se \cup {m}, R)
  BY <1>3 DEF OutMarked
<1> QED
  BY <1>2, <1>3

\* The entry at hand, and the frames without it.
AtHand(st, e, rest) ==
  /\ st \in Seq(Seq(Node)) /\ st # <<>> /\ Last(st) # <<>>
  /\ e = Head(Last(st))
  /\ rest = Append(Front(st), Tail(Last(st)))

\* Nothing else is lost, and its id is left to nobody.
LEMMA RestIs ==
  ASSUME NEW v, NEW st, NEW e, NEW rest, AtHand(st, e, rest)
  PROVE  /\ Smaller(v, rest, st)
         /\ Len(rest) = Len(st) /\ Len(st) \in Nat \ {0}
         /\ e \in Range(st[Len(st)])
         /\ \A f \in 1 .. Len(st) : Range(st[f]) \subseteq Range(rest[f]) \cup {e}
         /\ \A c : IsListing(st[Len(st)], v, c) /\ e.id.index < MaxIndex =>
              \A n \in Range(rest[Len(st)]) : n.id # e.id
<1> DEFINE n == Len(st)
           s == st[n]
           t == Tail(s)
           front == Front(st)
<1>1. st \in Seq(Seq(Node)) /\ st # <<>>
  BY DEF AtHand
<1>2. n \in Nat /\ n > 0
  BY <1>1, EmptySeq
<1>3. s \in Seq(Node) /\ s # <<>> /\ Last(st) = s
  BY <1>1, <1>2 DEF Last, AtHand
<1>4. /\ t \in Seq(Node) /\ Len(t) = Len(s) - 1 /\ Len(s) \in Nat /\ Len(s) > 0
      /\ e = s[1] /\ \A i \in 1 .. Len(t) : t[i] = s[i + 1]
  BY <1>3 DEF AtHand
<1>5. /\ front \in Seq(Seq(Node)) /\ Len(front) = n - 1
      /\ \A f \in 1 .. n - 1 : front[f] = st[f]
  BY <1>1, FrontIs
<1>6. rest = Append(front, t)
  BY <1>3 DEF AtHand
<1>7. s = st[n] /\ n = Len(st) /\ Range(s) = Range(st[n])
  OBVIOUS
<1> HIDE DEF n, s, t, front
<1>8. /\ rest \in Seq(Seq(Node)) /\ Len(rest) = n /\ rest[n] = t
      /\ \A f \in 1 .. n - 1 : rest[f] = st[f]
  <2>1. /\ rest \in Seq(Seq(Node)) /\ Len(rest) = Len(front) + 1
        /\ rest[Len(front) + 1] = t
        /\ \A f \in 1 .. Len(front) : rest[f] = front[f]
    <3> DEFINE T == Seq(Node)
    <3>1. IsPush(T, front, t, rest)
      BY <1>4, <1>5, <1>6 DEF IsPush
    <3> HIDE DEF T
    <3>2. /\ rest \in Seq(T) /\ Len(rest) = Len(front) + 1
          /\ rest[Len(front) + 1] = t
          /\ \A f \in 1 .. Len(front) : rest[f] = front[f]
      BY <3>1, PushedIs
    <3> QED
      BY <3>2 DEF T
  <2> QED
    BY <1>2, <1>5, <2>1
<1>9. DOMAIN s = 1 .. Len(s) /\ DOMAIN t = 1 .. Len(t)
  BY <1>3, <1>4
<1>10. Range(t) \subseteq Range(s) /\ Range(s) \subseteq Range(t) \cup {e} /\ e \in Range(s)
  <2>1. ASSUME NEW x \in Range(t)
        PROVE  x \in Range(s)
    <3>1. PICK i \in 1 .. Len(t) : x = t[i]
      BY <1>9, <2>1 DEF Range
    <3>2. i + 1 \in 1 .. Len(s) /\ x = s[i + 1]
      BY <1>4, <3>1
    <3> QED
      BY <1>9, <3>2 DEF Range
  <2>2. ASSUME NEW x \in Range(s), x # e
        PROVE  x \in Range(t)
    <3>1. PICK i \in 1 .. Len(s) : x = s[i]
      BY <1>9, <2>2 DEF Range
    <3> DEFINE j == i - 1
    <3>2. j \in 1 .. Len(t) /\ i = j + 1
      BY <1>4, <2>2, <3>1
    <3> HIDE DEF j
    <3>3. t[j] = x
      BY <1>4, <3>1, <3>2
    <3> QED
      BY <1>9, <3>2, <3>3 DEF Range
  <2>3. e \in Range(s)
    <3>1. 1 \in DOMAIN s
      BY <1>4, <1>9
    <3> QED
      BY <1>4, <3>1 DEF Range
  <2> QED
    BY <2>1, <2>2, <2>3
<1>11. ASSUME NEW c, IsListing(s, v, c)
      PROVE  /\ IsListing(t, v, c)
             /\ e.id.index < MaxIndex => \A x \in Range(t) : x.id # e.id
  <2>1. \A i \in 1 .. Len(t) : i + 1 \in 1 .. Len(s) /\ t[i] = s[i + 1]
    BY <1>4
  <2>2. \A i, k \in 1 .. Len(t) : t[i].id.index = t[k].id.index /\ t[k].id.index < MaxIndex => i = k
    <3> SUFFICES ASSUME NEW i \in 1 .. Len(t), NEW k \in 1 .. Len(t),
                        t[i].id.index = t[k].id.index, t[k].id.index < MaxIndex
                 PROVE  i = k
      OBVIOUS
    <3> DEFINE a == i + 1
               b == k + 1
    <3>1. a \in 1 .. Len(s) /\ b \in 1 .. Len(s) /\ t[i] = s[a] /\ t[k] = s[b]
      BY <2>1
    <3>2. a = b => i = k
      OBVIOUS
    <3> HIDE DEF a, b
    <3>3. s[a].id.index = s[b].id.index /\ s[b].id.index < MaxIndex
      BY <3>1
    <3>4. a = b
      BY <1>11, <3>1, <3>3 DEF IsListing
    <3> QED
      BY <3>2, <3>4
  <2>3. \A i \in 1 .. Len(t) :
          /\ t[i].id = Entry(c, t[i].id.index) /\ t[i].id.index \in 0 .. MaxIndex
          /\ v.variant # "ExFat" => ~t[i].contiguous
          /\ v.variant = "ExFat" => ~t[i].is_volume_label
    BY <1>11, <2>1 DEF IsListing
  <2>4. IsListing(t, v, c)
    BY <1>4, <2>2, <2>3 DEF IsListing
  <2>5. ASSUME e.id.index < MaxIndex, NEW x \in Range(t), x.id = e.id
        PROVE  FALSE
    <3>1. PICK i \in 1 .. Len(t) : x = t[i]
      BY <1>9, <2>5 DEF Range
    <3> DEFINE a == i + 1
               b == 1
    <3>2. a \in 1 .. Len(s) /\ t[i] = s[a]
      BY <2>1
    <3>3. b \in 1 .. Len(s) /\ e = s[b] /\ a # b
      BY <1>4
    <3> HIDE DEF a, b
    <3>4. s[a].id = s[b].id
      BY <2>5, <3>1, <3>2, <3>3
    <3>5. s[a].id.index = s[b].id.index /\ s[b].id.index < MaxIndex
      BY <2>5, <3>3, <3>4
    <3>6. a = b
      BY <1>11, <3>2, <3>3, <3>5 DEF IsListing
    <3> QED
      BY <3>3, <3>6
  <2> QED
    BY <2>4, <2>5
<1>12. Smaller(v, rest, st)
  <2>1. ASSUME NEW f \in 1 .. n
        PROVE  /\ Range(rest[f]) \subseteq Range(st[f])
               /\ \A c \in 0 .. FIXED_ROOT : IsListing(st[f], v, c) => IsListing(rest[f], v, c)
    <3>1. CASE f = n
      <4>1. rest[f] = t /\ st[f] = s
        BY <1>8, <1>7, <3>1
      <4> QED
        BY <1>10, <1>11, <4>1
    <3>2. CASE f # n
      <4>1. f \in 1 .. n - 1
        BY <1>2, <3>2
      <4> QED
        BY <1>8, <4>1
    <3> QED
      BY <3>1, <3>2
  <2> QED
    <3>1. Len(rest) <= Len(st) /\ 1 .. Len(rest) = 1 .. n
      BY <1>2, <1>8, <1>7
    <3> QED
      BY <1>8, <2>1, <3>1 DEF Smaller
<1>13. \A f \in 1 .. n : Range(st[f]) \subseteq Range(rest[f]) \cup {e}
  <2> SUFFICES ASSUME NEW f \in 1 .. n
               PROVE  Range(st[f]) \subseteq Range(rest[f]) \cup {e}
    OBVIOUS
  <2>1. CASE f = n
    BY <1>8, <1>10, <1>7, <2>1
  <2>2. CASE f # n
    <3>1. f \in 1 .. n - 1
      BY <1>2, <2>2
    <3> QED
      BY <1>8, <3>1
  <2> QED
    BY <2>1, <2>2
<1> QED
  <2>1. \A c : IsListing(st[Len(st)], v, c) /\ e.id.index < MaxIndex =>
          \A x \in Range(rest[Len(st)]) : x.id # e.id
    BY <1>8, <1>11, <1>7
  <2>2. \A f \in 1 .. Len(st) : Range(st[f]) \subseteq Range(rest[f]) \cup {e}
    BY <1>13, <1>7
  <2>3. e \in Range(st[Len(st)])
    BY <1>10, <1>7
  <2>4. Len(rest) = Len(st) /\ Len(st) \in Nat \ {0}
    BY <1>2, <1>8, <1>7
  <2> QED
    BY <1>12, <2>1, <2>2, <2>3, <2>4

\* Back to the caller: the frames without the last.
LEMMA FrontSmaller ==
  ASSUME NEW v, NEW st, NEW front, st \in Seq(Seq(Node)) /\ st # <<>> /\ front = Front(st)
  PROVE  /\ Smaller(v, front, st) /\ Len(st) \in Nat \ {0} /\ Len(front) = Len(st) - 1
         /\ \A f \in 1 .. Len(front) : front[f] = st[f]
<1>1. /\ front \in Seq(Seq(Node)) /\ Len(front) = Len(st) - 1
      /\ \A f \in 1 .. Len(st) - 1 : front[f] = st[f]
  BY FrontIs
<1>2. Len(st) \in Nat \ {0}
  BY EmptySeq
<1>3. \A f \in 1 .. Len(front) : front[f] = st[f]
  BY <1>1
<1>4. Smaller(v, front, st)
  BY <1>1, <1>2, <1>3 DEF Smaller
<1> QED
  BY <1>1, <1>2, <1>3, <1>4

\* The listing of a directory that the walk enters.
IsChild(v, m, nodes) ==
  /\ m \in 0 .. FIXED_ROOT
  /\ IsFrame(v, nodes, m)
  /\ m = FIXED_ROOT => nodes = <<>>

\* A frame of a directory not seen before joins the frames.
LEMMA PushFrame ==
  ASSUME NEW v \in Volume, NEW st, NEW se \in SUBSET (0 .. FIXED_ROOT), FramesOK(v, st, se),
         NEW m, m \notin se, NEW nodes, IsChild(v, m, nodes), Len(st) > 0,
         NEW pushed, IsPush(Seq(Node), st, nodes, pushed)
  PROVE  FramesOK(v, pushed, se \cup {m})
<1> DEFINE n == Len(st)
           F == Seq(Node)
<1>1. IsPush(F, st, nodes, pushed)
  OBVIOUS
<1> HIDE DEF F
<1>2. /\ pushed \in Seq(F) /\ Len(pushed) = n + 1 /\ n \in Nat /\ n > 0
      /\ pushed[n + 1] = nodes
      /\ \A f \in 1 .. n : pushed[f] = st[f]
  BY <1>1, PushedIs
<1>3. FramesOK(v, st, se \cup {m})
  BY SeenGrows
<1> DEFINE se2 == se \cup {m}
           l == n + 1
<1>4. /\ \A f \in 1 .. Len(pushed) : f = l \/ f \in 1 .. n
      /\ \A f \in 2 .. Len(pushed) : f = l \/ (f \in 2 .. n /\ f \in 1 .. n)
      /\ l # 1
  BY <1>2
<1>5. pushed[l] = nodes
  BY <1>2
<1>6. m \in se2 /\ FramesOK(v, st, se2)
  BY <1>3
<1>7. \A a \in Range(nodes) : a.id.dir_cluster = m /\ m # FIXED_ROOT
  <2>1. nodes \in Seq(Node) /\ \A k \in 1 .. Len(nodes) : nodes[k].id = Entry(m, nodes[k].id.index)
    BY DEF IsChild, IsFrame, IsListing
  <2>2. \A a \in Range(nodes) : \E k \in 1 .. Len(nodes) : a = nodes[k]
    BY <2>1 DEF Range
  <2>3. nodes = <<>> => Range(nodes) = {}
    BY DEF Range
  <2>4. \A a \in Range(nodes) : a.id.dir_cluster = m
    BY <2>1, <2>2, Shapes
  <2> QED
    BY <2>3, <2>4 DEF IsChild
<1>8. \A f \in 2 .. n : \A a \in Range(st[f]) : a.id.dir_cluster # m
  <2> SUFFICES ASSUME NEW f \in 2 .. n, NEW a \in Range(st[f])
               PROVE  a.id.dir_cluster \in se
    OBVIOUS
  <2>1. f \in 1 .. n /\ f # 1
    BY <1>2
  <2>2. PICK c \in se : IsFrame(v, st[f], c)
    BY <2>1 DEF FramesOK, Met
  <2>3. a \in Under(v, c) /\ c \in 0 .. FIXED_ROOT
    BY <2>2 DEF IsFrame
  <2> QED
    BY <2>3, UnderIsNode
<1> HIDE DEF se2, l, n
<1>9. ASSUME NEW f \in 1 .. Len(pushed)
      PROVE  \E c \in Met(v, se2, f) : IsFrame(v, pushed[f], c)
  <2>1. CASE f = l
    BY <1>4, <1>5, <1>6, <2>1 DEF Met, IsChild
  <2>2. CASE f # l
    <3>1. f \in 1 .. n /\ pushed[f] = st[f]
      BY <1>2, <1>4, <2>2
    <3> QED
      BY <1>6, <3>1 DEF FramesOK, n
  <2> QED
    BY <2>1, <2>2
<1>10. ASSUME NEW f \in 2 .. Len(pushed), NEW g \in 2 .. Len(pushed),
              NEW a \in Range(pushed[f]), NEW b \in Range(pushed[g]),
              a.id.dir_cluster = b.id.dir_cluster
       PROVE  f = g
  <2>1. CASE f = l /\ g = l
    BY <2>1
  <2>2. CASE f = l /\ g # l
    <3>1. g \in 2 .. n /\ pushed[g] = st[g]
      BY <1>2, <1>4, <2>2
    <3> QED
      BY <1>5, <1>7, <1>8, <1>10, <2>2, <3>1
  <2>3. CASE f # l /\ g = l
    <3>1. f \in 2 .. n /\ pushed[f] = st[f]
      BY <1>2, <1>4, <2>3
    <3> QED
      BY <1>5, <1>7, <1>8, <1>10, <2>3, <3>1
  <2>4. CASE f # l /\ g # l
    <3>1. f \in 2 .. n /\ pushed[f] = st[f] /\ g \in 2 .. n /\ pushed[g] = st[g]
      BY <1>2, <1>4, <2>4
    <3> QED
      BY <1>6, <1>10, <3>1 DEF FramesOK, n
  <2> QED
    BY <2>1, <2>2, <2>3, <2>4
<1>11. ASSUME NEW f \in 2 .. Len(pushed), NEW a \in Range(pushed[f])
       PROVE  a.id.dir_cluster # FIXED_ROOT
  <2>1. CASE f = l
    BY <1>5, <1>7, <1>11, <2>1
  <2>2. CASE f # l
    <3>1. f \in 2 .. n /\ pushed[f] = st[f]
      BY <1>2, <1>4, <2>2
    <3> QED
      BY <1>6, <1>11, <3>1 DEF FramesOK, n
  <2> QED
    BY <2>1, <2>2
<1>12. pushed \in Seq(Seq(Node))
  BY <1>2 DEF F
<1> QED
  BY <1>9, <1>10, <1>11, <1>12 DEF FramesOK, se2

\* None of its entries is reported yet.
LEMMA PushOut ==
  ASSUME NEW v \in Volume, NEW st, NEW se, NEW o, NEW R, OutMarked(v, o, st, se, R),
         NEW m, m \notin se, NEW nodes, IsChild(v, m, nodes), Len(st) > 0,
         NEW pushed, IsPush(Seq(Node), st, nodes, pushed)
  PROVE  OutMarked(v, o, pushed, se \cup {m}, R)
<1> DEFINE n == Len(st)
           F == Seq(Node)
<1>1. IsPush(F, st, nodes, pushed)
  OBVIOUS
<1> HIDE DEF F
<1>2. /\ Len(pushed) = n + 1 /\ n \in Nat /\ n > 0
      /\ pushed[n + 1] = nodes
      /\ \A f \in 1 .. n : pushed[f] = st[f]
  BY <1>1, PushedIs
<1> DEFINE l == n + 1
<1>3. /\ \A f \in 1 .. Len(pushed) : f = l \/ f \in 1 .. n
      /\ l # 1
  BY <1>2
<1>4. pushed[l] = nodes
  BY <1>2
<1>5. \A a \in Range(nodes) : a.id.dir_cluster = m
  <2>1. nodes \in Seq(Node) /\ \A k \in 1 .. Len(nodes) : nodes[k].id = Entry(m, nodes[k].id.index)
    BY DEF IsChild, IsFrame, IsListing
  <2>2. \A a \in Range(nodes) : \E k \in 1 .. Len(nodes) : a = nodes[k]
    BY <2>1 DEF Range
  <2> QED
    BY <2>1, <2>2, Shapes
<1> HIDE DEF n, l
<1>6. ASSUME NEW k \in 1 .. Len(o), IsReport(o[k]), o[k].id.index < MaxIndex,
             NEW f \in 1 .. Len(pushed), k \in R <=> f = 1, NEW a \in Range(pushed[f])
      PROVE  a.id # o[k].id
  <2>1. CASE f = l
    <3>1. k \notin R
      BY <1>3, <1>6, <2>1
    <3>2. o[k].id.dir_cluster # m
      BY <1>6, <3>1 DEF OutMarked
    <3> QED
      BY <1>4, <1>5, <1>6, <2>1, <3>2
  <2>2. CASE f # l
    <3>1. f \in 1 .. n /\ pushed[f] = st[f]
      BY <1>2, <1>3, <2>2
    <3> QED
      BY <1>6, <3>1 DEF OutMarked, n
  <2> QED
    BY <2>1, <2>2
<1>7. OutMarked(v, o, st, se \cup {m}, R)
  BY DEF OutMarked
<1> QED
  BY <1>6, <1>7 DEF OutMarked

\* The entry at hand is that of a directory met, with an id of its own there.
LEMMA EntryIs ==
  ASSUME NEW v \in Volume, NEW st, NEW se \in SUBSET (0 .. FIXED_ROOT), FramesOK(v, st, se),
         NEW e, NEW rest, AtHand(st, e, rest)
  PROVE  /\ e \in Node /\ e.id \in EntryId
         /\ \E c \in Met(v, se, Len(st)) :
              /\ IsFrame(v, st[Len(st)], c) /\ e \in Under(v, c)
              /\ e.id.dir_cluster = c
         /\ Len(st) # 1 => e.id.dir_cluster \in se \ {FIXED_ROOT}
<1> DEFINE n == Len(st)
<1>1. n \in Nat \ {0} /\ e \in Range(st[n])
  BY RestIs
<1>2. n \in 1 .. Len(st)
  BY <1>1
<1>3. PICK c \in Met(v, se, n) : IsFrame(v, st[n], c)
  BY <1>2 DEF FramesOK
<1>4. e \in Under(v, c) /\ c \in 0 .. FIXED_ROOT
  BY <1>1, <1>3, RootListing DEF IsFrame, Met
<1>5. e \in Node /\ e.id \in EntryId /\ e.id.dir_cluster = c
  BY <1>4, UnderIsNode
<1>6. ASSUME n # 1
      PROVE  e.id.dir_cluster \in se \ {FIXED_ROOT}
  <2>1. n \in 2 .. Len(st)
    <3>1. \A i \in Nat \ {0} : i # 1 => i \in 2 .. i
      OBVIOUS
    <3> HIDE DEF n
    <3>2. n \in 2 .. n
      BY <1>1, <1>6, <3>1
    <3> QED
      BY <3>2 DEF n
  <2>2. c \in se
    BY <1>3, <1>6 DEF Met
  <2> QED
    BY <1>1, <1>5, <2>1, <2>2 DEF FramesOK
<1> QED
  BY <1>3, <1>4, <1>5, <1>6

\* One report more: it is of the entry at hand, which no report of its kind and
\* no frame of that kind has any more.
LEMMA Reported ==
  ASSUME NEW v \in Volume, NEW st, NEW se \in SUBSET (0 .. FIXED_ROOT), FramesOK(v, st, se),
         NEW o, NEW R, OutMarked(v, o, st, se, R), NEW e, NEW rest, AtHand(st, e, rest),
         NEW A, NEW a, a.kind = "DeletedDirectoryEntry", a.id = e.id,
         NEW o2, IsPush(A, o, a, o2)
  PROVE  \E R2 : OutMarked(v, o2, rest, se, R2)
<1> DEFINE n == Len(st)
           l == Len(o) + 1
           R2 == IF n = 1 THEN R \cup {l} ELSE R
<1>1. /\ n \in Nat \ {0} /\ Len(rest) = n /\ Smaller(v, rest, st) /\ e \in Range(st[n])
      /\ \A c : IsListing(st[n], v, c) /\ e.id.index < MaxIndex =>
           \A x \in Range(rest[n]) : x.id # e.id
  BY RestIs
<1>2. /\ Len(o2) = l /\ Len(o) \in Nat /\ o2[l] = a
      /\ \A k \in 1 .. Len(o) : o2[k] = o[k]
  BY PushedIs
<1>3. /\ e \in Node /\ e.id \in EntryId
      /\ n # 1 => e.id.dir_cluster \in se \ {FIXED_ROOT}
  BY EntryIs
<1>4. PICK c \in Met(v, se, n) :
        /\ IsFrame(v, st[n], c) /\ e \in Under(v, c) /\ e.id.dir_cluster = c
  BY EntryIs
<1>5. R \subseteq 1 .. Len(o) /\ l \notin R /\ l \in 1 .. l /\ \A k \in 1 .. l : k = l \/ k \in 1 .. Len(o)
  BY <1>2 DEF OutMarked
<1>6. /\ R2 \subseteq 1 .. l
      /\ \A k \in 1 .. Len(o) : k # l /\ (k \in R2 <=> k \in R)
      /\ l \in R2 <=> n = 1
  <2>1. 1 .. Len(o) \subseteq 1 .. l /\ \A k \in 1 .. Len(o) : k # l
    BY <1>2
  <2> HIDE DEF l, n
  <2>2. CASE n = 1
    <3>1. R2 = R \cup {l}
      BY <2>2
    <3> QED
      BY <1>5, <2>1, <2>2, <3>1
  <2>3. CASE n # 1
    <3>1. R2 = R
      BY <2>3
    <3> QED
      BY <1>5, <2>1, <2>3, <3>1
  <2> QED
    BY <2>2, <2>3
<1> HIDE DEF R2, l, n
<1>7. OutMarked(v, o, rest, se, R)
  BY <1>1, OutShrink DEF n
<1>8. \A k \in 1 .. Len(o) :
        /\ IsReport(o[k]) /\ o[k].id.index < MaxIndex /\ (k \in R <=> n = 1)
        => o[k].id # e.id
  <2>1. n \in 1 .. Len(st)
    BY <1>1 DEF n
  <2> QED
    BY <1>1, <2>1 DEF OutMarked
<1>9. ASSUME NEW k \in 1 .. l, IsReport(o2[k])
      PROVE  /\ k \in R2 => o2[k].id.dir_cluster = MarkerOf(v)
             /\ k \notin R2 => o2[k].id.dir_cluster \in se \ {FIXED_ROOT}
  <2>1. CASE k = l
    BY <1>2, <1>3, <1>4, <1>6, <2>1 DEF Met
  <2>2. CASE k # l
    <3>1. k \in 1 .. Len(o) /\ o2[k] = o[k] /\ (k \in R2 <=> k \in R)
      BY <1>2, <1>5, <1>6, <2>2
    <3> QED
      BY <1>7, <1>9, <3>1 DEF OutMarked
  <2> QED
    BY <2>1, <2>2
<1>10. ASSUME NEW k \in 1 .. l, NEW j \in 1 .. l, IsReport(o2[k]), o2[k].id.index < MaxIndex,
              o2[k] = o2[j], k \in R2 <=> j \in R2
       PROVE  k = j
  <2>1. CASE k = l /\ j = l
    BY <2>1
  <2>2. CASE k = l /\ j # l
    <3>1. j \in 1 .. Len(o) /\ o2[j] = o[j] /\ (j \in R2 <=> j \in R)
      BY <1>2, <1>5, <1>6, <2>2
    <3> QED
      BY <1>2, <1>6, <1>8, <1>10, <2>2, <3>1
  <2>3. CASE k # l /\ j = l
    <3>1. k \in 1 .. Len(o) /\ o2[k] = o[k] /\ (k \in R2 <=> k \in R)
      BY <1>2, <1>5, <1>6, <2>3
    <3> QED
      BY <1>2, <1>6, <1>8, <1>10, <2>3, <3>1
  <2>4. CASE k # l /\ j # l
    <3>1. /\ k \in 1 .. Len(o) /\ o2[k] = o[k] /\ (k \in R2 <=> k \in R)
          /\ j \in 1 .. Len(o) /\ o2[j] = o[j] /\ (j \in R2 <=> j \in R)
      BY <1>2, <1>5, <1>6, <2>4
    <3> QED
      BY <1>7, <1>10, <3>1 DEF OutMarked
  <2> QED
    BY <2>1, <2>2, <2>3, <2>4
<1>11. ASSUME NEW k \in 1 .. l, IsReport(o2[k]), o2[k].id.index < MaxIndex,
              NEW f \in 1 .. Len(rest), k \in R2 <=> f = 1, NEW x \in Range(rest[f])
       PROVE  x.id # o2[k].id
  <2>1. CASE k = l /\ f = n
    BY <1>1, <1>2, <1>4, <1>11, <2>1 DEF IsFrame
  <2>2. CASE k = l /\ f # n
    <3>1. f # 1 /\ n # 1
      BY <1>1, <1>6, <1>11, <2>2
    <3>2. f \in 2 .. Len(st) /\ n \in 2 .. Len(st) /\ x \in Range(st[f])
      <4>1. 1 .. Len(rest) = 1 .. n /\ f \in 1 .. n /\ f \in Int
        BY <1>1, <1>11
      <4>2. f \in 2 .. n /\ n \in 2 .. n /\ n = Len(st)
        BY <1>1, <3>1, <4>1 DEF n
      <4>3. Range(rest[f]) \subseteq Range(st[f])
        BY <1>1, <1>11 DEF Smaller
      <4> QED
        BY <1>11, <4>2, <4>3
    <3>3. x.id.dir_cluster # e.id.dir_cluster
      BY <1>1, <2>2, <3>2 DEF FramesOK
    <3> QED
      BY <1>2, <2>2, <3>3
  <2>3. CASE k # l
    <3>1. k \in 1 .. Len(o) /\ o2[k] = o[k] /\ (k \in R2 <=> k \in R)
      BY <1>2, <1>5, <1>6, <2>3
    <3> QED
      BY <1>7, <1>11, <3>1 DEF OutMarked
  <2> QED
    BY <2>1, <2>2, <2>3
<1>12. OutMarked(v, o2, rest, se, R2)
  BY <1>2, <1>6, <1>9, <1>10, <1>11 DEF OutMarked
<1> QED
  BY <1>12

-----------------------------------------------------------------------------
\* What has been done with an entry once it is in no frame any more.
Handled(n, o, se) ==
  IF n.is_deleted THEN DeletedDirectoryEntry(n.id) \in Range(o)
  ELSE IsLiveDir(n) => n.first_cluster \in se

LeftIn(n, st) == \E f \in 1 .. Len(st) : n \in Range(st[f])

CompleteFor(v, S, o, st, se) ==
  \A c \in S : \A n \in Under(v, c) :
    n.name \notin Dots => Handled(n, o, se) \/ LeftIn(n, st)

\* Everything but one entry is where it was, and that one has been handled.
LEMMA CompleteStays ==
  ASSUME NEW v, NEW S, NEW o, NEW st, NEW se, CompleteFor(v, S, o, st, se),
         NEW o2, Range(o) \subseteq Range(o2), NEW se2, se \subseteq se2,
         NEW e, e.name \notin Dots => Handled(e, o2, se2),
         NEW rest, \A n : LeftIn(n, st) => n = e \/ LeftIn(n, rest)
  PROVE  CompleteFor(v, S, o2, rest, se2)
<1> SUFFICES ASSUME NEW c \in S, NEW n \in Under(v, c), n.name \notin Dots
             PROVE  Handled(n, o2, se2) \/ LeftIn(n, rest)
  BY DEF CompleteFor
<1>1. Handled(n, o, se) \/ LeftIn(n, st)
  BY DEF CompleteFor
<1>2. Handled(n, o, se) => Handled(n, o2, se2)
  BY DEF Handled
<1> QED
  BY <1>1, <1>2

-----------------------------------------------------------------------------
\* The invariant of the audit.  Before the walk nothing is seen or reported;
\* once it is under way and every directory is found, see above.
Early ==
  pc \in {"boot", "check", "open"} =>
    /\ seen = {} /\ stack = <<>>
    /\ \A k \in 1 .. Len(out) : ~IsReport(out[k])

LiveFor(v, se) ==
  \A c \in se : \E p \in se \cup {MarkerOf(v)} : \E n \in Under(v, p) :
    n.first_cluster = c /\ IsLiveDir(n)

\* The walk is on, or over, and has passed nothing over.
Surveyed == pc \in {"walk", "ok"} /\ img.sig_ok /\ img.bpb_ok /\ skipped = {}

WalkOK ==
  /\ FramesOK(img.vol, stack, seen)
  /\ \E R : OutMarked(img.vol, out, stack, seen, R)
  /\ LiveFor(img.vol, seen)
  /\ Surveyed =>
       CompleteFor(img.vol, seen \cup {MarkerOf(img.vol)}, out, stack, seen)

AuditInv == img \in Image /\ TypeOK /\ Early /\ (AllFound => WalkOK)

\* What is true of the walk when it starts.
LEMMA NothingYet ==
  ASSUME NEW v, NEW o, \A k \in 1 .. Len(o) : ~IsReport(o[k])
  PROVE  FramesOK(v, <<>>, {}) /\ OutMarked(v, o, <<>>, {}, {}) /\ LiveFor(v, {})
<1>1. <<>> \in Seq(Seq(Node)) /\ Len(<<>>) = 0
  OBVIOUS
<1>2. 1 .. 0 = {} /\ 2 .. 0 = {}
  OBVIOUS
<1>3. FramesOK(v, <<>>, {})
  BY <1>1, <1>2 DEF FramesOK
<1>4. OutMarked(v, o, <<>>, {}, {})
  BY <1>1, <1>2 DEF OutMarked
<1>5. LiveFor(v, {})
  BY DEF LiveFor
<1> QED
  BY <1>3, <1>4, <1>5

\* AllFound, of the directories seen.
FoundIn(v, se) ==
  \A c \in se \cup {MarkerOf(v)} : \A n \in Under(v, c) : IsLiveDir(n) =>
    ReadAlike(v, n) /\ n.id.index < MaxIndex

\* It is the same.
LEMMA FoundIs == AllFound <=> FoundIn(img.vol, seen)
  BY DEF AllFound, FoundIn, Walked, Under, RootMarker, MarkerOf

\* The audit starts with the invariant.
LEMMA AuditInitInv == Init => AuditInv
<1> SUFFICES ASSUME Init
             PROVE  AuditInv
  OBVIOUS
<1>1. img \in Image
  BY AuditAssumption DEF Init
<1>2. out = <<>> /\ stack = <<>> /\ seen = {} /\ skipped = {} /\ pc = "boot"
  BY DEF Init
<1>3. Len(out) = 0 /\ Len(stack) = 0
  BY <1>2
<1>4. \A k \in 1 .. Len(out) : ~IsReport(out[k])
  BY <1>3
<1>5. TypeOK
  <2>1. MAX_DEPTH \in Nat
    BY AuditAssumption
  <2>2. out \in Seq(AnomalyKind) /\ stack \in Seq(Seq(Node))
    BY <1>2
  <2> QED
    BY <1>2, <1>3, <2>1, <2>2 DEF TypeOK
<1>6. FramesOK(img.vol, stack, seen) /\ OutMarked(img.vol, out, stack, seen, {}) /\ LiveFor(img.vol, seen)
  BY <1>2, <1>4, NothingYet
<1>7. ~Surveyed
  BY <1>2 DEF Surveyed
<1> QED
  BY <1>1, <1>2, <1>4, <1>5, <1>6, <1>7 DEF AuditInv, Early, WalkOK

\* Anomalies, none of them of a deleted entry.
NoReport(o) == o \in Seq(AnomalyKind) /\ \A k \in 1 .. Len(o) : ~IsReport(o[k])

\* One more of another kind changes nothing.
LEMMA NoReportMore ==
  ASSUME NEW o, NoReport(o), NEW a \in AnomalyKind, ~IsReport(a)
  PROVE  NoReport(Append(o, a))
<1> DEFINE o2 == Append(o, a)
<1>1. IsPush(AnomalyKind, o, a, o2)
  BY DEF IsPush, NoReport
<1> HIDE DEF o2
<1>2. /\ o2 \in Seq(AnomalyKind) /\ Len(o2) = Len(o) + 1 /\ Len(o) \in Nat
      /\ o2[Len(o) + 1] = a
      /\ \A f \in 1 .. Len(o) : o2[f] = o[f]
  BY <1>1, PushedIs
<1>3. ASSUME NEW k \in 1 .. Len(o2)
      PROVE  ~IsReport(o2[k])
  <2>1. CASE k = Len(o) + 1
    BY <1>2, <2>1
  <2>2. CASE k # Len(o) + 1
    <3>1. k \in 1 .. Len(o)
      BY <1>2, <2>2
    <3> QED
      BY <1>2, <3>1 DEF NoReport
  <2> QED
    BY <2>1, <2>2
<1>4. NoReport(o2)
  BY <1>2, <1>3 DEF NoReport
<1> QED
  BY <1>4 DEF o2

\* A step before the walk: the stack stays empty, and no report is made.
LEMMA BeforeTheWalk ==
  ASSUME AuditInv, pc \in {"boot", "check", "open"},
         img' = img, stack' = stack, seen' = seen,
         skipped' \subseteq {"open", "deep", "failed", "unreadable"},
         pc' \in {"check", "open", "ok", "err"}, ~Surveyed', NoReport(out')
  PROVE  AuditInv'
<1>1. img \in Image /\ seen = {} /\ stack = <<>>
  BY DEF AuditInv, TypeOK, Early
<1>2. out' \in Seq(AnomalyKind) /\ \A k \in 1 .. Len(out') : ~IsReport(out'[k])
  BY DEF NoReport
<1>3. seen' = {} /\ stack' = <<>> /\ img' \in Image
  BY <1>1
<1>4. TypeOK'
  <2>1. stack' \in Seq(Seq(Node)) /\ Len(stack') = 0 /\ 0 <= MAX_DEPTH
    BY <1>3, AuditAssumption
  <2> QED
    BY <1>2, <1>3, <2>1 DEF TypeOK
<1>5. Early'
  BY <1>2, <1>3 DEF Early
<1>6. /\ FramesOK(img'.vol, stack', seen') /\ OutMarked(img'.vol, out', stack', seen', {})
      /\ LiveFor(img'.vol, seen')
  BY <1>2, <1>3, NothingYet
<1>7. WalkOK'
  BY <1>6 DEF WalkOK
<1> QED
  BY <1>3, <1>4, <1>5, <1>7 DEF AuditInv

\* The checks of the boot sector, the checksum and the mirror report what they
\* find, and nothing else.
LEMMA CheckStepInv ==
  AuditInv /\ (Boot \/ CheckExfatChecksum \/ CheckFatMirror \/ NoMirror \/ CheckFails \/ OpenFails)
    => AuditInv' /\ NoReport(out')
<1> SUFFICES ASSUME AuditInv,
                    Boot \/ CheckExfatChecksum \/ CheckFatMirror \/ NoMirror \/ CheckFails \/ OpenFails
             PROVE  AuditInv' /\ NoReport(out')
  OBVIOUS
<1>1. /\ skipped \subseteq {"open", "deep", "failed", "unreadable"} /\ img \in Image
      /\ pc \in {"boot", "check", "open"} => NoReport(out)
      /\ NoReport(<<>>)
  <2>1. NoReport(<<>>)
    <3>1. <<>> \in Seq(AnomalyKind) /\ Len(<<>>) = 0
      OBVIOUS
    <3> QED
      BY <3>1 DEF NoReport
  <2> QED
    BY <2>1 DEF AuditInv, TypeOK, Early, NoReport
<1>2. /\ BootSignatureInvalid \in AnomalyKind /\ ~IsReport(BootSignatureInvalid)
      /\ BpbInvalid \in AnomalyKind /\ ~IsReport(BpbInvalid)
      /\ ExfatBootChecksumMismatch \in AnomalyKind /\ ~IsReport(ExfatBootChecksumMismatch)
  BY DEF AnomalyKind, BootSignatureInvalid, BpbInvalid, ExfatBootChecksumMismatch, IsReport
<1>3. CASE Boot
  <2> DEFINE found == IF img.sig_ok THEN <<>> ELSE <<BootSignatureInvalid>>
             valid == img.sig_ok /\ img.bpb_ok
  <2>1. ~Surveyed'
    BY <1>3 DEF Boot, Surveyed
  <2>2. NoReport(<<BootSignatureInvalid>>)
    <3>1. <<BootSignatureInvalid>> = Append(<<>>, BootSignatureInvalid)
      OBVIOUS
    <3> QED
      BY <1>1, <1>2, <3>1, NoReportMore
  <2>3. NoReport(found)
    BY <1>1, <2>2
  <2>4. out' = found \/ out' = Append(found, BpbInvalid)
    BY <1>3 DEF Boot
  <2> HIDE DEF found
  <2>5. NoReport(out')
    BY <1>2, <2>3, <2>4, NoReportMore
  <2>6. /\ pc \in {"boot", "check", "open"} /\ pc' \in {"check", "open", "ok", "err"}
        /\ img' = img /\ stack' = stack /\ seen' = seen
        /\ skipped' \subseteq {"open", "deep", "failed", "unreadable"}
    BY <1>1, <1>3 DEF Boot
  <2> QED
    BY <2>1, <2>5, <2>6, BeforeTheWalk
<1>4. CASE CheckExfatChecksum
  <2>1. ~Surveyed'
    BY <1>4 DEF CheckExfatChecksum, Surveyed
  <2>2. out' = out \/ out' = Append(out, ExfatBootChecksumMismatch)
    BY <1>4 DEF CheckExfatChecksum
  <2>3. /\ pc \in {"boot", "check", "open"} /\ pc' \in {"check", "open", "ok", "err"}
        /\ img' = img /\ stack' = stack /\ seen' = seen
        /\ skipped' \subseteq {"open", "deep", "failed", "unreadable"}
    BY <1>1, <1>4 DEF CheckExfatChecksum
  <2> QED
    <3>1. NoReport(out')
      BY <1>1, <1>2, <2>2, <2>3, NoReportMore
    <3> QED
      BY <2>1, <2>3, <3>1, BeforeTheWalk
<1>5. CASE CheckFatMirror
  <2> DEFINE differ == { i \in 1 .. img.fat_bytes : img.fat1[i] # img.fat2[i] }
             least == CHOOSE i \in differ : \A j \in differ : i <= j
             a == FatMirrorMismatch(least - 1, Cardinality(differ))
  <2>1. ~Surveyed'
    BY <1>5 DEF CheckFatMirror, Surveyed
  <2>2. out' = out \/ (differ # {} /\ out' = Append(out, a))
    BY <1>5 DEF CheckFatMirror
  <2>3. /\ pc \in {"boot", "check", "open"} /\ pc' \in {"check", "open", "ok", "err"}
        /\ img' = img /\ stack' = stack /\ seen' = seen
        /\ skipped' \subseteq {"open", "deep", "failed", "unreadable"}
    BY <1>1, <1>5 DEF CheckFatMirror
  <2>4. ASSUME differ # {}
        PROVE  a \in AnomalyKind /\ ~IsReport(a)
    <3>1. img.fat_bytes \in Nat
      BY <1>1 DEF Image
    <3>2. differ \in SUBSET (1 .. img.fat_bytes) /\ IsFiniteSet(1 .. img.fat_bytes)
      BY <3>1, FS_Interval
    <3>3. Cardinality(differ) \in Nat
      BY <3>2, FS_Subset, FS_CardinalityType
    <3>4. least \in differ
      <4>1. Min(differ) \in differ /\ \A y \in differ : Min(differ) <= y
        BY <2>4, <3>1, <3>2, MinIsLeast
      <4> HIDE DEF differ
      <4> QED
        BY <4>1
    <3>5. least - 1 \in Nat
      BY <3>1, <3>2, <3>4
    <3> HIDE DEF least, differ
    <3> QED
      BY <3>3, <3>5 DEF FatMirrorMismatch, AnomalyKind, IsReport
  <2> HIDE DEF a, differ
  <2> QED
    <3>1. NoReport(out')
      BY <1>1, <2>2, <2>3, <2>4, NoReportMore
    <3> QED
      BY <2>1, <2>3, <3>1, BeforeTheWalk
<1>6. CASE NoMirror \/ CheckFails
  <2>1. ~Surveyed' /\ out' = out
    BY <1>6 DEF NoMirror, CheckFails, Surveyed
  <2>2. /\ pc \in {"boot", "check", "open"} /\ pc' \in {"check", "open", "ok", "err"}
        /\ img' = img /\ stack' = stack /\ seen' = seen
        /\ skipped' \subseteq {"open", "deep", "failed", "unreadable"}
    BY <1>1, <1>6 DEF NoMirror, CheckFails
  <2> QED
    <3>1. NoReport(out')
      BY <1>1, <2>1, <2>2
    <3> QED
      BY <2>1, <2>2, <3>1, BeforeTheWalk
<1>7. CASE OpenFails
  <2>1. ~Surveyed' /\ out' = out
    BY <1>7 DEF OpenFails, Surveyed
  <2>2. /\ pc \in {"boot", "check", "open"} /\ pc' \in {"check", "open", "ok", "err"}
        /\ img' = img /\ stack' = stack /\ seen' = seen
        /\ skipped' \subseteq {"open", "deep", "failed", "unreadable"}
    BY <1>1, <1>7 DEF OpenFails
  <2> QED
    <3>1. NoReport(out')
      BY <1>1, <2>1, <2>2
    <3> QED
      BY <2>1, <2>2, <3>1, BeforeTheWalk
<1> QED
  BY <1>4, <1>5, <1>6, <1>7, <1>3

\* Collect, from the frames `below`: they stay, and the listing may come on top.
LEMMA CollectIs ==
  ASSUME NEW listed, NEW below, Collect(listed, below),
         below \in Seq(Seq(Node)), Len(below) <= MAX_DEPTH,
         listed # Err => listed.nodes \in Seq(Node),
         skipped \subseteq {"open", "deep", "failed", "unreadable"}
  PROVE  /\ stack' \in Seq(Seq(Node)) /\ Len(stack') <= MAX_DEPTH
         /\ skipped' \subseteq {"open", "deep", "failed", "unreadable"}
         /\ \/ stack' = below /\ skipped' # {}
            \/ /\ listed # Err /\ skipped' = skipped
               /\ IsPush(Seq(Node), below, listed.nodes, stack')
         /\ "unreadable" \in skipped' => "unreadable" \in skipped \/ listed = Err
<1>1. CASE /\ stack' = below
           /\ \E why \in {"deep", "failed", "unreadable"} :
                /\ skipped' = skipped \cup {why}
                /\ why = "unreadable" => listed = Err
  BY <1>1
<1>2. CASE /\ Len(below) < MAX_DEPTH /\ listed # Err
           /\ stack' = Append(below, listed.nodes) /\ skipped' = skipped
  <2> DEFINE s2 == stack'
             nodes == listed.nodes
             F == Seq(Node)
  <2>1. IsPush(F, below, nodes, s2)
    BY <1>2 DEF IsPush
  <2>2. Len(below) < MAX_DEPTH /\ MAX_DEPTH \in Nat
    BY <1>2, AuditAssumption
  <2> HIDE DEF s2, nodes, F
  <2>3. s2 \in Seq(F) /\ Len(s2) = Len(below) + 1 /\ Len(below) \in Nat
    BY <2>1, PushedIs
  <2>4. Len(s2) <= MAX_DEPTH
    BY <2>2, <2>3
  <2> QED
    BY <1>2, <2>1, <2>3, <2>4 DEF s2, nodes, F
<1> QED
  BY <1>1, <1>2 DEF Collect

\* The volume is opened, and its root is the first frame.
LEMMA OpenStepInv == AuditInv /\ Open => AuditInv'
<1> SUFFICES ASSUME AuditInv, Open
             PROVE  AuditInv'
  OBVIOUS
<1> DEFINE v == img.vol
           listed == read_dir(v, Root)
           nodes == listed.nodes
           m == MarkerOf(v)
           st2 == stack'
<1>1. /\ img \in Image /\ v \in Volume /\ img' = img /\ out' = out /\ seen' = seen
      /\ pc = "open" /\ pc' = "walk" /\ Collect(listed, <<>>)
      /\ seen = {} /\ stack = <<>> /\ \A k \in 1 .. Len(out) : ~IsReport(out[k])
      /\ out \in Seq(AnomalyKind) /\ skipped \subseteq {"open", "deep", "failed", "unreadable"}
  BY DEF AuditInv, TypeOK, Early, Open, Image
<1>2. /\ m \in 0 .. FIXED_ROOT /\ listed # Err
      /\ nodes = entries_under(v, m)
  BY <1>1, RootListing
<1>3. IsListing(nodes, v, m) /\ Range(nodes) = Under(v, m) /\ nodes \in Seq(Node)
  BY <1>1, <1>2, UnderIsListing DEF Under, IsListing
<1>4. /\ st2 \in Seq(Seq(Node)) /\ Len(st2) <= MAX_DEPTH
      /\ skipped' \subseteq {"open", "deep", "failed", "unreadable"}
      /\ \/ st2 = <<>> /\ skipped' # {}
         \/ skipped' = skipped /\ IsPush(Seq(Node), <<>>, nodes, st2)
  <2> HIDE DEF listed
  <2>1. <<>> \in Seq(Seq(Node)) /\ Len(<<>>) <= MAX_DEPTH
    BY AuditAssumption
  <2> QED
    BY <1>1, <1>2, <1>3, <2>1, CollectIs
<1>5. TypeOK' /\ Early' /\ img' \in Image
  BY <1>1, <1>4 DEF TypeOK, Early
<1>6. CASE st2 = <<>> /\ skipped' # {}
  <2>1. ~Surveyed'
    BY <1>6 DEF Surveyed
  <2>2. FramesOK(v, <<>>, {}) /\ OutMarked(v, out, <<>>, {}, {}) /\ LiveFor(v, {})
    BY <1>1, NothingYet
  <2>3. WalkOK'
    BY <1>1, <1>6, <2>1, <2>2 DEF WalkOK
  <2> QED
    BY <1>5, <2>3 DEF AuditInv
<1>7. CASE skipped' = skipped /\ IsPush(Seq(Node), <<>>, nodes, st2)
  <2> DEFINE F == Seq(Node)
             none == <<>>
  <2>1. Len(none) = 0 /\ st2 \in Seq(Seq(Node))
    BY <1>4, <1>7
  <2>2. IsPush(F, none, nodes, st2)
    BY <1>7
  <2> HIDE DEF F, none, st2, m, nodes, listed, v
  <2>3. Len(st2) = 1 /\ st2[1] = nodes
    <3>1. Len(st2) = Len(none) + 1 /\ st2[Len(none) + 1] = nodes
      BY <2>2, PushedIs
    <3>2. Len(none) + 1 = 1
      BY <2>1
    <3> QED
      BY <3>1, <3>2
  <2>4. 1 .. Len(st2) = {1} /\ 2 .. Len(st2) = {} /\ Met(v, {}, 1) = {m}
    BY <2>3 DEF Met, m
  <2>5. IsFrame(v, st2[1], m)
    BY <1>3, <2>3 DEF IsFrame
  <2>6. FramesOK(v, st2, {})
    BY <2>1, <2>4, <2>5 DEF FramesOK
  <2>7. OutMarked(v, out, st2, {}, {})
    BY <1>1 DEF OutMarked
  <2>8. LiveFor(v, {})
    BY DEF LiveFor
  <2>9. CompleteFor(v, {m}, out, st2, {})
    BY <1>3, <2>3, <2>4 DEF CompleteFor, LeftIn
  <2>10. WalkOK'
    <3>1. img'.vol = v /\ out' = out /\ stack' = st2 /\ seen' = {} /\ {} \cup {MarkerOf(v)} = {m}
      BY <1>1 DEF v, m, st2
    <3> QED
      BY <2>6, <2>7, <2>8, <2>9, <3>1 DEF WalkOK
  <2> QED
    BY <1>5, <2>10 DEF AuditInv
<1> QED
  BY <1>4, <1>6, <1>7

\* The entry at hand leaves the frames, and no other.
LEMMA RestLeft ==
  ASSUME NEW st, NEW e, NEW rest, AtHand(st, e, rest), NEW n, LeftIn(n, st)
  PROVE  n = e \/ LeftIn(n, rest)
<1>1. /\ Len(rest) = Len(st)
      /\ \A f \in 1 .. Len(st) : Range(st[f]) \subseteq Range(rest[f]) \cup {e}
  BY RestIs
<1> QED
  BY <1>1 DEF LeftIn

\* The walk is at an entry: what the state then tells, whatever is done next.
LEMMA EntryAtHand ==
  ASSUME AuditInv, AtEntry
  PROVE  /\ AtHand(stack, entry, Rest) /\ img.vol \in Volume
         /\ seen \in SUBSET (0 .. FIXED_ROOT) /\ pc = "walk"
         /\ entry \in Node /\ entry.id \in FileId /\ entry.first_cluster \in 0 .. FIXED_ROOT
         /\ Rest \in Seq(Seq(Node)) /\ Len(Rest) <= MAX_DEPTH
         /\ Rest # <<>>
         /\ out \in Seq(AnomalyKind) /\ skipped \subseteq {"open", "deep", "failed", "unreadable"}
<1>1. /\ stack \in Seq(Seq(Node)) /\ stack # <<>> /\ Last(stack) # <<>> /\ pc = "walk"
      /\ Len(stack) <= MAX_DEPTH /\ img \in Image /\ seen \subseteq 0 .. FIXED_ROOT
      /\ out \in Seq(AnomalyKind) /\ skipped \subseteq {"open", "deep", "failed", "unreadable"}
  BY DEF AuditInv, TypeOK, AtEntry
<1>2. AtHand(stack, entry, Rest)
  BY <1>1 DEF AtHand, entry, Rest
<1> DEFINE e == entry
           rest == Rest
           st == stack
<1>3. AtHand(st, e, rest) /\ st \in Seq(Seq(Node)) /\ Len(st) <= MAX_DEPTH
  BY <1>1, <1>2
<1> HIDE DEF e, rest, st
<1>4. /\ Smaller(img.vol, rest, st) /\ Len(rest) = Len(st) /\ Len(st) \in Nat \ {0}
      /\ e \in Range(st[Len(st)])
  BY <1>3, RestIs
<1>5. e \in Node
  <2> DEFINE s == st[Len(st)]
  <2>1. s \in Seq(Node)
    BY <1>3, <1>4
  <2>2. e \in Range(s)
    BY <1>4
  <2> HIDE DEF s
  <2> QED
    BY <2>1, <2>2 DEF Range
<1>6. e.id \in FileId /\ e.first_cluster \in 0 .. FIXED_ROOT
  BY <1>5 DEF Node
<1>7. rest \in Seq(Seq(Node)) /\ Len(rest) <= MAX_DEPTH /\ rest # <<>>
  <2>1. rest \in Seq(Seq(Node)) /\ Len(rest) <= MAX_DEPTH /\ Len(rest) # 0
    BY <1>3, <1>4 DEF Smaller
  <2>2. Len(<<>>) = 0
    OBVIOUS
  <2> QED
    BY <2>1, <2>2
<1> QED
  BY <1>1, <1>2, <1>5, <1>6, <1>7 DEF e, rest, Image

\* A deleted entry is reported.
LEMMA DeletedStepInv == AuditInv /\ Deleted => AuditInv'
<1> SUFFICES ASSUME AuditInv, Deleted
             PROVE  AuditInv'
  OBVIOUS
<1> DEFINE v == img.vol
           st == stack
           se == seen
           o == out
           o2 == out'
           e == entry
           rest == Rest
           a == DeletedDirectoryEntry(e.id)
           M == MarkerOf(v)
<1>1. /\ AtHand(st, e, rest) /\ v \in Volume
      /\ se \in SUBSET (0 .. FIXED_ROOT) /\ pc = "walk"
      /\ e \in Node /\ e.id \in FileId
      /\ rest \in Seq(Seq(Node)) /\ Len(rest) <= MAX_DEPTH
      /\ o \in Seq(AnomalyKind) /\ skipped \subseteq {"open", "deep", "failed", "unreadable"}
  BY EntryAtHand DEF Deleted
<1>2. /\ e.name \notin Dots /\ e.is_deleted
      /\ o2 = Append(o, a) /\ stack' = rest
      /\ img' = img /\ pc' = pc /\ seen' = se /\ skipped' = skipped
  BY DEF Deleted
<1>3. a.kind = "DeletedDirectoryEntry" /\ a.id = e.id /\ a \in AnomalyKind
  BY <1>1 DEF DeletedDirectoryEntry, AnomalyKind
<1> DEFINE A == AnomalyKind
<1>4. IsPush(A, o, a, o2)
  BY <1>1, <1>2, <1>3 DEF IsPush
<1> HIDE DEF v, st, se, o, o2, e, rest, M, A
<1>5. o2 \in Seq(A) /\ Range(o) \subseteq Range(o2) /\ a \in Range(o2)
  <2> DEFINE d == a
             l == Len(o) + 1
  <2>1. IsPush(A, o, d, o2) /\ o \in Seq(A)
    BY <1>4 DEF IsPush
  <2> HIDE DEF d
  <2>2. /\ o2 \in Seq(A) /\ Len(o2) = l /\ Len(o) \in Nat /\ o2[l] = d
        /\ \A f \in 1 .. Len(o) : o2[f] = o[f]
    BY <2>1, PushedIs
  <2>3. DOMAIN o2 = 1 .. l /\ DOMAIN o = 1 .. Len(o) /\ l \in 1 .. l /\ 1 .. Len(o) \subseteq 1 .. l
    BY <2>1, <2>2
  <2> HIDE DEF l
  <2>4. d \in Range(o2)
    BY <2>2, <2>3 DEF Range
  <2>5. ASSUME NEW x \in Range(o)
        PROVE  x \in Range(o2)
    <3>1. PICK k \in 1 .. Len(o) : x = o[k]
      BY <2>3, <2>5 DEF Range
    <3> QED
      BY <2>2, <2>3, <3>1 DEF Range
  <2> QED
    BY <2>2, <2>4, <2>5 DEF d
<1>6. TypeOK' /\ Early' /\ img' \in Image
  BY <1>1, <1>2, <1>5 DEF TypeOK, Early, AuditInv, A, o2, se
<1>7. ASSUME AllFound'
      PROVE  WalkOK'
  <2>1. AllFound
    BY <1>2, <1>7 DEF AllFound, Walked, RootMarker, se
  <2>2. /\ FramesOK(v, st, se) /\ LiveFor(v, se)
        /\ \E R : OutMarked(v, o, st, se, R)
        /\ Surveyed => CompleteFor(v, se \cup {M}, o, st, se)
    BY <2>1 DEF AuditInv, WalkOK, v, st, se, o, M
  <2>3. PICK R : OutMarked(v, o, st, se, R)
    BY <2>2
  <2>4. FramesOK(v, rest, se)
    BY <1>1, <2>2, RestIs, FramesShrink
  <2>5. \E R2 : OutMarked(v, o2, rest, se, R2)
    <3> HIDE DEF a
    <3> QED
      BY <1>1, <1>3, <1>4, <2>2, <2>3, Reported
  <2>6. Surveyed => CompleteFor(v, se \cup {M}, o2, rest, se)
    <3>1. Handled(e, o2, se)
      BY <1>2, <1>5 DEF Handled
    <3>2. \A n : LeftIn(n, st) => n = e \/ LeftIn(n, rest)
      BY <1>1, RestLeft
    <3> DEFINE S == se \cup {M}
    <3> HIDE DEF S, a
    <3>3. CompleteFor(v, S, o, st, se) => CompleteFor(v, S, o2, rest, se)
      BY <1>5, <3>1, <3>2, CompleteStays
    <3> QED
      BY <2>2, <3>3 DEF S
  <2>7. Surveyed' <=> Surveyed
    BY <1>2 DEF Surveyed
  <2> QED
    BY <1>2, <2>2, <2>4, <2>5, <2>6, <2>7 DEF WalkOK, v, o2, M
<1> QED
  BY <1>6, <1>7 DEF AuditInv

\* An entry that is neither reported nor entered is passed over.
LEMMA PassStepInv == AuditInv /\ Pass => AuditInv'
<1> SUFFICES ASSUME AuditInv, Pass
             PROVE  AuditInv'
  OBVIOUS
<1> DEFINE v == img.vol
           st == stack
           se == seen
           o == out
           e == entry
           rest == Rest
           M == MarkerOf(v)
<1>1. /\ AtHand(st, e, rest) /\ v \in Volume
      /\ se \in SUBSET (0 .. FIXED_ROOT) /\ pc = "walk"
      /\ rest \in Seq(Seq(Node)) /\ Len(rest) <= MAX_DEPTH
      /\ o \in Seq(AnomalyKind) /\ skipped \subseteq {"open", "deep", "failed", "unreadable"}
  BY EntryAtHand DEF Pass
<1>2. /\ e.name \notin Dots => ~e.is_deleted /\ (IsLiveDir(e) => e.first_cluster \in se)
      /\ stack' = rest /\ out' = o
      /\ img' = img /\ pc' = pc /\ seen' = se /\ skipped' = skipped
  BY DEF Pass, EnterDir
<1> HIDE DEF v, st, se, o, e, rest, M
<1>3. TypeOK' /\ Early' /\ img' \in Image
  BY <1>1, <1>2 DEF TypeOK, Early, AuditInv, se
<1>4. ASSUME AllFound'
      PROVE  WalkOK'
  <2>1. AllFound
    BY <1>2, <1>4 DEF AllFound, Walked, RootMarker, se
  <2>2. /\ FramesOK(v, st, se) /\ LiveFor(v, se)
        /\ \E R : OutMarked(v, o, st, se, R)
        /\ Surveyed => CompleteFor(v, se \cup {M}, o, st, se)
    BY <2>1 DEF AuditInv, WalkOK, v, st, se, o, M
  <2>3. Smaller(v, rest, st) /\ Len(st) \in Nat
    BY <1>1, RestIs
  <2>4. FramesOK(v, rest, se) /\ \E R : OutMarked(v, o, rest, se, R)
    BY <1>1, <2>2, <2>3, FramesShrink, OutShrink
  <2>5. Surveyed => CompleteFor(v, se \cup {M}, o, rest, se)
    <3>1. e.name \notin Dots => Handled(e, o, se)
      BY <1>2 DEF Handled
    <3>2. \A n : LeftIn(n, st) => n = e \/ LeftIn(n, rest)
      BY <1>1, RestLeft
    <3> DEFINE S == se \cup {M}
    <3> HIDE DEF S
    <3>3. CompleteFor(v, S, o, st, se) => CompleteFor(v, S, o, rest, se)
      BY <3>1, <3>2, CompleteStays
    <3> QED
      BY <2>2, <3>3 DEF S
  <2>6. Surveyed' <=> Surveyed
    BY <1>2 DEF Surveyed
  <2> QED
    BY <1>2, <2>2, <2>4, <2>5, <2>6 DEF WalkOK, v, M
<1> QED
  BY <1>3, <1>4 DEF AuditInv

\* A listing is done with.
LEMMA ReturnStepInv == AuditInv /\ Return => AuditInv'
<1> SUFFICES ASSUME AuditInv, Return
             PROVE  AuditInv'
  OBVIOUS
<1> DEFINE v == img.vol
           st == stack
           st2 == stack'
           se == seen
           o == out
           M == MarkerOf(v)
<1>1. /\ v \in Volume /\ se \in SUBSET (0 .. FIXED_ROOT) /\ pc = "walk"
      /\ st \in Seq(Seq(Node)) /\ st # <<>> /\ Len(st) <= MAX_DEPTH /\ Last(st) = <<>>
      /\ o \in Seq(AnomalyKind) /\ skipped \subseteq {"open", "deep", "failed", "unreadable"}
      /\ st2 = Front(st) /\ out' = o
      /\ img' = img /\ pc' = pc /\ seen' = se /\ skipped' = skipped
  BY DEF AuditInv, TypeOK, Return, Image
<1> HIDE DEF v, st, st2, se, o, M
<1>2. /\ Smaller(v, st2, st) /\ Len(st) \in Nat \ {0} /\ Len(st2) = Len(st) - 1
      /\ \A f \in 1 .. Len(st2) : st2[f] = st[f]
  BY <1>1, FrontSmaller
<1>3. st2 \in Seq(Seq(Node)) /\ Len(st2) <= MAX_DEPTH
  BY <1>1, <1>2, AuditAssumption DEF Smaller
<1>4. TypeOK' /\ Early' /\ img' \in Image
  BY <1>1, <1>3 DEF TypeOK, Early, AuditInv, se, st2, o
<1>5. ASSUME AllFound'
      PROVE  WalkOK'
  <2>1. AllFound
    BY <1>1, <1>5 DEF AllFound, Walked, RootMarker, se
  <2>2. /\ FramesOK(v, st, se) /\ LiveFor(v, se)
        /\ \E R : OutMarked(v, o, st, se, R)
        /\ Surveyed => CompleteFor(v, se \cup {M}, o, st, se)
    BY <2>1 DEF AuditInv, WalkOK, v, st, se, o, M
  <2>3. FramesOK(v, st2, se) /\ \E R : OutMarked(v, o, st2, se, R)
    BY <1>1, <1>2, <2>2, FramesShrink, OutShrink
  <2>4. \A n : LeftIn(n, st) => LeftIn(n, st2)
    <3> SUFFICES ASSUME NEW n, LeftIn(n, st)
                 PROVE  LeftIn(n, st2)
      OBVIOUS
    <3>1. PICK f \in 1 .. Len(st) : n \in Range(st[f])
      BY DEF LeftIn
    <3>2. Range(<<>>) = {}
      BY DEF Range
    <3>3. f # Len(st)
      BY <1>1, <3>1, <3>2 DEF Last
    <3>4. f \in 1 .. Len(st2)
      BY <1>2, <3>3
    <3> QED
      BY <1>2, <3>1, <3>4 DEF LeftIn
  <2>5. Surveyed => CompleteFor(v, se \cup {M}, o, st2, se)
    BY <2>2, <2>4 DEF CompleteFor
  <2>6. Surveyed' <=> Surveyed
    BY <1>1 DEF Surveyed
  <2> QED
    BY <1>1, <2>2, <2>3, <2>5, <2>6 DEF WalkOK, v, M, st2
<1> QED
  BY <1>4, <1>5 DEF AuditInv

\* The walk is over.
LEMMA DoneStepInv == AuditInv /\ Done => AuditInv'
<1> SUFFICES ASSUME AuditInv, Done
             PROVE  AuditInv'
  OBVIOUS
<1>1. /\ pc = "walk" /\ pc' = "ok" /\ stack = <<>> /\ stack' = stack
      /\ img' = img /\ out' = out /\ seen' = seen /\ skipped' = skipped
  BY DEF Done
<1>2. TypeOK' /\ Early' /\ img' \in Image
  BY <1>1 DEF AuditInv, TypeOK, Early
<1>3. AllFound' <=> AllFound
  BY <1>1 DEF AllFound, Walked, RootMarker
<1>4. Surveyed' => Surveyed
  BY <1>1 DEF Surveyed
<1>5. WalkOK => WalkOK'
  BY <1>1, <1>4 DEF WalkOK
<1> QED
  BY <1>2, <1>3, <1>5 DEF AuditInv

\* Nothing changes.
LEMMA AuditStutter == AuditInv /\ UNCHANGED vars => AuditInv'
<1> SUFFICES ASSUME AuditInv, UNCHANGED vars
             PROVE  AuditInv'
  OBVIOUS
<1>1. /\ pc' = pc /\ stack' = stack
      /\ img' = img /\ out' = out /\ seen' = seen /\ skipped' = skipped
  BY DEF vars
<1>2. TypeOK' /\ Early' /\ img' \in Image
  BY <1>1 DEF AuditInv, TypeOK, Early
<1>3. AllFound' <=> AllFound
  BY <1>1 DEF AllFound, Walked, RootMarker
<1>4. WalkOK => WalkOK'
  BY <1>1 DEF WalkOK, Surveyed
<1> QED
  BY <1>2, <1>3, <1>4 DEF AuditInv

\* A directory is entered: its listing, if it is read, is that of its marker.
LEMMA DescendStepInv == AuditInv /\ Descend => AuditInv'
<1> SUFFICES ASSUME AuditInv, Descend
             PROVE  AuditInv'
  OBVIOUS
<1> DEFINE v == img.vol
           st == stack
           st2 == stack'
           se == seen
           o == out
           e == entry
           rest == Rest
           m == e.first_cluster
           se2 == se \cup {m}
           listed == read_dir(v, e.id)
           nodes == listed.nodes
           M == MarkerOf(v)
<1>1. /\ AtHand(st, e, rest) /\ v \in Volume
      /\ se \in SUBSET (0 .. FIXED_ROOT) /\ pc = "walk"
      /\ e \in Node /\ e.id \in FileId /\ m \in 0 .. FIXED_ROOT
      /\ rest \in Seq(Seq(Node)) /\ Len(rest) <= MAX_DEPTH
      /\ o \in Seq(AnomalyKind) /\ skipped \subseteq {"open", "deep", "failed", "unreadable"}
  BY EntryAtHand DEF Descend
<1>2. /\ IsLiveDir(e) /\ m \notin se /\ Collect(listed, rest)
      /\ out' = o /\ img' = img /\ pc' = pc /\ seen' = se2
  BY DEF Descend, EnterDir
<1>3. listed # Err => nodes \in Seq(Node)
  BY <1>1, ListedUnder DEF IsListing
<1>4. /\ st2 \in Seq(Seq(Node)) /\ Len(st2) <= MAX_DEPTH
      /\ skipped' \subseteq {"open", "deep", "failed", "unreadable"}
      /\ \/ st2 = rest /\ skipped' # {}
         \/ /\ listed # Err /\ skipped' = skipped
            /\ IsPush(Seq(Node), rest, nodes, st2)
  <2> HIDE DEF listed, rest
  <2> QED
    BY <1>1, <1>2, <1>3, CollectIs
<1> HIDE DEF v, st, st2, se, o, e, rest, m, M, listed, nodes
<1>5. TypeOK' /\ Early' /\ img' \in Image
  BY <1>1, <1>2, <1>4 DEF TypeOK, Early, AuditInv, st2
<1>6. ASSUME AllFound'
      PROVE  WalkOK'
  <2>1. AllFound
    BY <1>2, <1>6 DEF AllFound, Walked, RootMarker, se
  <2>2. /\ FramesOK(v, st, se) /\ LiveFor(v, se)
        /\ \E R : OutMarked(v, o, st, se, R)
        /\ Surveyed => CompleteFor(v, se \cup {M}, o, st, se)
        /\ FoundIn(v, se)
    BY <2>1, FoundIs DEF AuditInv, WalkOK, v, st, se, o, M
  <2>3. Smaller(v, rest, st) /\ Len(st) \in Nat /\ Len(rest) > 0
    BY <1>1, RestIs
  <2>4. FramesOK(v, rest, se) /\ \E R : OutMarked(v, o, rest, se, R)
    BY <1>1, <2>2, <2>3, FramesShrink, OutShrink
  <2>5. PICK c \in se \cup {M} : e \in Under(v, c)
    BY <1>1, <2>2, EntryIs DEF Met, M
  <2>6. ReadAlike(v, e) /\ e.id.index < MaxIndex /\ c \in 0 .. FIXED_ROOT
    BY <1>1, <1>2, <2>2, <2>5, RootListing DEF FoundIn, M
  <2>7. LiveFor(v, se2)
    BY <1>2, <2>2, <2>5 DEF LiveFor, m, M
  <2>8. Handled(e, o, se2)
    BY <1>2 DEF Handled, IsLiveDir, m
  <2>9. Surveyed => CompleteFor(v, se \cup {M}, o, rest, se2)
    <3>1. \A n : LeftIn(n, st) => n = e \/ LeftIn(n, rest)
      BY <1>1, RestLeft
    <3> DEFINE S == se \cup {M}
    <3>2. se \subseteq se2
      OBVIOUS
    <3> HIDE DEF S, se2
    <3>3. CompleteFor(v, S, o, st, se) => CompleteFor(v, S, o, rest, se2)
      BY <2>8, <3>1, <3>2, CompleteStays
    <3> QED
      BY <2>2, <3>3 DEF S
  <2>10. CASE st2 = rest /\ skipped' # {}
    <3>1. ~Surveyed'
      BY <2>10 DEF Surveyed
    <3>2. FramesOK(v, rest, se2) /\ \E R : OutMarked(v, o, rest, se2, R)
      BY <2>4, SeenGrows
    <3> QED
      BY <1>2, <2>7, <2>10, <3>1, <3>2 DEF WalkOK, v, st2
  <2>11. CASE listed # Err /\ skipped' = skipped /\ IsPush(Seq(Node), rest, nodes, st2)
    <3>1. /\ IsListing(nodes, v, m)
          /\ m = FIXED_ROOT => nodes = <<>>
          /\ m # FIXED_ROOT => nodes = entries_under(v, m)
      BY <1>1, <2>5, <2>6, <2>11, ChildListing DEF listed, nodes, m
    <3>2. Range(nodes) \subseteq Under(v, m) /\ (m # FIXED_ROOT => Range(nodes) = Under(v, m))
      <4>1. Range(<<>>) = {}
        BY DEF Range
      <4> QED
        BY <3>1, <4>1 DEF Under
    <3>3. IsChild(v, m, nodes)
      BY <1>1, <3>1, <3>2 DEF IsChild, IsFrame
    <3>4. FramesOK(v, st2, se2)
      BY <1>1, <1>2, <2>3, <2>4, <2>11, <3>3, PushFrame
    <3>5. \E R : OutMarked(v, o, st2, se2, R)
      BY <1>1, <1>2, <2>3, <2>4, <2>11, <3>3, PushOut
    <3>6. ASSUME Surveyed
          PROVE  CompleteFor(v, se2 \cup {M}, o, st2, se2)
      <4> DEFINE F == Seq(Node)
                 l == Len(rest) + 1
      <4>1. IsPush(F, rest, nodes, st2)
        BY <2>11
      <4> HIDE DEF F
      <4>2. /\ Len(st2) = l /\ Len(rest) \in Nat /\ st2[l] = nodes
            /\ \A f \in 1 .. Len(rest) : st2[f] = rest[f]
        BY <4>1, PushedIs
      <4>3. l \in 1 .. Len(st2) /\ 1 .. Len(rest) \subseteq 1 .. Len(st2)
        BY <4>2
      <4> HIDE DEF l
      <4>4. \A n : LeftIn(n, rest) \/ n \in Range(nodes) => LeftIn(n, st2)
        BY <4>2, <4>3 DEF LeftIn
      <4>5. CompleteFor(v, se \cup {M}, o, st2, se2)
        BY <2>9, <3>6, <4>4 DEF CompleteFor
      <4>6. CASE m # FIXED_ROOT
        BY <3>2, <4>4, <4>5, <4>6 DEF CompleteFor
      <4>7. CASE m = FIXED_ROOT
        <5>1. Under(v, m) = {} \/ m = M
          BY <1>1, <4>7, UnderFixedRoot DEF M
        <5> QED
          BY <4>5, <5>1 DEF CompleteFor
      <4> QED
        BY <4>6, <4>7
    <3>7. Surveyed' => Surveyed
      BY <1>2, <2>11 DEF Surveyed
    <3> QED
      BY <1>2, <2>7, <3>4, <3>5, <3>6, <3>7 DEF WalkOK, v, st2, M
  <2> QED
    BY <1>4, <2>10, <2>11
<1> QED
  BY <1>5, <1>6 DEF AuditInv

\* The invariant of the audit holds throughout.
THEOREM AuditInvAlways == Spec => []AuditInv
<1>1. AuditInv /\ [Next]_vars => AuditInv'
  BY CheckStepInv, OpenStepInv, DeletedStepInv, DescendStepInv, PassStepInv,
     ReturnStepInv, DoneStepInv, AuditStutter DEF Next
<1> QED
  BY <1>1, AuditInitInv, PTL DEF Spec

\* The types hold throughout.
THEOREM AuditIsTyped == Spec => []TypeOK
<1>1. AuditInv => TypeOK
  BY DEF AuditInv
<1> QED
  BY <1>1, AuditInvAlways, PTL

\* Only live directories that an entry of a walked directory leads to are walked.
THEOREM LiveDirsOnly == Spec => []OnlyLiveDirsWalked
<1>1. AuditInv => OnlyLiveDirsWalked
  BY DEF AuditInv, WalkOK, LiveFor, OnlyLiveDirsWalked, Walked, Under, RootMarker, MarkerOf
<1> QED
  BY <1>1, AuditInvAlways, PTL

\* A directory that an entry with an index of its own names can be listed.
LEMMA DirIsListed ==
  ASSUME NEW v \in Volume, NEW c \in 0 .. FIXED_ROOT, NEW n \in Under(v, c),
         n.is_dir, n.id.index < MaxIndex
  PROVE  read_dir(v, n.id) # Err
<1>1. n \in Node /\ n.id \in EntryId /\ resolve_entry(v, n.id) = n
  BY UnderIsNode
<1>2. n.id # Root /\ n # Err
  BY <1>1, Shapes
<1>3. dir_source(v, n.id) = Chain(n.first_cluster, n.size, n.contiguous)
  BY <1>1, <1>2 DEF dir_source, SourceOf
<1>4. dir_source(v, n.id) # Err
  BY <1>3, Shapes
<1> QED
  BY <1>4, Shapes DEF read_dir, Listing

\* A directory is entered that is found: it is not passed over as unreadable.
LEMMA DescendReadable ==
  ASSUME AuditInv, AllFound, Descend
  PROVE  "unreadable" \in skipped' => "unreadable" \in skipped
<1> DEFINE v == img.vol
           e == entry
           rest == Rest
           listed == read_dir(v, e.id)
           M == MarkerOf(v)
<1>1. /\ AtHand(stack, e, rest) /\ v \in Volume
      /\ seen \in SUBSET (0 .. FIXED_ROOT) /\ e.id \in FileId
      /\ rest \in Seq(Seq(Node)) /\ Len(rest) <= MAX_DEPTH
      /\ skipped \subseteq {"open", "deep", "failed", "unreadable"}
  BY EntryAtHand DEF Descend
<1>2. IsLiveDir(e) /\ Collect(listed, rest)
  BY DEF Descend, EnterDir
<1>3. FramesOK(v, stack, seen) /\ FoundIn(v, seen)
  BY FoundIs DEF AuditInv, WalkOK
<1>4. listed # Err => listed.nodes \in Seq(Node)
  BY <1>1, ListedUnder DEF IsListing
<1> HIDE DEF v, e, rest, listed, M
<1>5. PICK c \in seen \cup {M} : e \in Under(v, c)
  BY <1>1, <1>3, EntryIs DEF Met, M
<1>6. e.id.index < MaxIndex /\ c \in 0 .. FIXED_ROOT
  BY <1>1, <1>2, <1>3, <1>5, RootListing DEF FoundIn, M
<1>7. e.is_dir
  BY <1>2 DEF IsLiveDir
<1>8. listed # Err
  BY <1>1, <1>5, <1>6, <1>7, DirIsListed DEF listed
<1> QED
  BY <1>1, <1>2, <1>4, <1>8, CollectIs

\* The root is listed.
LEMMA OpenReadable ==
  ASSUME AuditInv, Open
  PROVE  "unreadable" \in skipped' => "unreadable" \in skipped
<1> DEFINE v == img.vol
           listed == read_dir(v, Root)
<1>1. /\ v \in Volume /\ Collect(listed, <<>>)
      /\ skipped \subseteq {"open", "deep", "failed", "unreadable"}
  BY DEF AuditInv, TypeOK, Open, Image
<1>2. listed # Err /\ Root \in FileId
  BY <1>1, RootListing DEF FileId
<1>3. listed.nodes \in Seq(Node)
  BY <1>1, <1>2, ListedUnder DEF IsListing
<1>4. <<>> \in Seq(Seq(Node)) /\ Len(<<>>) <= MAX_DEPTH
  BY AuditAssumption
<1> HIDE DEF listed
<1> QED
  BY <1>1, <1>2, <1>3, <1>4, CollectIs

\* No id of a directory the walk comes to fails to lead back to it.
DirsAreReadable == AllFound => "unreadable" \notin skipped

\* A directory the walk comes to is passed over for its depth or for a read that
\* fails, and for nothing else.
THEOREM FoundAreReadable == Spec => []DirsAreReadable
<1>1. Init => DirsAreReadable
  BY DEF Init, DirsAreReadable
<1>2. ASSUME AuditInv, DirsAreReadable, [Next]_vars
      PROVE  DirsAreReadable'
  <2> SUFFICES ASSUME AllFound'
               PROVE  "unreadable" \notin skipped'
    BY DEF DirsAreReadable
  <2>1. img' = img /\ seen \subseteq seen'
    BY <1>2 DEF Next, vars, Boot, CheckExfatChecksum, CheckFatMirror, NoMirror, CheckFails,
                Open, OpenFails, Deleted, Descend, Pass, Return, Done
  <2>2. AllFound
    BY <2>1 DEF AllFound, Walked, RootMarker
  <2>3. "unreadable" \notin skipped
    BY <1>2, <2>2 DEF DirsAreReadable
  <2>4. CASE Open
    BY <1>2, <2>3, <2>4, OpenReadable
  <2>5. CASE Descend
    BY <1>2, <2>2, <2>3, <2>5, DescendReadable
  <2>6. CASE OpenFails
    BY <2>3, <2>6 DEF OpenFails
  <2>7. CASE ~Open /\ ~Descend /\ ~OpenFails
    <3>1. skipped' = skipped
      BY <1>2, <2>7 DEF Next, vars, Boot, CheckExfatChecksum, CheckFatMirror, NoMirror,
                        CheckFails, Deleted, Pass, Return, Done
    <3> QED
      BY <2>3, <3>1
  <2> QED
    BY <2>4, <2>5, <2>6, <2>7
<1> QED
  BY <1>1, <1>2, AuditInvAlways, PTL DEF Spec

\* A walk in which no directory lay too deep and no read failed has reported
\* every deleted entry it met (forensic/src/lib.rs, collect_deleted).
THEOREM NoneIsMissed == Spec => []WalkIsComplete
<1>1. AuditInv /\ DirsAreReadable => WalkIsComplete
  <2> SUFFICES ASSUME AuditInv, pc = "ok", img.sig_ok, img.bpb_ok, skipped = {}, AllFound,
                      NEW c \in seen \cup {RootMarker}, NEW n \in Walked(c), n.name \notin Dots
               PROVE  Handled(n, out, seen)
    BY DEF WalkIsComplete, Handled, DirsAreReadable
  <2>1. stack = <<>>
    BY DEF AuditInv, TypeOK
  <2>2. CompleteFor(img.vol, seen \cup {MarkerOf(img.vol)}, out, stack, seen)
    BY DEF AuditInv, WalkOK, Surveyed
  <2>3. ~LeftIn(n, stack)
    BY <2>1 DEF LeftIn
  <2> QED
    BY <2>2, <2>3 DEF CompleteFor, Walked, Under, RootMarker, MarkerOf
<1> QED
  BY <1>1, AuditInvAlways, FoundAreReadable, PTL

\* A set of no more than two.
LEMMA TwoAtMost ==
  ASSUME NEW x, NEW y, NEW S, S \subseteq {x, y}
  PROVE  Cardinality(S) <= 2 /\ (x = y => Cardinality(S) <= 1)
<1>1. /\ IsFiniteSet({x, y}) /\ Cardinality({x, y}) <= 2
      /\ x = y => Cardinality({x, y}) = 1
  <2>1. IsFiniteSet({x}) /\ Cardinality({x}) = 1
    BY FS_Singleton
  <2>2. {x, y} = {x} \cup {y}
    OBVIOUS
  <2> QED
    BY <2>1, <2>2, FS_AddElement
<1>2. /\ Cardinality(S) <= Cardinality({x, y})
      /\ Cardinality(S) \in Nat /\ Cardinality({x, y}) \in Nat
  BY <1>1, FS_Subset, FS_CardinalityType
<1> DEFINE small == Cardinality(S)
           pair == Cardinality({x, y})
<1>3. small <= pair /\ small \in Nat /\ pair \in Nat /\ pair <= 2 /\ (x = y => pair = 1)
  BY <1>1, <1>2
<1> HIDE DEF small, pair
<1>4. small <= 2 /\ (x = y => small <= 1)
  BY <1>3
<1> QED
  BY <1>4 DEF small

\* No deleted entry is reported twice, but in a clustered root that is re-entered.
THEOREM NoneIsRepeated == Spec => []ReportedOnce
<1>1. AuditInv => ReportedOnce
  <2> SUFFICES ASSUME AuditInv, AllFound, NEW a \in Range(out),
                      a.kind = "DeletedDirectoryEntry", a.id.index < MaxIndex
               PROVE  Cardinality({ k \in 1 .. Len(out) : out[k] = a })
                        <= (IF root_is_clustered(img.vol) /\ a.id.dir_cluster = RootMarker THEN 2 ELSE 1)
    BY DEF ReportedOnce
  <2> DEFINE v == img.vol
             S == { k \in 1 .. Len(out) : out[k] = a }
  <2>1. out \in Seq(AnomalyKind) /\ v \in Volume
    BY DEF AuditInv, TypeOK, Image
  <2>2. PICK R : OutMarked(v, out, stack, seen, R)
    BY DEF AuditInv, WalkOK
  <2>3. \A k \in S : k \in 1 .. Len(out) /\ out[k] = a /\ IsReport(out[k])
    BY DEF IsReport
  <2>4. \A k, l \in S : (k \in R <=> l \in R) => k = l
    BY <2>2, <2>3 DEF OutMarked
  <2>5. (\E k \in S : k \in R) /\ (\E k \in S : k \notin R) =>
          root_is_clustered(v) /\ a.id.dir_cluster = RootMarker
    <3>1. a.id.dir_cluster = MarkerOf(v) /\ a.id.dir_cluster # FIXED_ROOT => root_is_clustered(v)
      BY DEF MarkerOf, dir_source, source_marker, FixedRoot
    <3> QED
      BY <2>2, <2>3, <3>1 DEF OutMarked, RootMarker, MarkerOf
  <2> HIDE DEF S
  <2>6. \E x, y : S \subseteq {x, y} /\ (((\E k \in S : k \in R) /\ (\E k \in S : k \notin R)) \/ x = y)
    <3>1. CASE (\E k \in S : k \in R) /\ (\E k \in S : k \notin R)
      <4>1. PICK x \in S : x \in R
        BY <3>1
      <4>2. PICK y \in S : y \notin R
        BY <3>1
      <4>3. S \subseteq {x, y}
        BY <2>4, <4>1, <4>2
      <4> QED
        BY <3>1, <4>3
    <3>2. CASE ~((\E k \in S : k \in R) /\ (\E k \in S : k \notin R))
      <4>1. \A k, l \in S : k = l
        BY <2>4, <3>2
      <4>2. \E x : S \subseteq {x}
        BY <4>1
      <4> QED
        BY <4>2
    <3> QED
      BY <3>1, <3>2
  <2>7. PICK x, y : S \subseteq {x, y} /\ (((\E k \in S : k \in R) /\ (\E k \in S : k \notin R)) \/ x = y)
    BY <2>6
  <2>8. Cardinality(S) <= 2 /\ (x = y => Cardinality(S) <= 1)
    BY <2>7, TwoAtMost
  <2> QED
    BY <2>5, <2>7, <2>8 DEF S
<1> QED
  BY <1>1, AuditInvAlways, PTL

-----------------------------------------------------------------------------
\* The two walks.  A path is a way from the root down to a node, through live
\* directories, no longer than a walk recurses.
LeadsTo(v, id, n) == read_dir(v, id) # Err /\ n \in Range(read_dir(v, id).nodes)

IsPath(v, p) ==
  /\ p \in Seq(Node) /\ Len(p) > 0 /\ Len(p) <= MAX_DEPTH
  /\ LeadsTo(v, Root, p[1])
  /\ \A i \in 2 .. Len(p) : IsLiveDir(p[i - 1]) /\ LeadsTo(v, p[i - 1].id, p[i])

\* The nodes in the frames of a walk are at the ends of paths.
AtPath(v, f, n) == \E p : IsPath(v, p) /\ Len(p) = f /\ p[f] = n

Routed(v, st) == \A f \in 1 .. Len(st) : \A n \in Range(st[f]) : AtPath(v, f, n)

\* What is listed is a node.
LEMMA LeadsToNode ==
  ASSUME NEW v \in Volume, NEW id \in FileId, NEW n, LeadsTo(v, id, n)
  PROVE  n \in Node
BY ListedLeadsBack DEF LeadsTo

\* The nodes of the root are one step away.
LEMMA PathStarts ==
  ASSUME NEW v \in Volume, NEW n, LeadsTo(v, Root, n)
  PROVE  AtPath(v, 1, n)
<1> DEFINE p == <<n>>
<1>1. Root \in FileId
  BY DEF FileId
<1>2. n \in Node
  BY <1>1, LeadsToNode
<1>3. p \in Seq(Node) /\ Len(p) = 1 /\ p[1] = n /\ 2 .. 1 = {}
  BY <1>2
<1>4. 1 <= MAX_DEPTH
  BY AuditAssumption
<1> HIDE DEF p
<1>5. IsPath(v, p)
  BY <1>3, <1>4 DEF IsPath
<1> QED
  BY <1>3, <1>5 DEF AtPath

\* A path ends in a live directory: it goes on to what is listed there.
LEMMA PathGrows ==
  ASSUME NEW v \in Volume, NEW f \in Nat, NEW e \in Node, AtPath(v, f, e),
         IsLiveDir(e), f < MAX_DEPTH, NEW n, LeadsTo(v, e.id, n)
  PROVE  AtPath(v, f + 1, n)
<1>1. PICK p : IsPath(v, p) /\ Len(p) = f /\ p[f] = e
  BY DEF AtPath
<1>2. e.id \in FileId
  BY DEF Node
<1>3. n \in Node
  BY <1>2, LeadsToNode
<1> DEFINE q == Append(p, n)
           l == f + 1
           N == Node
<1>4. IsPush(N, p, n, q)
  BY <1>1, <1>3 DEF IsPush, IsPath
<1> HIDE DEF q, N
<1>5. /\ q \in Seq(N) /\ Len(q) = Len(p) + 1 /\ q[Len(p) + 1] = n
      /\ \A i \in 1 .. Len(p) : q[i] = p[i]
  BY <1>4, PushedIs
<1>6. Len(q) = l /\ q[l] = n /\ \A i \in 1 .. f : q[i] = p[i]
  BY <1>1, <1>5
<1>7. f > 0 /\ l <= MAX_DEPTH /\ l > 0
  BY <1>1, AuditAssumption DEF IsPath
<1>8. LeadsTo(v, Root, q[1])
  BY <1>1, <1>6, <1>7 DEF IsPath
<1>9. ASSUME NEW i \in 2 .. l
      PROVE  IsLiveDir(q[i - 1]) /\ LeadsTo(v, q[i - 1].id, q[i])
  <2>1. i - 1 \in 1 .. f
    OBVIOUS
  <2>2. q[i - 1] = p[i - 1]
    BY <1>6, <2>1
  <2>3. CASE i = l
    <3>1. i - 1 = f
      BY <2>3
    <3>2. q[i - 1] = e /\ q[i] = n
      BY <1>1, <1>6, <2>2, <2>3, <3>1
    <3> QED
      BY <3>2
  <2>4. CASE i # l
    <3>1. i \in 2 .. Len(p) /\ q[i] = p[i]
      BY <1>1, <1>6, <2>4
    <3> QED
      BY <1>1, <2>2, <3>1 DEF IsPath
  <2> QED
    BY <2>3, <2>4
<1>10. IsPath(v, q)
  BY <1>5, <1>6, <1>7, <1>8, <1>9 DEF IsPath, N
<1> QED
  BY <1>6, <1>10 DEF AtPath

\* Frames that hold less are as good.
LEMMA RoutedShrinks ==
  ASSUME NEW v, NEW st, NEW small, Routed(v, st), Smaller(v, small, st), Len(st) \in Nat
  PROVE  Routed(v, small)
<1>1. Len(small) \in Nat /\ Len(small) <= Len(st)
  BY DEF Smaller
<1>2. \A f \in 1 .. Len(small) : f \in 1 .. Len(st)
  BY <1>1
<1>3. \A f \in 1 .. Len(small) : Range(small[f]) \subseteq Range(st[f])
  BY DEF Smaller
<1> QED
  BY <1>2, <1>3 DEF Routed

\* The listing of a directory is one step further than its entry.
LEMMA RoutedGrows ==
  ASSUME NEW v \in Volume, NEW st, Routed(v, st), NEW nodes, NEW pushed,
         IsPush(Seq(Node), st, nodes, pushed),
         \A n \in Range(nodes) : AtPath(v, Len(st) + 1, n)
  PROVE  Routed(v, pushed)
<1> DEFINE F == Seq(Node)
           l == Len(st) + 1
<1>1. IsPush(F, st, nodes, pushed)
  OBVIOUS
<1> HIDE DEF F
<1>2. /\ Len(pushed) = l /\ Len(st) \in Nat /\ pushed[l] = nodes
      /\ \A f \in 1 .. Len(st) : pushed[f] = st[f]
  BY <1>1, PushedIs
<1>3. \A f \in 1 .. Len(pushed) : f = l \/ f \in 1 .. Len(st)
  BY <1>2
<1>4. \A n \in Range(nodes) : AtPath(v, l, n)
  OBVIOUS
<1> HIDE DEF l
<1> QED
  BY <1>2, <1>3, <1>4 DEF Routed

\* The audit keeps to paths, whether or not the directories are found again.
ReportsRouted(v, o) ==
  \A k \in 1 .. Len(o) : IsReport(o[k]) =>
    \E f, n : /\ AtPath(v, f, n) /\ n.id = o[k].id
              /\ n.is_deleted /\ n.name \notin Dots

AuditRouted == Routed(img.vol, stack) /\ ReportsRouted(img.vol, out)

\* Nothing is reported by the steps that come before the walk.
LEMMA BeforeNoReport ==
  ASSUME AuditInv,
         Boot \/ CheckExfatChecksum \/ CheckFatMirror \/ NoMirror \/ CheckFails \/ OpenFails \/ Open
  PROVE  \A k \in 1 .. Len(out') : ~IsReport(out'[k])
<1>1. CASE Open
  BY <1>1 DEF AuditInv, Early, Open
<1>2. CASE ~Open
  BY <1>2, CheckStepInv DEF NoReport
<1> QED
  BY <1>1, <1>2

\* No step of it leaves them.
LEMMA AuditStaysRouted ==
  ASSUME AuditInv, AuditRouted, Next
  PROVE  AuditRouted'
<1> DEFINE v == img.vol
           st == stack
           st2 == stack'
           o == out
           o2 == out'
           e == entry
           rest == Rest
<1>1. /\ v \in Volume /\ Routed(v, st) /\ ReportsRouted(v, o) /\ v' = v
      /\ st \in Seq(Seq(Node)) /\ Len(st) <= MAX_DEPTH
      /\ o \in Seq(AnomalyKind) /\ skipped \subseteq {"open", "deep", "failed", "unreadable"}
  BY DEF AuditInv, TypeOK, AuditRouted, Image, Next, Boot, CheckExfatChecksum, CheckFatMirror,
         NoMirror, CheckFails, Open, OpenFails, Deleted, Descend, Pass, Return, Done
<1>2. AtEntry =>
        /\ AtHand(st, e, rest) /\ e \in Node /\ e.id \in FileId
        /\ rest \in Seq(Seq(Node)) /\ Len(rest) <= MAX_DEPTH
  BY EntryAtHand
<1>3. ASSUME AtEntry
      PROVE  Routed(v, rest) /\ AtPath(v, Len(st), e) /\ Len(rest) = Len(st) /\ Len(st) \in Nat
  <2> HIDE DEF v, st, e, rest
  <2>1. /\ Smaller(v, rest, st) /\ e \in Range(st[Len(st)])
        /\ Len(rest) = Len(st) /\ Len(st) \in Nat \ {0}
    BY <1>2, <1>3, RestIs
  <2>2. Len(st) \in 1 .. Len(st)
    BY <2>1
  <2>3. Routed(v, rest)
    BY <1>1, <2>1, RoutedShrinks
  <2> QED
    BY <1>1, <2>1, <2>2, <2>3 DEF Routed
<1>4. CASE Boot \/ CheckExfatChecksum \/ CheckFatMirror \/ NoMirror \/ CheckFails \/ OpenFails \/ Open
  <2>1. AuditInv'
    BY <1>4, CheckStepInv, OpenStepInv
  <2>2. \A k \in 1 .. Len(o2) : ~IsReport(o2[k])
    BY <1>4, BeforeNoReport
  <2>3. ReportsRouted(v, o2)
    BY <2>2 DEF ReportsRouted
  <2>4. st = <<>>
    BY <1>4 DEF AuditInv, Early, Boot, CheckExfatChecksum, CheckFatMirror, NoMirror,
                CheckFails, OpenFails, Open
  <2>5. CASE ~Open
    <3>1. st2 = st
      BY <1>4, <2>5 DEF Boot, CheckExfatChecksum, CheckFatMirror, NoMirror, CheckFails, OpenFails
    <3> HIDE DEF v, o2
    <3> QED
      BY <1>1, <2>3, <3>1 DEF AuditRouted, v, o2
  <2>6. CASE Open
    <3> DEFINE listed == read_dir(v, Root)
               nodes == listed.nodes
               none == <<>>
               F == Seq(Node)
    <3>1. Root \in FileId /\ (listed # Err => nodes \in F)
      BY <1>1, ListedUnder DEF IsListing, FileId
    <3>2. Collect(listed, none) /\ none \in Seq(F) /\ Len(none) <= MAX_DEPTH
      BY <2>6, AuditAssumption DEF Open
    <3>3. Len(none) + 1 = 1
      OBVIOUS
    <3> HIDE DEF listed, none
    <3>4. st2 = none \/ (listed # Err /\ IsPush(F, none, nodes, st2))
      BY <1>1, <3>1, <3>2, CollectIs
    <3>5. Routed(v, none)
      BY <3>3 DEF Routed, none
    <3>6. listed # Err => \A n \in Range(nodes) : AtPath(v, 1, n)
      BY <1>1, PathStarts DEF LeadsTo, listed
    <3> HIDE DEF v, o2, st2, nodes, F
    <3>7. IsPush(F, none, nodes, st2) /\ listed # Err => Routed(v, st2)
      BY <1>1, <3>3, <3>5, <3>6, RoutedGrows DEF F
    <3>8. Routed(v, st2)
      BY <3>4, <3>5, <3>7
    <3> QED
      BY <1>1, <2>3, <3>8 DEF AuditRouted, v, o2, st2
  <2> QED
    BY <1>4, <2>5, <2>6
<1>5. CASE Deleted
  <2> DEFINE a == DeletedDirectoryEntry(e.id)
             A == AnomalyKind
  <2>1. /\ AtEntry /\ o2 = Append(o, a) /\ st2 = rest /\ e.name \notin Dots /\ e.is_deleted
        /\ a.id = e.id
    BY <1>5 DEF Deleted, DeletedDirectoryEntry
  <2>2. IsPush(A, o, a, o2)
    BY <1>1, <1>2, <2>1 DEF IsPush, AnomalyKind, DeletedDirectoryEntry
  <2> HIDE DEF v, st, st2, o, o2, e, rest, a, A
  <2>3. /\ Len(o2) = Len(o) + 1 /\ Len(o) \in Nat /\ o2[Len(o) + 1] = a
        /\ \A f \in 1 .. Len(o) : o2[f] = o[f]
    BY <2>2, PushedIs
  <2>4. ASSUME NEW k \in 1 .. Len(o2), IsReport(o2[k])
        PROVE  \E f, n : /\ AtPath(v, f, n) /\ n.id = o2[k].id
                         /\ n.is_deleted /\ n.name \notin Dots
    <3>1. CASE k = Len(o) + 1
      BY <1>3, <2>1, <2>3, <3>1
    <3>2. CASE k # Len(o) + 1
      <4>1. k \in 1 .. Len(o)
        BY <2>3, <3>2
      <4> QED
        BY <1>1, <2>3, <2>4, <4>1 DEF ReportsRouted
    <3> QED
      BY <3>1, <3>2
  <2>5. ReportsRouted(v, o2)
    BY <2>4 DEF ReportsRouted
  <2> QED
    BY <1>1, <1>3, <2>1, <2>5 DEF AuditRouted, v, o2, st2
<1>6. CASE Descend
  <2> DEFINE listed == read_dir(v, e.id)
             nodes == listed.nodes
             F == Seq(Node)
  <2>1. AtEntry /\ IsLiveDir(e) /\ Collect(listed, rest) /\ o2 = o
    BY <1>6 DEF Descend, EnterDir
  <2>2. listed # Err => nodes \in F
    BY <1>1, <1>2, <2>1, ListedUnder DEF IsListing
  <2>3. rest \in Seq(F)
    BY <1>2, <2>1
  <2>4. Len(rest) <= MAX_DEPTH
    BY <1>2, <2>1
  <2> HIDE DEF listed, rest
  <2>5. Len(st2) <= MAX_DEPTH /\ (st2 = rest \/ (listed # Err /\ IsPush(F, rest, nodes, st2)))
    BY <1>1, <2>1, <2>2, <2>3, <2>4, CollectIs
  <2> HIDE DEF v, st, st2, e, nodes, F, o, o2
  <2>6. CASE st2 = rest
    BY <1>1, <1>3, <2>1, <2>6 DEF AuditRouted, v, o, o2, st2
  <2>7. CASE listed # Err /\ IsPush(F, rest, nodes, st2)
    <3>1. Len(st2) = Len(rest) + 1
      BY <2>7, PushedIs
    <3>2. Len(st) < MAX_DEPTH
      BY <1>3, <2>1, <2>5, <3>1, AuditAssumption
    <3>3. \A n \in Range(nodes) : LeadsTo(v, e.id, n)
      BY <2>7 DEF LeadsTo, nodes, listed
    <3> DEFINE l == Len(st)
    <3>4. l \in Nat /\ e \in Node /\ AtPath(v, l, e) /\ IsLiveDir(e) /\ l < MAX_DEPTH
      BY <1>2, <1>3, <2>1, <3>2
    <3> HIDE DEF l
    <3>5. \A n \in Range(nodes) : AtPath(v, l + 1, n)
      BY <1>1, <3>3, <3>4, PathGrows
    <3>6. \A n \in Range(nodes) : AtPath(v, Len(rest) + 1, n)
      BY <1>3, <2>1, <3>5 DEF l
    <3>7. Routed(v, st2)
      BY <1>1, <1>3, <2>1, <2>7, <3>6, RoutedGrows DEF F
    <3> QED
      BY <1>1, <2>1, <3>7 DEF AuditRouted, v, o, o2, st2
  <2> QED
    BY <2>5, <2>6, <2>7
<1>7. CASE Pass
  <2>1. AtEntry /\ o2 = o /\ st2 = rest
    BY <1>7 DEF Pass
  <2> HIDE DEF v, st, st2, rest, o, o2
  <2> QED
    BY <1>1, <1>3, <2>1 DEF AuditRouted, v, o, o2, st2
<1>8. CASE Return
  <2>1. o2 = o /\ st2 = Front(st) /\ st # <<>>
    BY <1>8 DEF Return
  <2> HIDE DEF v, st, st2, o, o2
  <2>2. Smaller(v, st2, st) /\ Len(st) \in Nat
    BY <1>1, <2>1, FrontSmaller
  <2>3. Routed(v, st2)
    BY <1>1, <2>2, RoutedShrinks
  <2> QED
    BY <1>1, <2>1, <2>3 DEF AuditRouted, v, o, o2, st2
<1>9. CASE Done
  <2>1. o2 = o /\ st2 = st
    BY <1>9 DEF Done
  <2> HIDE DEF v, st, st2, o, o2
  <2> QED
    BY <1>1, <2>1 DEF AuditRouted, v, o, o2, st2, st
<1> QED
  BY <1>4, <1>5, <1>6, <1>7, <1>8, <1>9 DEF Next

-----------------------------------------------------------------------------
\* The listing prints what lies at the end of a path, or has a frame with a
\* node of the path still to come to.
Accounted(n, ls) == n.name \in Dots \/ n.is_volume_label \/ n \in Range(ls)

Pending(p, st) == \E f \in 1 .. Len(st) : f <= Len(p) /\ p[f] \in Range(st[f])

CoveredBy(v, st, ls) ==
  \A p : IsPath(v, p) => Accounted(p[Len(p)], ls) \/ Pending(p, st)

\* What is shown stays so.
LEMMA ShownStays ==
  ASSUME NEW n, NEW ls, NEW ls2, Range(ls) \subseteq Range(ls2), Accounted(n, ls)
  PROVE  Accounted(n, ls2)
BY DEF Accounted

\* The frames below that of the entry at hand are as they were.
LEMMA RestBelow ==
  ASSUME NEW st, NEW e, NEW rest, AtHand(st, e, rest), NEW f \in 1 .. Len(st), f # Len(st)
  PROVE  Range(st[f]) = Range(rest[f])
<1> DEFINE front == Front(st)
           t == Tail(Last(st))
           F == Seq(Node)
<1>1. st \in Seq(Seq(Node)) /\ st # <<>> /\ rest = Append(front, t) /\ Last(st) # <<>>
  BY DEF AtHand
<1>2. Len(st) \in Nat \ {0} /\ rest \in Seq(Seq(Node))
  BY RestIs DEF Smaller
<1>3. /\ front \in Seq(F) /\ Len(front) = Len(st) - 1
      /\ \A i \in 1 .. Len(st) - 1 : front[i] = st[i]
  BY <1>1, FrontIs
<1>4. t \in F
  <2> DEFINE s == Last(st)
  <2>1. s \in F
    BY <1>1, <1>2 DEF Last
  <2>2. s # <<>>
    BY <1>1
  <2> HIDE DEF s
  <2> QED
    BY <2>1, <2>2 DEF s
<1>5. IsPush(F, front, t, rest)
  BY <1>1, <1>3, <1>4 DEF IsPush
<1> HIDE DEF front, t, F
<1>6. \A i \in 1 .. Len(front) : rest[i] = front[i]
  BY <1>5, PushedIs
<1>7. f \in 1 .. Len(front) /\ f \in 1 .. Len(st) - 1
  BY <1>2, <1>3
<1> QED
  BY <1>3, <1>6, <1>7

\* The entry at hand leaves the frames: only the paths through it are concerned.
LEMMA PendingStays ==
  ASSUME NEW st, NEW e, NEW rest, AtHand(st, e, rest), NEW p, Pending(p, st)
  PROVE  Pending(p, rest) \/ (Len(st) <= Len(p) /\ p[Len(st)] = e)
<1>1. /\ Len(rest) = Len(st) /\ Len(st) \in Nat \ {0}
      /\ \A f \in 1 .. Len(st) : Range(st[f]) \subseteq Range(rest[f]) \cup {e}
  BY RestIs
<1>2. PICK f \in 1 .. Len(st) : f <= Len(p) /\ p[f] \in Range(st[f])
  BY DEF Pending
<1>3. CASE p[f] \in Range(rest[f])
  BY <1>1, <1>2, <1>3 DEF Pending
<1>4. CASE p[f] = e /\ f = Len(st)
  BY <1>2, <1>4
<1>5. CASE f # Len(st)
  <2>1. Range(st[f]) = Range(rest[f])
    BY <1>5, RestBelow
  <2> QED
    BY <1>1, <1>2, <2>1 DEF Pending
<1> QED
  BY <1>1, <1>2, <1>3, <1>4, <1>5

\* The entry at hand is done with, and no path goes on from it that is not
\* pending again: the listing still covers what it did.
LEMMA CoverStays ==
  ASSUME NEW v, NEW st, NEW ls, CoveredBy(v, st, ls),
         NEW e, NEW rest, AtHand(st, e, rest),
         NEW ls2, Range(ls) \subseteq Range(ls2), Accounted(e, ls2),
         NEW st2, \A p : Pending(p, rest) => Pending(p, st2),
         \A p : /\ IsPath(v, p) /\ Len(st) < Len(p) /\ p[Len(st)] = e
                => Pending(p, st2)
  PROVE  CoveredBy(v, st2, ls2)
<1> SUFFICES ASSUME NEW p, IsPath(v, p)
             PROVE  Accounted(p[Len(p)], ls2) \/ Pending(p, st2)
  BY DEF CoveredBy
<1>1. Accounted(p[Len(p)], ls) \/ Pending(p, st)
  BY DEF CoveredBy
<1>2. CASE Accounted(p[Len(p)], ls)
  BY <1>2, ShownStays
<1>3. CASE Pending(p, st)
  <2>1. Pending(p, rest) \/ (Len(st) <= Len(p) /\ p[Len(st)] = e)
    BY <1>3, PendingStays
  <2>2. Len(st) \in Nat /\ Len(p) \in Nat
    BY RestIs DEF IsPath
  <2>3. Len(st) <= Len(p) => Len(st) = Len(p) \/ Len(st) < Len(p)
    BY <2>2
  <2> QED
    BY <2>1, <2>3
<1> QED
  BY <1>1, <1>2, <1>3

\* A path goes on through a live directory.
LEMMA PathGoesOn ==
  ASSUME NEW v, NEW p, IsPath(v, p), NEW n \in Nat \ {0}, n < Len(p)
  PROVE  /\ IsLiveDir(p[n]) /\ LeadsTo(v, p[n].id, p[n + 1])
         /\ n + 1 <= Len(p) /\ n + 1 <= MAX_DEPTH
<1> DEFINE i == n + 1
<1>1. Len(p) \in Nat /\ Len(p) <= MAX_DEPTH /\ MAX_DEPTH \in Nat
  BY AuditAssumption DEF IsPath
<1>2. i \in 2 .. Len(p) /\ i - 1 = n /\ i <= Len(p) /\ i <= MAX_DEPTH
  BY <1>1
<1> HIDE DEF i
<1>3. IsLiveDir(p[i - 1]) /\ LeadsTo(v, p[i - 1].id, p[i])
  BY <1>2 DEF IsPath
<1> QED
  BY <1>2, <1>3 DEF i

\* A frame with the rest of the paths comes on top.
LEMMA PendingGrows ==
  ASSUME NEW st \in Seq(Seq(Node)), NEW nodes, NEW pushed,
         IsPush(Seq(Node), st, nodes, pushed)
  PROVE  /\ \A p : Pending(p, st) => Pending(p, pushed)
         /\ \A p : Len(st) + 1 <= Len(p) /\ p[Len(st) + 1] \in Range(nodes)
                     => Pending(p, pushed)
<1> DEFINE F == Seq(Node)
           l == Len(st) + 1
<1>1. IsPush(F, st, nodes, pushed)
  OBVIOUS
<1> HIDE DEF F
<1>2. /\ Len(pushed) = l /\ Len(st) \in Nat /\ pushed[l] = nodes
      /\ \A f \in 1 .. Len(st) : pushed[f] = st[f]
  BY <1>1, PushedIs
<1>3. l \in 1 .. Len(pushed) /\ \A f \in 1 .. Len(st) : f \in 1 .. Len(pushed)
  BY <1>2
<1>4. \A p : l <= Len(p) /\ p[l] \in Range(nodes) => Pending(p, pushed)
  BY <1>2, <1>3 DEF Pending
<1>5. \A p : Pending(p, st) => Pending(p, pushed)
  BY <1>2, <1>3 DEF Pending
<1> QED
  BY <1>4, <1>5

\* The frame that is done with is empty.
LEMMA PendingReturns ==
  ASSUME NEW st, NEW front, st \in Seq(Seq(Node)) /\ st # <<>> /\ front = Front(st),
         Last(st) = <<>>, NEW p, Pending(p, st)
  PROVE  Pending(p, front)
<1>1. /\ Len(st) \in Nat \ {0} /\ Len(front) = Len(st) - 1
      /\ \A f \in 1 .. Len(front) : front[f] = st[f]
  BY FrontSmaller
<1>2. PICK f \in 1 .. Len(st) : f <= Len(p) /\ p[f] \in Range(st[f])
  BY DEF Pending
<1>3. Range(<<>>) = {}
  BY DEF Range
<1>4. f # Len(st)
  BY <1>2, <1>3 DEF Last
<1>5. f \in 1 .. Len(front)
  BY <1>1, <1>4
<1> QED
  BY <1>1, <1>2, <1>5 DEF Pending

-----------------------------------------------------------------------------
\* A set of directories with the root that no live entry leads out of.
IsClosed(v, W) ==
  /\ W \subseteq 0 .. FIXED_ROOT /\ MarkerOf(v) \in W
  /\ \A c \in W : \A n \in Under(v, c) : IsLiveDir(n) =>
       n.first_cluster \in W /\ ReadAlike(v, n) /\ n.id.index < MaxIndex

InSome(v, W, n) == \E c \in W : n \in Under(v, c)

\* The listing does not leave it.
Within(v, W, st) == \A f \in 1 .. Len(st) : \A n \in Range(st[f]) : InSome(v, W, n)

\* The frames hold less.
LEMMA WithinShrinks ==
  ASSUME NEW v, NEW W, NEW st, NEW small, Within(v, W, st), Smaller(v, small, st), Len(st) \in Nat
  PROVE  Within(v, W, small)
<1>1. Len(small) \in Nat /\ Len(small) <= Len(st)
  BY DEF Smaller
<1>2. \A f \in 1 .. Len(small) : f \in 1 .. Len(st)
  BY <1>1
<1>3. \A f \in 1 .. Len(small) : Range(small[f]) \subseteq Range(st[f])
  BY DEF Smaller
<1> QED
  BY <1>2, <1>3 DEF Within

\* A frame more.
LEMMA WithinGrows ==
  ASSUME NEW v, NEW W, NEW st, NEW nodes, NEW pushed, Within(v, W, st),
         IsPush(Seq(Node), st, nodes, pushed), \A n \in Range(nodes) : InSome(v, W, n)
  PROVE  Within(v, W, pushed)
<1> DEFINE F == Seq(Node)
           l == Len(st) + 1
<1>1. IsPush(F, st, nodes, pushed)
  OBVIOUS
<1> HIDE DEF F
<1>2. /\ Len(pushed) = l /\ Len(st) \in Nat /\ pushed[l] = nodes
      /\ \A f \in 1 .. Len(st) : pushed[f] = st[f]
  BY <1>1, PushedIs
<1>3. \A f \in 1 .. Len(pushed) : f = l \/ f \in 1 .. Len(st)
  BY <1>2
<1> HIDE DEF l
<1> QED
  BY <1>2, <1>3 DEF Within

\* What is listed of one of its live directories is in it.
LEMMA ClosedListing ==
  ASSUME NEW v \in Volume, NEW W, IsClosed(v, W), NEW e, InSome(v, W, e), IsLiveDir(e),
         read_dir(v, e.id) # Err, NEW n \in Range(read_dir(v, e.id).nodes)
  PROVE  InSome(v, W, n)
<1>1. PICK c \in W : e \in Under(v, c)
  BY DEF InSome
<1>2. /\ c \in 0 .. FIXED_ROOT /\ e.first_cluster \in W
      /\ ReadAlike(v, e) /\ e.id.index < MaxIndex
  BY <1>1 DEF IsClosed
<1> DEFINE nodes == read_dir(v, e.id).nodes
<1>3. /\ e.first_cluster = FIXED_ROOT => nodes = <<>>
      /\ e.first_cluster # FIXED_ROOT => nodes = entries_under(v, e.first_cluster)
  BY <1>1, <1>2, ChildListing
<1>4. n \in Range(nodes)
  OBVIOUS
<1> HIDE DEF nodes
<1>5. Range(<<>>) = {}
  BY DEF Range
<1> QED
  BY <1>2, <1>3, <1>4, <1>5 DEF Under, InSome

-----------------------------------------------------------------------------
\* The invariant of the program: the listing comes before the audit, of the
\* same volume, and keeps to what was said above.
CliTyped ==
  /\ stage \in {"open", "list", "audit", "exit"}
  /\ lstack \in Seq(Seq(Node)) /\ Len(lstack) <= MAX_DEPTH
  /\ lines \in Seq(Node)
  /\ stage # "list" => lstack = <<>>

CliOrder ==
  /\ stage \in {"open", "list"} => pc = "boot"
  /\ stage \in {"list", "audit"} \/ pc # "boot" => img.sig_ok /\ img.bpb_ok

CliCovers ==
  (stage \in {"list", "audit"} \/ pc # "boot") /\ "unreadable" \notin lskipped =>
    CoveredBy(img.vol, lstack, lines)

CliWithin ==
  \A W : IsClosed(img.vol, W) =>
    /\ Within(img.vol, W, lstack)
    /\ \A n \in Range(lines) : n.name \notin Dots /\ InSome(img.vol, W, n)

CliInv == AuditInv /\ AuditRouted /\ CliTyped /\ CliOrder /\ CliCovers /\ CliWithin

\* The program starts with the invariant.
LEMMA CliInitInv == CliInit => CliInv
<1> SUFFICES ASSUME CliInit
             PROVE  CliInv
  OBVIOUS
<1>1. AuditInv /\ pc = "boot" /\ stack = <<>> /\ out = <<>>
  BY AuditInitInv DEF CliInit, Init
<1>2. stage = "open" /\ lstack = <<>> /\ lines = <<>>
  BY DEF CliInit
<1>3. Len(stack) = 0 /\ Len(out) = 0 /\ Len(lstack) = 0 /\ Range(<<>>) = {} /\ 1 .. 0 = {}
  BY <1>1, <1>2 DEF Range
<1>4. AuditRouted
  BY <1>3 DEF AuditRouted, Routed, ReportsRouted
<1>5. CliTyped
  BY <1>2, <1>3, AuditAssumption DEF CliTyped
<1>6. CliOrder /\ CliCovers
  BY <1>1, <1>2 DEF CliOrder, CliCovers
<1>7. CliWithin
  BY <1>2, <1>3 DEF CliWithin, Within
<1> QED
  BY <1>1, <1>4, <1>5, <1>6, <1>7 DEF CliInv

\* A step of the audit keeps the invariant of the audit.
LEMMA AuditStepInv ==
  ASSUME AuditInv, AuditRouted, Next \/ UNCHANGED vars
  PROVE  AuditInv' /\ AuditRouted' /\ img' = img
<1>1. CASE Next
  <2>1. AuditInv'
    BY <1>1, CheckStepInv, OpenStepInv, DeletedStepInv, DescendStepInv, PassStepInv,
       ReturnStepInv, DoneStepInv DEF Next
  <2>2. AuditRouted'
    BY <1>1, AuditStaysRouted
  <2>3. img' = img
    BY <1>1 DEF Next, Boot, CheckExfatChecksum, CheckFatMirror, NoMirror, CheckFails,
                Open, OpenFails, Deleted, Descend, Pass, Return, Done
  <2> QED
    BY <2>1, <2>2, <2>3
<1>2. CASE UNCHANGED vars
  <2>1. AuditInv'
    BY <1>2, AuditStutter
  <2>2. AuditRouted' /\ img' = img
    BY <1>2 DEF vars, AuditRouted
  <2> QED
    BY <2>1, <2>2
<1> QED
  BY <1>1, <1>2

\* List, from the frames `below`.
LEMMA ListIs ==
  ASSUME NEW listed, NEW below, List(listed, below),
         below \in Seq(Seq(Node)), Len(below) <= MAX_DEPTH,
         listed # Err => listed.nodes \in Seq(Node)
  PROVE  /\ lstack' \in Seq(Seq(Node)) /\ Len(lstack') <= MAX_DEPTH
         /\ "unreadable" \notin lskipped' => "unreadable" \notin lskipped
         /\ \/ lstack' = below /\ Len(below) >= MAX_DEPTH
            \/ lstack' = below /\ "unreadable" \in lskipped'
            \/ listed # Err /\ IsPush(Seq(Node), below, listed.nodes, lstack')
<1>1. CASE /\ Len(below) >= MAX_DEPTH /\ lstack' = below
           /\ lskipped' = lskipped \cup {"deep"}
  BY <1>1
<1>2. CASE lstack' = below /\ lskipped' = lskipped \cup {"unreadable"}
  BY <1>2
<1>3. CASE /\ Len(below) < MAX_DEPTH /\ listed # Err
           /\ lstack' = Append(below, listed.nodes) /\ lskipped' = lskipped
  <2> DEFINE s2 == lstack'
             nodes == listed.nodes
             F == Seq(Node)
  <2>1. IsPush(F, below, nodes, s2)
    BY <1>3 DEF IsPush
  <2>2. Len(below) < MAX_DEPTH /\ MAX_DEPTH \in Nat
    BY <1>3, AuditAssumption
  <2> HIDE DEF s2, nodes, F
  <2>3. s2 \in Seq(F) /\ Len(s2) = Len(below) + 1 /\ Len(below) \in Nat
    BY <2>1, PushedIs
  <2>4. Len(s2) <= MAX_DEPTH
    BY <2>2, <2>3
  <2> QED
    BY <1>3, <2>1, <2>3, <2>4 DEF s2, nodes, F
<1> QED
  BY <1>1, <1>2, <1>3 DEF List

\* The root is listed.
LEMMA OpenVolumeInv == CliInv /\ OpenVolume => CliInv'
<1> SUFFICES ASSUME CliInv, OpenVolume
             PROVE  CliInv'
  OBVIOUS
<1> DEFINE v == img.vol
           listed == read_dir(v, Root)
           nodes == listed.nodes
           none == <<>>
           F == Seq(Node)
           st2 == lstack'
           ls == lines
<1>1. /\ v \in Volume
      /\ img.sig_ok /\ img.bpb_ok /\ List(listed, none)
      /\ stage = "open" /\ stage' = "list" /\ lines' = lines
      /\ img' = img /\ pc' = pc /\ pc = "boot" /\ lines \in Seq(Node)
  BY DEF CliInv, AuditInv, CliTyped, CliOrder, OpenVolume, Image, vars
<1>2. AuditInv' /\ AuditRouted'
  BY AuditStepInv DEF CliInv, OpenVolume
<1>3. /\ listed # Err /\ nodes \in F /\ Range(nodes) = Under(v, MarkerOf(v))
  <2>1. /\ MarkerOf(v) \in 0 .. FIXED_ROOT /\ listed # Err
        /\ nodes = entries_under(v, MarkerOf(v))
    BY <1>1, RootListing
  <2> QED
    BY <1>1, <2>1, UnderIsListing DEF Under, IsListing
<1>4. none \in Seq(F) /\ Len(none) = 0 /\ MAX_DEPTH \in Nat \ {0}
  BY AuditAssumption
<1> HIDE DEF listed, none
<1>5. /\ st2 \in Seq(F) /\ Len(st2) <= MAX_DEPTH
      /\ \/ st2 = none /\ "unreadable" \in lskipped'
         \/ IsPush(F, none, nodes, st2)
  <2>1. none \in Seq(F) /\ Len(none) <= MAX_DEPTH
    BY <1>4
  <2>2. /\ st2 \in Seq(F) /\ Len(st2) <= MAX_DEPTH
        /\ \/ st2 = none /\ Len(none) >= MAX_DEPTH
           \/ st2 = none /\ "unreadable" \in lskipped'
           \/ IsPush(F, none, nodes, st2)
    BY <1>1, <1>3, <2>1, ListIs
  <2>3. ~(Len(none) >= MAX_DEPTH)
    BY <1>4
  <2> QED
    BY <2>2, <2>3
<1>6. CliTyped' /\ CliOrder'
  BY <1>1, <1>5 DEF CliTyped, CliOrder
<1> HIDE DEF v, nodes, F, st2, ls
<1>7. ASSUME "unreadable" \notin lskipped'
      PROVE  CoveredBy(v, st2, ls)
  <2>1. IsPush(F, none, nodes, st2)
    BY <1>5, <1>7
  <2>2. Len(st2) = Len(none) + 1 /\ st2[Len(none) + 1] = nodes
    BY <2>1, PushedIs
  <2>3. Len(st2) = 1 /\ st2[1] = nodes /\ 1 \in 1 .. Len(st2)
    BY <1>4, <2>2
  <2> SUFFICES ASSUME NEW p, IsPath(v, p)
               PROVE  Pending(p, st2)
    BY DEF CoveredBy
  <2>4. p[1] \in Range(nodes) /\ 1 <= Len(p)
    BY DEF IsPath, LeadsTo, nodes, listed
  <2> QED
    BY <2>3, <2>4 DEF Pending
<1>8. ASSUME NEW W, IsClosed(v, W)
      PROVE  Within(v, W, st2)
  <2>1. Within(v, W, none)
    BY <1>4 DEF Within
  <2>2. \A n \in Range(nodes) : InSome(v, W, n)
    BY <1>3, <1>8 DEF InSome, IsClosed
  <2> QED
    BY <1>5, <2>1, <2>2, WithinGrows DEF F
<1>9. CliCovers'
  BY <1>1, <1>7 DEF CliCovers, v, st2, ls
<1>10. CliWithin'
  BY <1>1, <1>8 DEF CliInv, CliWithin, v, st2
<1> QED
  BY <1>2, <1>6, <1>9, <1>10 DEF CliInv

\* The listing is at a node: what the state then tells.
LEMMA NodeAtHand ==
  ASSUME CliInv, AtNode
  PROVE  /\ AtHand(lstack, lnode, ListRest) /\ img.vol \in Volume
         /\ stage = "list" /\ pc = "boot" /\ img.sig_ok /\ img.bpb_ok
         /\ lnode \in Node /\ lnode.id \in FileId
         /\ ListRest \in Seq(Seq(Node)) /\ Len(ListRest) <= MAX_DEPTH
         /\ Len(lstack) \in Nat \ {0} /\ Len(ListRest) = Len(lstack)
         /\ lines \in Seq(Node)
         /\ "unreadable" \notin lskipped => CoveredBy(img.vol, lstack, lines)
         /\ \A W : IsClosed(img.vol, W) =>
              /\ Within(img.vol, W, ListRest) /\ InSome(img.vol, W, lnode)
              /\ \A n \in Range(lines) : n.name \notin Dots /\ InSome(img.vol, W, n)
<1> DEFINE e == lnode
           rest == ListRest
           st == lstack
           v == img.vol
<1>1. /\ st \in Seq(Seq(Node)) /\ st # <<>> /\ Last(st) # <<>> /\ stage = "list"
      /\ Len(st) <= MAX_DEPTH /\ v \in Volume /\ lines \in Seq(Node)
      /\ pc = "boot" /\ img.sig_ok /\ img.bpb_ok
      /\ "unreadable" \notin lskipped => CoveredBy(v, st, lines)
  BY DEF CliInv, AuditInv, CliTyped, CliOrder, CliCovers, AtNode, Image
<1>2. AtHand(st, e, rest)
  BY <1>1 DEF AtHand, lnode, ListRest
<1>3. \A W : IsClosed(v, W) =>
        /\ Within(v, W, st)
        /\ \A n \in Range(lines) : n.name \notin Dots /\ InSome(v, W, n)
  BY DEF CliInv, CliWithin
<1> HIDE DEF e, rest, st, v
<1>4. /\ Smaller(v, rest, st) /\ Len(rest) = Len(st) /\ Len(st) \in Nat \ {0}
      /\ e \in Range(st[Len(st)])
  BY <1>2, RestIs
<1>5. Len(st) \in 1 .. Len(st)
  BY <1>4
<1>6. e \in Node
  <2> DEFINE s == st[Len(st)]
  <2>1. s \in Seq(Node)
    BY <1>1, <1>5
  <2>2. e \in Range(s)
    BY <1>4
  <2> HIDE DEF s
  <2> QED
    BY <2>1, <2>2 DEF Range
<1>7. e.id \in FileId
  BY <1>6 DEF Node
<1>8. \A W : IsClosed(v, W) => Within(v, W, rest) /\ InSome(v, W, e)
  <2> SUFFICES ASSUME NEW W, IsClosed(v, W)
               PROVE  Within(v, W, rest) /\ InSome(v, W, e)
    OBVIOUS
  <2>1. Within(v, W, st)
    BY <1>3
  <2>2. Within(v, W, rest)
    BY <1>4, <2>1, WithinShrinks
  <2>3. InSome(v, W, e)
    BY <1>4, <1>5, <2>1 DEF Within
  <2> QED
    BY <2>2, <2>3
<1>9. rest \in Seq(Seq(Node)) /\ Len(rest) <= MAX_DEPTH
  BY <1>1, <1>4 DEF Smaller
<1> QED
  BY <1>1, <1>2, <1>3, <1>4, <1>6, <1>7, <1>8, <1>9 DEF e, rest, st, v

\* A line more.
LEMMA LinePrinted ==
  ASSUME NEW ls \in Seq(Node), NEW e \in Node, NEW ls2, ls2 = Append(ls, e)
  PROVE  ls2 \in Seq(Node) /\ Range(ls2) = Range(ls) \cup {e}
<1> DEFINE l == Len(ls) + 1
<1>1. IsPush(Node, ls, e, ls2)
  BY DEF IsPush
<1>2. /\ ls2 \in Seq(Node) /\ Len(ls2) = l /\ Len(ls) \in Nat /\ ls2[l] = e
      /\ \A f \in 1 .. Len(ls) : ls2[f] = ls[f]
  BY <1>1, PushedIs
<1>3. /\ DOMAIN ls2 = 1 .. l /\ DOMAIN ls = 1 .. Len(ls) /\ l \in 1 .. l
      /\ \A f \in 1 .. l : f = l \/ f \in 1 .. Len(ls)
      /\ \A f \in 1 .. Len(ls) : f \in 1 .. l
  BY <1>2
<1> HIDE DEF l
<1>4. e \in Range(ls2)
  BY <1>2, <1>3 DEF Range
<1>5. ASSUME NEW x \in Range(ls)
      PROVE  x \in Range(ls2)
  <2>1. PICK f \in 1 .. Len(ls) : x = ls[f]
    BY <1>3, <1>5 DEF Range
  <2> QED
    BY <1>2, <1>3, <2>1 DEF Range
<1>6. ASSUME NEW x \in Range(ls2), x # e
      PROVE  x \in Range(ls)
  <2>1. PICK f \in 1 .. l : x = ls2[f]
    BY <1>3, <1>6 DEF Range
  <2>2. f \in 1 .. Len(ls) /\ x = ls[f]
    BY <1>2, <1>3, <1>6, <2>1
  <2> QED
    BY <1>3, <2>2 DEF Range
<1> QED
  BY <1>2, <1>4, <1>5, <1>6

\* A dot entry or a label is passed over; any other that is not entered is
\* printed: no path goes on from either.
LEMMA NodeStepInv == CliInv /\ (SkipNode \/ PrintNode) => CliInv'
<1> SUFFICES ASSUME CliInv, SkipNode \/ PrintNode
             PROVE  CliInv'
  OBVIOUS
<1> DEFINE v == img.vol
           st == lstack
           e == lnode
           rest == ListRest
           ls == lines
           ls2 == lines'
<1>1. /\ AtHand(st, e, rest) /\ v \in Volume
      /\ stage = "list" /\ pc = "boot" /\ img.sig_ok /\ img.bpb_ok
      /\ e \in Node
      /\ rest \in Seq(Seq(Node)) /\ Len(rest) <= MAX_DEPTH
      /\ Len(st) \in Nat \ {0}
      /\ ls \in Seq(Node)
      /\ "unreadable" \notin lskipped => CoveredBy(v, st, ls)
      /\ \A W : IsClosed(v, W) =>
           /\ Within(v, W, rest) /\ InSome(v, W, e)
           /\ \A n \in Range(ls) : n.name \notin Dots /\ InSome(v, W, n)
  BY NodeAtHand DEF SkipNode, PrintNode
<1>2. /\ lstack' = rest /\ stage' = stage /\ lskipped' = lskipped
      /\ img' = img /\ pc' = pc
  BY DEF SkipNode, PrintNode, vars
<1>3. AuditInv' /\ AuditRouted'
  BY AuditStepInv DEF CliInv, SkipNode, PrintNode
<1>4. /\ ls2 \in Seq(Node) /\ Range(ls) \subseteq Range(ls2)
      /\ Accounted(e, ls2) /\ ~IsLiveDir(e)
      /\ \A n \in Range(ls2) : n \in Range(ls) \/ (n = e /\ e.name \notin Dots)
  <2>1. CASE SkipNode
    BY <1>1, <2>1 DEF SkipNode, NotListed, Accounted, IsLiveDir
  <2>2. CASE PrintNode
    <3>1. ls2 = Append(ls, e) /\ e.name \notin Dots /\ ~(e.is_dir /\ ~e.is_deleted)
      BY <2>2 DEF PrintNode, NotListed, ListsBelow
    <3> HIDE DEF ls, ls2, e
    <3>2. ls2 \in Seq(Node) /\ Range(ls2) = Range(ls) \cup {e}
      BY <1>1, <3>1, LinePrinted
    <3> QED
      BY <3>1, <3>2 DEF Accounted, IsLiveDir
  <2> QED
    BY <2>1, <2>2
<1> HIDE DEF v, st, e, rest, ls, ls2
<1>5. CliTyped' /\ CliOrder'
  BY <1>1, <1>2, <1>4 DEF CliTyped, CliOrder, ls2
<1>6. CoveredBy(v, st, ls) => CoveredBy(v, rest, ls2)
  <2>1. \A p : /\ IsPath(v, p) /\ Len(st) < Len(p) /\ p[Len(st)] = e
               => Pending(p, rest)
    <3> DEFINE n == Len(st)
    <3>1. n \in Nat \ {0}
      BY <1>1
    <3> HIDE DEF n
    <3>2. \A p : ~(IsPath(v, p) /\ n < Len(p) /\ p[n] = e)
      BY <1>4, <3>1, PathGoesOn
    <3> QED
      BY <3>2 DEF n
  <2>2. \A p : Pending(p, rest) => Pending(p, rest)
    OBVIOUS
  <2> QED
    BY <1>1, <1>4, <2>1, <2>2, CoverStays
<1>7. CliCovers'
  BY <1>1, <1>2, <1>6 DEF CliCovers, v, ls2
<1>8. CliWithin'
  BY <1>1, <1>2, <1>4 DEF CliWithin, v, ls2
<1> QED
  BY <1>3, <1>5, <1>7, <1>8 DEF CliInv

\* A live directory is printed and entered: the paths through it go on in its
\* listing, unless it cannot be read.
LEMMA DirectoryStepInv == CliInv /\ ListDirectory => CliInv'
<1> SUFFICES ASSUME CliInv, ListDirectory
             PROVE  CliInv'
  OBVIOUS
<1> DEFINE v == img.vol
           st == lstack
           st2 == lstack'
           e == lnode
           rest == ListRest
           ls == lines
           ls2 == lines'
           listed == read_dir(v, e.id)
           nodes == listed.nodes
           F == Seq(Node)
<1>1. /\ AtHand(st, e, rest) /\ v \in Volume
      /\ stage = "list" /\ pc = "boot" /\ img.sig_ok /\ img.bpb_ok
      /\ e \in Node /\ e.id \in FileId
      /\ rest \in Seq(Seq(Node)) /\ Len(rest) <= MAX_DEPTH
      /\ Len(st) \in Nat \ {0} /\ Len(rest) = Len(st)
      /\ ls \in Seq(Node)
      /\ "unreadable" \notin lskipped => CoveredBy(v, st, ls)
      /\ \A W : IsClosed(v, W) =>
           /\ Within(v, W, rest) /\ InSome(v, W, e)
           /\ \A n \in Range(ls) : n.name \notin Dots /\ InSome(v, W, n)
  BY NodeAtHand DEF ListDirectory
<1>2. /\ stage' = stage /\ img' = img /\ pc' = pc /\ List(listed, rest)
      /\ ls2 = Append(ls, e) /\ e.name \notin Dots /\ IsLiveDir(e)
  BY DEF ListDirectory, vars, NotListed, ListsBelow, IsLiveDir
<1>3. AuditInv' /\ AuditRouted'
  BY AuditStepInv DEF CliInv, ListDirectory
<1>4. listed # Err => nodes \in F
  BY <1>1, ListedUnder DEF IsListing
<1>5. rest \in Seq(F)
  BY <1>1
<1> HIDE DEF listed, rest
<1>6. /\ st2 \in Seq(F) /\ Len(st2) <= MAX_DEPTH
      /\ "unreadable" \notin lskipped' => "unreadable" \notin lskipped
      /\ \/ st2 = rest /\ Len(rest) >= MAX_DEPTH
         \/ st2 = rest /\ "unreadable" \in lskipped'
         \/ listed # Err /\ IsPush(F, rest, nodes, st2)
  BY <1>1, <1>2, <1>4, <1>5, ListIs
<1> HIDE DEF v, st, st2, e, ls, ls2, nodes
<1>7. ls2 \in Seq(Node) /\ Range(ls2) = Range(ls) \cup {e}
  BY <1>1, <1>2, LinePrinted
<1>8. CliTyped' /\ CliOrder'
  BY <1>1, <1>2, <1>6, <1>7 DEF CliTyped, CliOrder, ls2, st2
<1> HIDE DEF F
<1>9. ASSUME "unreadable" \notin lskipped'
      PROVE  CoveredBy(v, st2, ls2)
  <2>1. CoveredBy(v, st, ls)
    BY <1>1, <1>6, <1>9
  <2>2. Range(ls) \subseteq Range(ls2) /\ Accounted(e, ls2)
    BY <1>7 DEF Accounted
  <2> DEFINE n == Len(st)
  <2>3. n \in Nat \ {0} /\ Len(rest) = n
    BY <1>1
  <2>4. CASE st2 = rest /\ Len(rest) >= MAX_DEPTH
    <3> HIDE DEF n
    <3>1. \A p : ~(IsPath(v, p) /\ n < Len(p) /\ p[n] = e)
      <4> SUFFICES ASSUME NEW p, IsPath(v, p), n < Len(p)
                   PROVE  FALSE
        OBVIOUS
      <4>1. n + 1 <= MAX_DEPTH
        BY <2>3, PathGoesOn
      <4> QED
        BY <2>3, <2>4, <4>1, AuditAssumption
    <3>2. \A p : /\ IsPath(v, p) /\ Len(st) < Len(p) /\ p[Len(st)] = e
                 => Pending(p, st2)
      BY <3>1 DEF n
    <3>3. \A p : Pending(p, rest) => Pending(p, st2)
      BY <2>4
    <3> QED
      BY <1>1, <2>1, <2>2, <3>2, <3>3, CoverStays
  <2>5. CASE listed # Err /\ IsPush(F, rest, nodes, st2)
    <3>1. /\ \A p : Pending(p, rest) => Pending(p, st2)
          /\ \A p : Len(rest) + 1 <= Len(p) /\ p[Len(rest) + 1] \in Range(nodes)
                      => Pending(p, st2)
      BY <1>1, <2>5, PendingGrows DEF F
    <3> HIDE DEF n
    <3>2. \A p : IsPath(v, p) /\ n < Len(p) /\ p[n] = e => Pending(p, st2)
      <4> SUFFICES ASSUME NEW p, IsPath(v, p), n < Len(p), p[n] = e
                   PROVE  Pending(p, st2)
        OBVIOUS
      <4>1. LeadsTo(v, e.id, p[n + 1]) /\ n + 1 <= Len(p)
        BY <2>3, PathGoesOn
      <4>2. p[n + 1] \in Range(nodes)
        BY <4>1 DEF LeadsTo, nodes, listed
      <4> QED
        BY <2>3, <3>1, <4>1, <4>2
    <3>3. \A p : /\ IsPath(v, p) /\ Len(st) < Len(p) /\ p[Len(st)] = e
                 => Pending(p, st2)
      BY <3>2 DEF n
    <3> QED
      BY <1>1, <2>1, <2>2, <3>1, <3>3, CoverStays
  <2> QED
    BY <1>6, <1>9, <2>4, <2>5
<1>10. ASSUME NEW W, IsClosed(v, W)
       PROVE  /\ Within(v, W, st2)
              /\ \A n \in Range(ls2) : n.name \notin Dots /\ InSome(v, W, n)
  <2>1. Within(v, W, rest) /\ InSome(v, W, e)
    BY <1>1, <1>10
  <2>2. \A n \in Range(ls2) : n.name \notin Dots /\ InSome(v, W, n)
    BY <1>1, <1>2, <1>7, <1>10
  <2>3. listed # Err => \A n \in Range(nodes) : InSome(v, W, n)
    BY <1>1, <1>2, <1>10, <2>1, ClosedListing DEF listed, nodes
  <2>4. listed # Err /\ IsPush(F, rest, nodes, st2) => Within(v, W, st2)
    BY <2>1, <2>3, WithinGrows DEF F
  <2> QED
    BY <1>6, <2>1, <2>2, <2>4
<1>11. CliCovers'
  BY <1>2, <1>9 DEF CliCovers, v, st2, ls2
<1>12. CliWithin'
  BY <1>2, <1>10 DEF CliWithin, v, st2, ls2
<1> QED
  BY <1>3, <1>8, <1>11, <1>12 DEF CliInv

\* A listing is done with.
LEMMA ListReturnsInv == CliInv /\ ListReturns => CliInv'
<1> SUFFICES ASSUME CliInv, ListReturns
             PROVE  CliInv'
  OBVIOUS
<1> DEFINE v == img.vol
           st == lstack
           st2 == lstack'
           ls == lines
<1>1. /\ st \in Seq(Seq(Node)) /\ st # <<>> /\ st2 = Front(st) /\ Last(st) = <<>>
      /\ Len(st) <= MAX_DEPTH /\ stage' = stage /\ stage = "list"
      /\ lines' = lines /\ lskipped' = lskipped /\ img' = img /\ pc' = pc
  BY DEF CliInv, CliTyped, ListReturns, vars
<1>2. AuditInv' /\ AuditRouted'
  BY AuditStepInv DEF CliInv, ListReturns
<1> HIDE DEF v, st, st2, ls
<1>3. /\ Smaller(v, st2, st) /\ Len(st) \in Nat \ {0} /\ Len(st2) = Len(st) - 1
      /\ st2 \in Seq(Seq(Node))
  <2>1. Smaller(v, st2, st) /\ Len(st) \in Nat \ {0} /\ Len(st2) = Len(st) - 1
    BY <1>1, FrontSmaller
  <2> QED
    BY <2>1 DEF Smaller
<1>4. Len(st2) <= MAX_DEPTH
  BY <1>1, <1>3, AuditAssumption
<1>5. CliTyped' /\ CliOrder'
  BY <1>1, <1>3, <1>4 DEF CliInv, CliTyped, CliOrder, st2
<1>6. CoveredBy(v, st, ls) => CoveredBy(v, st2, ls)
  <2>1. \A p : Pending(p, st) => Pending(p, st2)
    BY <1>1, PendingReturns
  <2> QED
    BY <2>1 DEF CoveredBy
<1>7. \A W : Within(v, W, st) => Within(v, W, st2)
  BY <1>3, WithinShrinks
<1>8. CliCovers'
  BY <1>1, <1>6 DEF CliInv, CliCovers, v, st, st2, ls
<1>9. CliWithin'
  BY <1>1, <1>7 DEF CliInv, CliWithin, v, st, st2
<1> QED
  BY <1>2, <1>5, <1>8, <1>9 DEF CliInv

\* What else the program does leaves the listing as it is.
LEMMA OtherStepInv ==
  CliInv /\ (OpenVolumeFails \/ Listed \/ AuditStep \/ Exit \/ UNCHANGED <<vars, cli_vars>>)
    => CliInv'
<1> SUFFICES ASSUME CliInv,
                    OpenVolumeFails \/ Listed \/ AuditStep \/ Exit \/ UNCHANGED <<vars, cli_vars>>
             PROVE  CliInv'
  OBVIOUS
<1>1. Next \/ UNCHANGED vars
  BY DEF OpenVolumeFails, Listed, AuditStep, Exit
<1>2. AuditInv' /\ AuditRouted' /\ img' = img
  BY <1>1, AuditStepInv DEF CliInv
<1>3. lstack' = lstack /\ lines' = lines /\ lskipped' = lskipped
  BY DEF OpenVolumeFails, Listed, AuditStep, Exit, cli_vars
<1>4. \/ stage = "open" /\ stage' = "exit" /\ pc' = pc
      \/ stage = "list" /\ stage' = "audit" /\ lstack = <<>> /\ pc' = pc
      \/ stage = "audit" /\ stage' = "audit"
      \/ stage = "audit" /\ stage' = "exit" /\ pc' = pc /\ pc # "boot"
      \/ stage' = stage /\ pc' = pc
  BY DEF OpenVolumeFails, Listed, AuditStep, Exit, vars, cli_vars
<1>5. CliTyped'
  BY <1>3, <1>4 DEF CliInv, CliTyped
<1>6. CliOrder'
  BY <1>2, <1>4 DEF CliInv, CliOrder
<1>7. CliCovers'
  BY <1>2, <1>3, <1>4 DEF CliInv, CliOrder, CliCovers
<1>8. CliWithin'
  BY <1>2, <1>3 DEF CliInv, CliWithin
<1> QED
  BY <1>2, <1>5, <1>6, <1>7, <1>8 DEF CliInv

\* The invariant of the program holds throughout.
THEOREM CliInvAlways == CliSpec => []CliInv
<1>1. CliInv /\ [CliNext]_<<vars, cli_vars>> => CliInv'
  BY OpenVolumeInv, NodeStepInv, DirectoryStepInv, ListReturnsInv, OtherStepInv DEF CliNext
<1> QED
  BY <1>1, CliInitInv, PTL DEF CliSpec

-----------------------------------------------------------------------------
\* A label that a path leads to is the entry its id stands for.
LEMMA LabelIsTold ==
  ASSUME NEW v \in Volume, NEW f, NEW n, AtPath(v, f, n), n.is_volume_label,
         n.id.index < MaxIndex
  PROVE  resolve_entry(v, n.id) = n /\ n # Err
<1>1. PICK p : IsPath(v, p) /\ Len(p) = f /\ p[f] = n
  BY DEF AtPath
<1>2. p \in Seq(Node) /\ f > 0 /\ f \in Nat
  BY <1>1 DEF IsPath
<1>3. PICK id : /\ LeadsTo(v, id, n)
                /\ id = Root \/ \E i \in 1 .. Len(p) : id = p[i].id
  <2>1. CASE f = 1
    BY <1>1, <2>1 DEF IsPath
  <2>2. CASE f # 1
    <3>1. f \in 2 .. Len(p) /\ f - 1 \in 1 .. Len(p)
      BY <1>1, <1>2, <2>2
    <3>2. LeadsTo(v, p[f - 1].id, p[f])
      BY <1>1, <3>1 DEF IsPath
    <3> QED
      BY <1>1, <3>1, <3>2
  <2> QED
    BY <2>1, <2>2
<1>4. id \in FileId
  <2>1. \A i \in 1 .. Len(p) : p[i] \in Node
    BY <1>2
  <2> QED
    BY <1>3, <2>1 DEF Node, FileId
<1>5. /\ n \in Node /\ v.variant # "ExFat" /\ read_dir(v, id) # Err
      /\ ReadAlike(v, meta(v, id)) => resolve_entry(v, n.id) = n
  BY <1>3, <1>4, ListedLeadsBack DEF LeadsTo
<1>6. ReadAlike(v, meta(v, id))
  <2>1. ~meta(v, id).contiguous
    <3>1. CASE id = Root
      BY <3>1 DEF meta, root_node
    <3>2. CASE id # Root
      <4>1. id \in EntryId /\ meta(v, id) = resolve_entry(v, id)
        BY <1>4, <3>2 DEF FileId, meta
      <4>2. resolve_entry(v, id) # Err
        BY <1>5, <3>2 DEF read_dir, Listing, dir_source, SourceOf
      <4> QED
        BY <1>5, <4>1, <4>2, ResolvedHasId
    <3> QED
      BY <3>1, <3>2
  <2> QED
    BY <2>1 DEF ReadAlike, clusters
<1> QED
  BY <1>5, <1>6, Shapes

\* A deleted entry that is reported was printed, if the listing read everything.
LEMMA ReportedIsPrinted ==
  ASSUME CliInv, stage = "exit", pc = "ok", "unreadable" \notin lskipped,
         NEW id \in ReportedIds, id.index < MaxIndex, ~IsLabel(id)
  PROVE  id \in DeletedLines
<1>1. out \in Seq(AnomalyKind) /\ img.vol \in Volume
  BY DEF CliInv, AuditInv, TypeOK, Image
<1>2. PICK b \in Range(out) : IsReport(b) /\ id = b.id
  BY DEF ReportedIds, IsReport
<1>3. PICK k \in 1 .. Len(out) : b = out[k]
  BY <1>1, <1>2 DEF Range
<1>4. PICK f, n : /\ AtPath(img.vol, f, n) /\ n.id = id
                  /\ n.is_deleted /\ n.name \notin Dots
  BY <1>2, <1>3 DEF CliInv, AuditRouted, ReportsRouted
<1>5. ~n.is_volume_label
  <2>1. n.is_volume_label => resolve_entry(img.vol, id) = n /\ n # Err
    BY <1>1, <1>4, LabelIsTold
  <2> QED
    BY <2>1 DEF IsLabel
<1>6. CoveredBy(img.vol, lstack, lines)
  BY DEF CliInv, CliCovers
<1>7. PICK p : IsPath(img.vol, p) /\ Len(p) = f /\ p[f] = n
  BY <1>4 DEF AtPath
<1>8. lstack = <<>>
  BY DEF CliInv, CliTyped
<1>9. ~Pending(p, lstack)
  BY <1>8 DEF Pending
<1>10. n \in Range(lines)
  BY <1>4, <1>5, <1>6, <1>7, <1>9 DEF CoveredBy, Accounted
<1> QED
  BY <1>4, <1>10 DEF DeletedLines

\* A walk that passed nothing over has been to directories that are closed.
LEMMA SeenIsClosed ==
  ASSUME CliInv, pc = "ok", skipped = {}, AllFound
  PROVE  /\ IsClosed(img.vol, seen \cup {MarkerOf(img.vol)})
         /\ \A n : InSome(img.vol, seen \cup {MarkerOf(img.vol)}, n) /\ n.name \notin Dots =>
              Handled(n, out, seen)
<1> DEFINE v == img.vol
           W == seen \cup {MarkerOf(v)}
<1>1. v \in Volume /\ seen \subseteq 0 .. FIXED_ROOT /\ stack = <<>>
  BY DEF CliInv, AuditInv, TypeOK, Image
<1>2. Surveyed
  BY DEF CliInv, CliOrder, Surveyed
<1>3. CompleteFor(v, W, out, stack, seen)
  BY <1>2 DEF CliInv, AuditInv, WalkOK
<1>4. \A n : ~LeftIn(n, stack)
  BY <1>1 DEF LeftIn
<1>5. \A c \in W : \A n \in Under(v, c) : n.name \notin Dots => Handled(n, out, seen)
  BY <1>3, <1>4 DEF CompleteFor
<1>6. FoundIn(v, seen)
  BY FoundIs
<1>7. W \subseteq 0 .. FIXED_ROOT
  BY <1>1, RootListing
<1>8. \A c \in W : \A n \in Under(v, c) : IsLiveDir(n) =>
        n.first_cluster \in W /\ ReadAlike(v, n) /\ n.id.index < MaxIndex
  BY <1>5, <1>6 DEF FoundIn, Handled, IsLiveDir
<1> QED
  BY <1>5, <1>7, <1>8 DEF IsClosed, InSome

\* A deleted entry that was printed is reported, if the audit passed nothing over.
LEMMA PrintedIsReported ==
  ASSUME CliInv, pc = "ok", skipped = {}, AllFound
  PROVE  DeletedLines \subseteq ReportedIds
<1> SUFFICES ASSUME NEW n \in Range(lines), n.is_deleted
             PROVE  n.id \in ReportedIds
  BY DEF DeletedLines
<1> DEFINE W == seen \cup {MarkerOf(img.vol)}
<1>1. IsClosed(img.vol, W)
  BY SeenIsClosed
<1>2. n.name \notin Dots /\ InSome(img.vol, W, n)
  BY <1>1 DEF CliInv, CliWithin
<1>3. Handled(n, out, seen)
  BY <1>2, SeenIsClosed
<1>4. DeletedDirectoryEntry(n.id) \in Range(out)
  BY <1>3 DEF Handled
<1>5. /\ DeletedDirectoryEntry(n.id).kind = "DeletedDirectoryEntry"
      /\ DeletedDirectoryEntry(n.id).id = n.id
  BY DEF DeletedDirectoryEntry
<1> QED
  BY <1>4, <1>5 DEF ReportedIds

\* What fat4n6 lists of a volume and what it reports of it agree, whatever the
\* tree: rings, cross links, trees too deep (main.rs, list; lib.rs, collect_deleted).
THEOREM WalksAgree == CliSpec => []TwoWalksAgree
<1>1. CliInv => TwoWalksAgree
  BY ReportedIsPrinted, PrintedIsReported DEF TwoWalksAgree
<1> QED
  BY <1>1, CliInvAlways, PTL
=============================================================================

--------------------------- MODULE FatChainProofs ---------------------------
(***************************************************************************)
(* What FatChain establishes for every volume, every FAT content and every *)
(* starting cluster.  The inductive invariant Walk says where the loop is: *)
(* the list so far is a walk along the FAT, `cluster` is the one the walk  *)
(* would visit next, and a walk that came round repeats itself up to its   *)
(* last cluster (Repeats), which is what lets only the cap end it.         *)
(***************************************************************************)
EXTENDS FatChain, FoldLemmas, FiniteSetTheorems, TLAPS

\* Where `cluster` stands while the loop runs.
AtNext ==
  pc = "loop" =>
    IF Len(chain) = 0 THEN cluster = start
    ELSE /\ cluster = Entry(chain[Len(chain)])
         /\ ~EndsChain(vol.variant, Entry(chain[Len(chain)]))

\* Why the loop ended.
Ended ==
  pc = "done" =>
    \/ Len(chain) = max_clusters(vol)
    \/ Len(chain) = 0 /\ start < 2
    \/ Len(chain) > 0 /\ EndsChain(vol.variant, Entry(chain[Len(chain)]))

\* Once a cluster came back, the walk goes round the same clusters.
Repeats ==
  \A j \in 1 .. Len(chain) : \A i \in 1 .. j - 1 :
    chain[i] = chain[j] => chain[i + (Len(chain) - j)] = chain[Len(chain)]

Walk == TypeOK /\ ChainLinked /\ AtNext /\ Ended /\ Repeats

-----------------------------------------------------------------------------
\* A byte is a natural number (bytes.rs).
LEMMA ByteNat == \A b \in Byte : b \in Nat
  BY DEF Byte

\* A 16-bit read is a natural number, whatever the offset (bytes.rs, le_u16).
LEMMA U16Nat ==
  ASSUME NEW fat \in Seq(Byte), NEW off \in Nat
  PROVE  le_u16(fat, off) \in Nat
<1>1. CASE off + 2 <= Len(fat)
  <2>1. fat[off + 1] \in Byte /\ fat[off + 2] \in Byte
    BY <1>1
  <2>2. fat[off + 1] \in Nat /\ fat[off + 2] \in Nat
    BY <2>1, ByteNat
  <2>3. fat[off + 1] + 256 * fat[off + 2] \in Nat
    BY <2>2
  <2> QED
    BY <2>3, <1>1 DEF le_u16, Inside
<1>2. CASE ~(off + 2 <= Len(fat))
  BY <1>2 DEF le_u16, Inside
<1> QED
  BY <1>1, <1>2

\* So is a masked 32-bit one (bytes.rs, le_u32).
LEMMA U32Nat ==
  ASSUME NEW fat \in Seq(Byte), NEW off \in Nat
  PROVE  le_u32_28(fat, off) \in Nat
<1>1. CASE off + 4 <= Len(fat)
  <2>1. /\ fat[off + 1] \in Byte /\ fat[off + 2] \in Byte
        /\ fat[off + 3] \in Byte /\ fat[off + 4] \in Byte
    BY <1>1
  <2>2. /\ fat[off + 1] \in Nat /\ fat[off + 2] \in Nat
        /\ fat[off + 3] \in Nat /\ fat[off + 4] \in Nat
    BY <2>1, ByteNat
  <2> DEFINE a == fat[off + 1]  b == fat[off + 2]  c == fat[off + 3]
             d == fat[off + 4] % 16
  <2>3. a \in Nat /\ b \in Nat /\ c \in Nat /\ d \in Nat
    BY <2>2
  <2> HIDE DEF a, b, c, d
  <2>4. a + 256 * b + 65536 * c + 16777216 * d \in Nat
    BY <2>3
  <2> QED
    BY <2>4, <1>1 DEF le_u32_28, Inside, a, b, c, d
<1>2. CASE ~(off + 4 <= Len(fat))
  BY <1>2 DEF le_u32_28, Inside
<1> QED
  BY <1>1, <1>2

\* Decoding never fails: every entry is a natural number (fat.rs, fat_entry:
\* "never panics").
LEMMA EntryNat ==
  ASSUME NEW v \in Volume, NEW c \in Nat
  PROVE  fat_entry(v.fat, v.variant, c) \in Nat
<1>1. v.fat \in Seq(Byte) /\ v.variant \in FatVariant
  BY DEF Volume
<1>2. CASE v.variant = "Fat12"
  <2>1. (c * 3) \div 2 \in Nat
    OBVIOUS
  <2> DEFINE raw == le_u16(v.fat, (c * 3) \div 2)
  <2>2. raw \in Nat
    BY <1>1, <2>1, U16Nat
  <2> HIDE DEF raw
  <2>3. raw \div 16 \in Nat /\ raw % 4096 \in Nat
    BY <2>2
  <2>4. fat12_half(raw, c) \in Nat
    BY <2>3 DEF fat12_half
  <2> QED
    BY <1>2, <2>4 DEF fat_entry, raw
<1>3. CASE v.variant = "Fat16"
  BY <1>1, <1>3, U16Nat, c * 2 \in Nat DEF fat_entry
<1>4. CASE v.variant \in {"Fat32", "ExFat"}
  BY <1>1, <1>4, U32Nat, c * 4 \in Nat DEF fat_entry
<1> QED
  BY <1>1, <1>2, <1>3, <1>4 DEF FatVariant

\* Appending the next cluster keeps the list a walk, and keeps Repeats.
LEMMA PushKeepsWalk ==
  ASSUME Walk, Push, vol' = vol, start' = start
  PROVE  /\ chain' \in Seq(Nat)
         /\ Len(chain') = Len(chain) + 1
         /\ chain'[Len(chain')] = cluster
         /\ ChainLinked'
         /\ Repeats'
<1> USE DEF Walk, TypeOK
<1> DEFINE n == Len(chain)
<1>1. /\ chain' \in Seq(Nat)
      /\ Len(chain') = n + 1
      /\ chain'[n + 1] = cluster
      /\ \A i \in 1 .. n : chain'[i] = chain[i]
      /\ n \in Nat
  BY DEF Push
<1>2. \A c : Entry(c)' = Entry(c)
  BY DEF Entry
<1>3. max_clusters(vol') = max_clusters(vol) /\ max_clusters(vol) \in Nat
  BY DEF max_clusters, Volume
<1>4. n > 0 => /\ cluster = Entry(chain[n])
               /\ ~EndsChain(vol.variant, Entry(chain[n]))
  BY <1>1 DEF AtNext, Push
<1>5. ChainLinked'
  <2>1. Len(chain') <= max_clusters(vol')
    BY <1>1, <1>3 DEF Push
  <2>2. chain'[1] = start'
    BY <1>1 DEF ChainLinked, AtNext, Push
  <2>3. \A i \in 1 .. n + 1 : chain'[i] >= 2
    BY <1>1 DEF ChainLinked, Push
  <2>4. ASSUME NEW i \in 1 .. n
        PROVE  /\ chain'[i + 1] = Entry(chain'[i])
               /\ ~EndsChain(vol.variant, Entry(chain'[i]))
    <3>1. chain'[i] = chain[i]
      BY <1>1
    <3>2. CASE i = n
      BY <3>1, <3>2, <1>1, <1>4
    <3>3. CASE i < n
      <4>1. i \in 1 .. n - 1 /\ i + 1 \in 1 .. n
        BY <3>3, <1>1
      <4> QED
        BY <4>1, <3>1, <1>1 DEF ChainLinked
    <3> QED
      BY <3>2, <3>3, <1>1
  <2>5. Len(chain') - 1 = n
    BY <1>1
  <2> QED
    BY <2>1, <2>2, <2>3, <2>4, <2>5, <1>1 DEF ChainLinked, Entry
<1>6. Repeats'
  <2> SUFFICES ASSUME NEW j \in 1 .. n + 1, NEW i \in 1 .. j - 1,
                      chain'[i] = chain'[j]
               PROVE  chain'[i + (n + 1 - j)] = chain'[n + 1]
    BY <1>1 DEF Repeats
  <2>1. i \in Nat /\ j \in Nat /\ i >= 1 /\ i < j /\ j <= n + 1
    BY <1>1
  <2>2. CASE j = n + 1
    <3>1. i + (n + 1 - j) = i
      BY <2>1, <2>2, <1>1
    <3> QED
      BY <2>2, <3>1
  <2>3. CASE j <= n
    <3> DEFINE k == i + (n - j)
    <3>1. /\ k \in Nat /\ k >= 1 /\ k < n
          /\ i + (n + 1 - j) = k + 1
      BY <2>1, <2>3, <1>1, SMTT(60)
    <3>2. i \in 1 .. n /\ j \in 1 .. n /\ k \in 1 .. n - 1 /\ k + 1 \in 1 .. n
      BY <2>1, <2>3, <3>1, <1>1, SMTT(60)
    <3>3. chain[i] = chain[j]
      BY <3>2, <1>1
    <3>4. chain[k] = chain[n]
      BY <3>2, <3>3 DEF Repeats
    <3>5. chain[k + 1] = Entry(chain[k])
      BY <3>2 DEF ChainLinked
    <3>6. cluster = Entry(chain[n])
      BY <1>4, <3>2, <1>1
    <3>7. chain'[k + 1] = cluster
      BY <3>2, <3>4, <3>5, <3>6, <1>1
    <3> QED
      BY <3>1, <3>7, <1>1
  <2>4. j = n + 1 \/ j <= n
    BY <2>1, <1>1, SMTT(60)
  <2> QED
    BY <2>2, <2>3, <2>4
<1> QED
  BY <1>1, <1>5, <1>6

\* The initial states satisfy the inductive invariant.
LEMMA WalkInit == Init => Walk
  BY VolumesAssumption, StartsAssumption
     DEF Init, Walk, TypeOK, ChainLinked, AtNext, Ended, Repeats,
         max_clusters, Volume

\* Every step keeps it.
LEMMA WalkStep == Walk /\ [Next]_vars => Walk'
<1> SUFFICES ASSUME Walk, [Next]_vars
             PROVE  Walk'
  OBVIOUS
<1>1. CASE CapReached
  <2>1. Len(chain) = max_clusters(vol)
    BY <1>1 DEF CapReached, Walk, TypeOK, ChainLinked, max_clusters, Volume
  <2> QED
    BY <1>1, <2>1 DEF CapReached, Walk, TypeOK, ChainLinked, AtNext, Ended,
                      Repeats, Entry
<1>2. CASE ReservedCluster
  <2>1. Len(chain) = 0 /\ start < 2
    BY <1>2 DEF ReservedCluster, Walk, TypeOK, AtNext, EndsChain
  <2> QED
    BY <1>2, <2>1 DEF ReservedCluster, Walk, TypeOK, ChainLinked, AtNext,
                      Ended, Repeats, Entry
<1>3. CASE LastCluster
  <2>1. Push /\ vol' = vol /\ start' = start /\ cluster' = cluster
        /\ pc' = "done"
    BY <1>3 DEF LastCluster
  <2>2. /\ chain' \in Seq(Nat) /\ Len(chain') = Len(chain) + 1
        /\ chain'[Len(chain')] = cluster /\ ChainLinked' /\ Repeats'
    BY <2>1, PushKeepsWalk
  <2>3. Ended'
    BY <2>1, <2>2, <1>3 DEF LastCluster, Ended, Entry, Walk, TypeOK
  <2>4. TypeOK' /\ AtNext'
    BY <2>1, <2>2 DEF Walk, TypeOK, AtNext
  <2> QED
    BY <2>2, <2>3, <2>4 DEF Walk
<1>4. CASE NextCluster
  <2>1. Push /\ vol' = vol /\ start' = start /\ cluster' = Entry(cluster)
        /\ pc' = "loop" /\ ~EndsChain(vol.variant, Entry(cluster))
    BY <1>4 DEF NextCluster, Push
  <2>2. /\ chain' \in Seq(Nat) /\ Len(chain') = Len(chain) + 1
        /\ chain'[Len(chain')] = cluster /\ ChainLinked' /\ Repeats'
    BY <2>1, PushKeepsWalk
  <2>3. cluster' \in Nat
    BY <2>1, EntryNat DEF Walk, TypeOK, Entry
  <2>4. TypeOK' /\ Ended'
    BY <2>1, <2>2, <2>3 DEF Walk, TypeOK, Ended
  <2>5. AtNext'
    BY <2>1, <2>2 DEF AtNext, Entry, Walk, TypeOK
  <2> QED
    BY <2>2, <2>4, <2>5 DEF Walk
<1>5. CASE UNCHANGED vars
  BY <1>5 DEF vars, Walk, TypeOK, ChainLinked, AtNext, Ended, Repeats, Entry
<1> QED
  BY <1>1, <1>2, <1>3, <1>4, <1>5 DEF Next

\* So it always holds.
LEMMA WalkInvariant == Spec => []Walk
  BY WalkInit, WalkStep, PTL DEF Spec

-----------------------------------------------------------------------------
\* The types of the loop's variables, for every volume (fat.rs, follow_chain).
THEOREM TypeCorrect == Spec => []TypeOK
  BY WalkInvariant, PTL DEF Walk

\* For every FAT the list is a walk along it, within the cap and without a
\* marker taken for a cluster (fat.rs, follow_chain).
THEOREM ChainsAreLinked == Spec => []ChainLinked
  BY WalkInvariant, PTL DEF Walk

\* In every FAT, a cycle shows as a list of exactly max_clusters clusters
\* (fat.rs, the hard cap of follow_chain).
THEOREM CyclesHitTheCap == Spec => []CycleHitsCap
<1>1. Walk => CycleHitsCap
  <2> SUFFICES ASSUME Walk, pc = "done", ~Distinct
               PROVE  Len(chain) = max_clusters(vol)
    BY DEF CycleHitsCap
  <2>1. PICK i \in 1 .. Len(chain), j \in 1 .. Len(chain) :
          i < j /\ chain[i] = chain[j]
    BY DEF Distinct, Walk, TypeOK
  <2> DEFINE k == i + (Len(chain) - j)
  <2>2. chain[k] = chain[Len(chain)] /\ k \in 1 .. Len(chain) - 1
    BY <2>1 DEF Walk, Repeats, TypeOK
  <2>3. ~EndsChain(vol.variant, Entry(chain[Len(chain)]))
    BY <2>2 DEF Walk, ChainLinked
  <2> QED
    BY <2>1, <2>3 DEF Walk, Ended, TypeOK
<1> QED
  BY <1>1, WalkInvariant, PTL

\* FS_Interval for the intervals that matter here.
LEMMA IntervalSize ==
  ASSUME NEW a \in Nat, NEW b \in Nat, a <= b + 1
  PROVE  IsFiniteSet(a .. b) /\ Cardinality(a .. b) = b + 1 - a
<1>1. a \in Int /\ b \in Int
  OBVIOUS
<1>2. /\ IsFiniteSet(a .. b)
      /\ Cardinality(a .. b) = IF a > b THEN 0 ELSE b - a + 1
  BY <1>1, FS_Interval
<1> QED
  BY <1>2

\* For every volume, the cap of count + 2 is never what ends a walk that stays
\* in the heap and does not come round: distinct clusters of the heap are too
\* few to reach it (fs.rs, max_clusters; fat.rs, follow_chain).
THEOREM SaneChainsAreWhole == Spec => []SaneChainIsWhole
<1>1. Walk => SaneChainIsWhole
  <2> SUFFICES ASSUME Walk, pc = "done", Len(chain) > 0, Distinct,
                      \A i \in 1 .. Len(chain) : InHeap(chain[i])
               PROVE  EndsChain(vol.variant, Entry(chain[Len(chain)]))
    BY DEF SaneChainIsWhole
  <2> DEFINE S == 1 .. Len(chain)
             T == 2 .. vol.count + 1
  <2>1. vol.count \in Nat /\ Len(chain) \in Nat
    BY DEF Walk, TypeOK, Volume
  <2>2. chain \in Injection(S, T)
    BY DEF Walk, TypeOK, Distinct, InHeap, Injection, IsInjective
  <2>3. IsFiniteSet(T) /\ Cardinality(T) = vol.count
    <3>1. vol.count + 1 \in Nat /\ 2 <= (vol.count + 1) + 1
          /\ (vol.count + 1) + 1 - 2 = vol.count
      BY <2>1
    <3> QED
      BY <3>1, IntervalSize
  <2>4. Cardinality(S) = Len(chain)
    <3>1. 1 <= Len(chain) + 1 /\ Len(chain) + 1 - 1 = Len(chain)
      BY <2>1
    <3> QED
      BY <2>1, <3>1, IntervalSize
  <2>5. Len(chain) <= vol.count
    BY <2>2, <2>3, <2>4, FS_Injection
  <2> QED
    BY <2>1, <2>5 DEF Walk, Ended, max_clusters
<1> QED
  BY <1>1, WalkInvariant, PTL

\* The abstract module's table is the same one.
LEMMA SameTable ==
  /\ Abs!Byte = Byte
  /\ Abs!FatVariant = FatVariant
  /\ \A f, v, c : Abs!fat_entry(f, v, c) = fat_entry(f, v, c)
  /\ \A v, x : Abs!EndsChain(v, x) <=> EndsChain(v, x)
  BY DEF Abs!Byte, Byte, Abs!FatVariant, FatVariant,
         Abs!fat_entry, fat_entry, Abs!fat12_half, fat12_half,
         Abs!le_u16, le_u16, Abs!le_u32_28, le_u32_28, Abs!Inside, Inside,
         Abs!EndsChain, EndsChain, Abs!is_bad, is_bad, Abs!is_eoc, is_eoc,
         Abs!eoc_threshold, eoc_threshold

\* follow_chain implements the one-step walk of FatChainAbs: callers may take
\* the list as the longest walk the FAT and the cap allow (fat.rs,
\* follow_chain; fs.rs, clusters).
THEOREM Implements == Spec => ImplementsAbs
<1>1. Init => Abs!Init
  BY VolumesAssumption, StartsAssumption, SameTable
     DEF Init, Abs!Init, Volume
<1>2. Walk /\ Walk' /\ [Next]_vars => [Abs!Next]_(Abs!vars)
  <2> SUFFICES ASSUME Walk, Walk', [Next]_vars
               PROVE  [Abs!Next]_(Abs!vars)
    OBVIOUS
  <2>1. CASE pc = "loop" /\ pc' = "done"
    <3>1. vol' = vol /\ start' = start
      BY <2>1 DEF Next, CapReached, ReservedCluster, LastCluster, NextCluster,
                  vars
    <3>2. chain' \in Seq(Nat) /\ Len(chain') <= vol.count + 2
      BY <3>1 DEF Walk, TypeOK, ChainLinked, max_clusters
    <3>3. /\ \A i \in 1 .. Len(chain') : chain'[i] >= 2
          /\ Len(chain') > 0 => chain'[1] = start
          /\ \A i \in 1 .. Len(chain') - 1 :
               /\ chain'[i + 1] = fat_entry(vol.fat, vol.variant, chain'[i])
               /\ ~EndsChain(vol.variant, chain'[i + 1])
      BY <3>1 DEF Walk, ChainLinked, Entry
    <3>4. \/ Len(chain') = vol.count + 2
          \/ Len(chain') = 0 /\ start < 2
          \/ Len(chain') > 0
             /\ EndsChain(vol.variant,
                          fat_entry(vol.fat, vol.variant, chain'[Len(chain')]))
      BY <2>1, <3>1 DEF Walk, Ended, Entry, max_clusters
    <3> QED
      BY <2>1, <3>1, <3>2, <3>3, <3>4, SameTable
         DEF Abs!Next, Abs!Return, Abs!IsWalk, Abs!IsMaximal, Abs!Link, Abs!vars
  <2>2. CASE pc = "loop" /\ pc' = "loop"
    BY <2>2 DEF Next, CapReached, ReservedCluster, LastCluster, NextCluster,
                vars, Abs!vars
  <2>3. CASE pc = "done"
    BY <2>3 DEF Next, CapReached, ReservedCluster, LastCluster, NextCluster,
                Push, vars, Abs!vars
  <2> QED
    BY <2>1, <2>2, <2>3 DEF Walk, TypeOK
<1> QED
  BY <1>1, <1>2, WalkInvariant, PTL DEF Spec, ImplementsAbs

-----------------------------------------------------------------------------
\* The powers of two that the bits of an entry need, under a name the solvers
\* do not try to compute with.
Pow2(k) == 2 ^ k

BitUnit == {1, 2, 4, 8, 16, 32, 64, 128}

LEMMA PowersInByte ==
  ASSUME NEW r \in 0 .. 7
  PROVE  /\ Pow2(r) \in BitUnit
         /\ r < 4 => Pow2(r) \in {1, 2, 4, 8}
<1>0. CASE r = 0  BY <1>0 DEF Pow2, BitUnit
<1>1. CASE r = 1  BY <1>1 DEF Pow2, BitUnit
<1>2. CASE r = 2  BY <1>2 DEF Pow2, BitUnit
<1>3. CASE r = 3  BY <1>3 DEF Pow2, BitUnit
<1>4. CASE r = 4  BY <1>4 DEF Pow2, BitUnit
<1>5. CASE r = 5  BY <1>5 DEF Pow2, BitUnit
<1>6. CASE r = 6  BY <1>6 DEF Pow2, BitUnit
<1>7. CASE r = 7  BY <1>7 DEF Pow2, BitUnit
<1> QED
  BY <1>0, <1>1, <1>2, <1>3, <1>4, <1>5, <1>6, <1>7

\* A power of two splits at the byte.
LEMMA PowersOfSecondByte ==
  ASSUME NEW r \in 0 .. 7, NEW k, k = r + 8
  PROVE  Pow2(k) = 256 * Pow2(r)
<1>0. CASE r = 0 /\ k = 8  BY <1>0 DEF Pow2
<1>1. CASE r = 1 /\ k = 9  BY <1>1 DEF Pow2
<1>2. CASE r = 2 /\ k = 10  BY <1>2 DEF Pow2
<1>3. CASE r = 3 /\ k = 11  BY <1>3 DEF Pow2
<1>4. CASE r = 4 /\ k = 12  BY <1>4 DEF Pow2
<1>5. CASE r = 5 /\ k = 13  BY <1>5 DEF Pow2
<1>6. CASE r = 6 /\ k = 14  BY <1>6 DEF Pow2
<1>7. CASE r = 7 /\ k = 15  BY <1>7 DEF Pow2
<1> QED
  BY <1>0, <1>1, <1>2, <1>3, <1>4, <1>5, <1>6, <1>7

LEMMA PowersOfThirdByte ==
  ASSUME NEW r \in 0 .. 7, NEW k, k = r + 16
  PROVE  Pow2(k) = 65536 * Pow2(r)
<1>0. CASE r = 0 /\ k = 16  BY <1>0 DEF Pow2
<1>1. CASE r = 1 /\ k = 17  BY <1>1 DEF Pow2
<1>2. CASE r = 2 /\ k = 18  BY <1>2 DEF Pow2
<1>3. CASE r = 3 /\ k = 19  BY <1>3 DEF Pow2
<1>4. CASE r = 4 /\ k = 20  BY <1>4 DEF Pow2
<1>5. CASE r = 5 /\ k = 21  BY <1>5 DEF Pow2
<1>6. CASE r = 6 /\ k = 22  BY <1>6 DEF Pow2
<1>7. CASE r = 7 /\ k = 23  BY <1>7 DEF Pow2
<1> QED
  BY <1>0, <1>1, <1>2, <1>3, <1>4, <1>5, <1>6, <1>7

LEMMA PowersOfFourthByte ==
  ASSUME NEW r \in 0 .. 7, NEW k, k = r + 24
  PROVE  Pow2(k) = 16777216 * Pow2(r)
<1>0. CASE r = 0 /\ k = 24  BY <1>0 DEF Pow2
<1>1. CASE r = 1 /\ k = 25  BY <1>1 DEF Pow2
<1>2. CASE r = 2 /\ k = 26  BY <1>2 DEF Pow2
<1>3. CASE r = 3 /\ k = 27  BY <1>3 DEF Pow2
<1>4. CASE r = 4 /\ k = 28  BY <1>4 DEF Pow2
<1>5. CASE r = 5 /\ k = 29  BY <1>5 DEF Pow2
<1>6. CASE r = 6 /\ k = 30  BY <1>6 DEF Pow2
<1>7. CASE r = 7 /\ k = 31  BY <1>7 DEF Pow2
<1> QED
  BY <1>0, <1>1, <1>2, <1>3, <1>4, <1>5, <1>6, <1>7

\* What the bytes above it add does not reach into a byte.
LEMMA BitBelow ==
  ASSUME NEW b \in Byte, NEW hi \in Nat, NEW p \in BitUnit
  PROVE  ((b + 256 * hi) \div p) % 2 = (b \div p) % 2
<1>1. b \in Nat /\ b < 256
  BY DEF Byte
<1>2. CASE p = 1  BY <1>1, <1>2
<1>3. CASE p = 2  BY <1>1, <1>3
<1>4. CASE p = 4  BY <1>1, <1>4
<1>5. CASE p = 8  BY <1>1, <1>5
<1>6. CASE p = 16  BY <1>1, <1>6
<1>7. CASE p = 32  BY <1>1, <1>7
<1>8. CASE p = 64  BY <1>1, <1>8
<1>9. CASE p = 128  BY <1>1, <1>9
<1> QED
  BY <1>2, <1>3, <1>4, <1>5, <1>6, <1>7, <1>8, <1>9 DEF BitUnit

\* Byte b stands in the number n at the unit u: `lo` is below it, `hi` above.
ByteAt(n, u, lo, b, hi) ==
  /\ u \in Nat /\ u > 0 /\ lo \in Nat /\ lo < u /\ b \in Byte /\ hi \in Nat
  /\ n = lo + u * (b + 256 * hi)

\* The bit of n whose unit is m is the bit of b whose unit is p.
SameBit(n, m, b, p) == (n \div m) % 2 = (b \div p) % 2

\* Nor do the bytes below it.
LEMMA BitOfByte ==
  ASSUME NEW n, NEW u, NEW lo, NEW b, NEW hi, ByteAt(n, u, lo, b, hi),
         NEW p \in BitUnit, NEW m, m = u * p
  PROVE  SameBit(n, m, b, p)
<1> USE DEF ByteAt
<1> DEFINE x == b + 256 * hi
           q == x \div p
           s == x % p
<1>1. x \in Nat
  BY DEF Byte
<1>2. q \in Nat /\ s \in Nat /\ s < p /\ x = p * q + s /\ p \in Nat /\ p > 0
  <2> HIDE DEF x
  <2>1. CASE p = 1  BY <1>1, <2>1
  <2>2. CASE p \in {2, 4, 8, 16}  BY <1>1, <2>2
  <2>3. CASE p \in {32, 64, 128}  BY <1>1, <2>3
  <2> QED
    BY <2>1, <2>2, <2>3 DEF BitUnit
<1> HIDE DEF q, s
<1>3. (lo + u * x) \div (u * p) = q
  <2> HIDE DEF x
  <2>1. u * s + lo \in Nat /\ u * p \in Nat /\ u * p > 0
    BY <1>2
  <2>2. u * s + lo < u * p
    <3>1. u * (s + 1) <= u * p
      BY <1>2
    <3>2. u * (s + 1) = u * s + u
      BY <1>2
    <3>3. u * s \in Nat /\ u * p \in Nat
      BY <1>2
    <3> QED
      BY <3>1, <3>2, <3>3
  <2>3. lo + u * x = (u * p) * q + (u * s + lo)
    <3>1. u * x = u * (p * q) + u * s
      BY <1>1, <1>2
    <3>2. u * (p * q) = (u * p) * q /\ (u * p) * q \in Nat /\ u * s \in Nat
      BY <1>2
    <3> QED
      BY <3>1, <3>2
  <2> QED
    BY <1>2, <2>1, <2>2, <2>3, DivUnique
<1>4. q % 2 = (b \div p) % 2
  BY BitBelow DEF q
<1>5. n \div m = q
  BY <1>3
<1> QED
  BY <1>4, <1>5 DEF SameBit

\* A power of two splits at the byte.
LEMMA PowerSplits ==
  ASSUME NEW k \in 0 .. 27
  PROVE  /\ Pow2(k % 8) \in BitUnit
         /\ k < 8 => Pow2(k) = 1 * Pow2(k % 8)
         /\ 8 <= k /\ k < 16 => Pow2(k) = 256 * Pow2(k % 8)
         /\ 16 <= k /\ k < 24 => Pow2(k) = 65536 * Pow2(k % 8)
         /\ 24 <= k => Pow2(k) = 16777216 * Pow2(k % 8)
<1> DEFINE r == k % 8
<1>1. /\ r \in 0 .. 7
      /\ k < 8 => k = r
      /\ 8 <= k /\ k < 16 => k = r + 8
      /\ 16 <= k /\ k < 24 => k = r + 16
      /\ 24 <= k => k = r + 24
  OBVIOUS
<1> HIDE DEF r
<1>2. Pow2(r) \in BitUnit
  BY <1>1, PowersInByte
<1>3. k < 8 => Pow2(k) = 1 * Pow2(r)
  <2>1. Pow2(r) \in Nat
    BY <1>2 DEF BitUnit
  <2>2. k < 8 => Pow2(k) = Pow2(r)
    BY <1>1, Zenon
  <2> QED
    BY <2>1, <2>2
<1>4. 8 <= k /\ k < 16 => Pow2(k) = 256 * Pow2(r)
  BY <1>1, PowersOfSecondByte
<1>5. 16 <= k /\ k < 24 => Pow2(k) = 65536 * Pow2(r)
  BY <1>1, PowersOfThirdByte
<1>6. 24 <= k => Pow2(k) = 16777216 * Pow2(r)
  BY <1>1, PowersOfFourthByte
<1> QED
  BY <1>2, <1>3, <1>4, <1>5, <1>6 DEF r

\* The bits of a 16-bit little-endian number (bytes.rs, le_u16).
LEMMA U16Bits ==
  ASSUME NEW a \in Byte, NEW b \in Byte, NEW n, n = a + 256 * b,
         NEW k \in 0 .. 15
  PROVE  SameBit(n, Pow2(k), IF k < 8 THEN a ELSE b, Pow2(k % 8))
<1>1. /\ a \in Nat /\ b \in Nat /\ a < 256 /\ a \in Byte /\ b \in Byte
      /\ n = a + 256 * b /\ k \in 0 .. 27
  BY DEF Byte
<1>2. Pow2(k % 8) \in BitUnit
  BY <1>1, PowerSplits
<1>3. CASE k < 8
  <2>1. ByteAt(n, 1, 0, a, b)
    BY <1>1 DEF ByteAt
  <2>2. Pow2(k) = 1 * Pow2(k % 8)
    BY <1>1, <1>3, PowerSplits
  <2>3. SameBit(n, Pow2(k), a, Pow2(k % 8))
    BY <1>2, <2>1, <2>2, BitOfByte
  <2> QED
    BY <1>3, <2>3
<1>4. CASE 8 <= k
  <2>1. ByteAt(n, 256, a, b, 0)
    BY <1>1 DEF ByteAt
  <2>2. Pow2(k) = 256 * Pow2(k % 8)
    BY <1>1, <1>4, PowerSplits
  <2>3. SameBit(n, Pow2(k), b, Pow2(k % 8))
    BY <1>2, <2>1, <2>2, BitOfByte
  <2> QED
    BY <1>1, <1>4, <2>3
<1> QED
  BY <1>1, <1>3, <1>4

\* The low nibble of a byte has its low bits (fat.rs: both masks end there).
LEMMA LowNibble ==
  ASSUME NEW d \in Byte, NEW r \in 0 .. 3
  PROVE  SameBit(d % 16, Pow2(r), d, Pow2(r))
<1> DEFINE p == Pow2(r)
<1>1. p \in {1, 2, 4, 8} /\ d \in Nat
  BY PowersInByte DEF Byte
<1> HIDE DEF p
<1>2. ((d % 16) \div p) % 2 = (d \div p) % 2
  <2>1. CASE p = 1  BY <1>1, <2>1
  <2>2. CASE p = 2  BY <1>1, <2>2
  <2>3. CASE p = 4  BY <1>1, <2>3
  <2>4. CASE p = 8  BY <1>1, <2>4
  <2> QED
    BY <1>1, <2>1, <2>2, <2>3, <2>4
<1> QED
  BY <1>2 DEF p, SameBit

\* The bits of a 32-bit one that its mask leaves (fat.rs, fat_entry).
LEMMA U32Bits ==
  ASSUME NEW a \in Byte, NEW b \in Byte, NEW c \in Byte, NEW d \in Byte,
         NEW n, n = a + 256 * b + 65536 * c + 16777216 * (d % 16),
         NEW k \in 0 .. 27
  PROVE  SameBit(n, Pow2(k),
                 IF k < 8 THEN a ELSE IF k < 16 THEN b
                 ELSE IF k < 24 THEN c ELSE d, Pow2(k % 8))
<1> DEFINE e == d % 16
<1>1. /\ a \in Nat /\ b \in Nat /\ c \in Nat /\ d \in Nat /\ e \in Nat
      /\ a < 256 /\ b < 256 /\ c < 256 /\ d < 256 /\ e < 16
      /\ a \in Byte /\ b \in Byte /\ c \in Byte /\ e \in Byte
      /\ n = a + 256 * b + 65536 * c + 16777216 * e
      /\ k \in 0 .. 27
  BY DEF Byte
<1> HIDE DEF e
<1>2. Pow2(k % 8) \in BitUnit
  BY <1>1, PowerSplits
<1>3. CASE k < 8
  <2>1. ByteAt(n, 1, 0, a, b + 256 * c + 65536 * e)
    BY <1>1 DEF ByteAt
  <2>2. Pow2(k) = 1 * Pow2(k % 8)
    BY <1>1, <1>3, PowerSplits
  <2>3. SameBit(n, Pow2(k), a, Pow2(k % 8))
    BY <1>2, <2>1, <2>2, BitOfByte
  <2> QED
    BY <1>3, <2>3
<1>4. CASE 8 <= k /\ k < 16
  <2>1. ByteAt(n, 256, a, b, c + 256 * e)
    BY <1>1 DEF ByteAt
  <2>2. Pow2(k) = 256 * Pow2(k % 8)
    BY <1>1, <1>4, PowerSplits
  <2>3. SameBit(n, Pow2(k), b, Pow2(k % 8))
    BY <1>2, <2>1, <2>2, BitOfByte
  <2> QED
    BY <1>1, <1>4, <2>3
<1>5. CASE 16 <= k /\ k < 24
  <2>1. ByteAt(n, 65536, a + 256 * b, c, e)
    BY <1>1 DEF ByteAt
  <2>2. Pow2(k) = 65536 * Pow2(k % 8)
    BY <1>1, <1>5, PowerSplits
  <2>3. SameBit(n, Pow2(k), c, Pow2(k % 8))
    BY <1>2, <2>1, <2>2, BitOfByte
  <2> QED
    BY <1>1, <1>5, <2>3
<1>6. CASE 24 <= k
  <2>1. ByteAt(n, 16777216, a + 256 * b + 65536 * c, e, 0)
    BY <1>1 DEF ByteAt
  <2>2. Pow2(k) = 16777216 * Pow2(k % 8)
    BY <1>1, <1>6, PowerSplits
  <2>3. SameBit(n, Pow2(k), e, Pow2(k % 8))
    BY <1>2, <2>1, <2>2, BitOfByte
  <2>4. SameBit(e, Pow2(k % 8), d, Pow2(k % 8))
    <3>1. k % 8 \in 0 .. 3
      BY <1>6
    <3> QED
      BY <3>1, LowNibble DEF e
  <2>5. SameBit(n, Pow2(k), d, Pow2(k % 8))
    BY <2>3, <2>4 DEF SameBit
  <2> QED
    BY <1>1, <1>6, <2>5
<1> QED
  BY <1>1, <1>3, <1>4, <1>5, <1>6

\* The quotient of a quotient.
LEMMA DivOfDiv ==
  ASSUME NEW n \in Nat, NEW d \in Nat, d > 0, NEW e \in Nat, e > 0
  PROVE  (n \div d) \div e = n \div (d * e)
<1> DEFINE q == n \div d  s == n % d  q2 == q \div e  s2 == q % e
<1>1. q \in Nat /\ s \in Nat /\ s < d /\ n = d * q + s
  OBVIOUS
<1> HIDE DEF q, s
<1>2. q2 \in Nat /\ s2 \in Nat /\ s2 < e /\ q = e * q2 + s2
  BY <1>1
<1> HIDE DEF q2, s2
<1>3. d * s2 + s \in Nat /\ d * e \in Nat /\ d * e > 0
  BY <1>1, <1>2
<1>4. d * s2 + s < d * e
  <2>1. d * (s2 + 1) <= d * e /\ d * (s2 + 1) = d * s2 + d
    BY <1>2
  <2>2. d * s2 \in Nat /\ d * e \in Nat
    BY <1>2
  <2> QED
    BY <1>1, <2>1, <2>2
<1>5. n = (d * e) * q2 + (d * s2 + s)
  <2>1. d * q = d * (e * q2) + d * s2
    BY <1>2
  <2>2. d * (e * q2) = (d * e) * q2 /\ (d * e) * q2 \in Nat /\ d * s2 \in Nat
    BY <1>2
  <2> QED
    BY <1>1, <2>1, <2>2
<1>6. n \div (d * e) = q2
  BY <1>2, <1>3, <1>4, <1>5, DivUnique
<1> QED
  BY <1>6 DEF q, q2

LEMMA PowersPastNibble ==
  ASSUME NEW r \in 0 .. 11, NEW k, k = r + 4
  PROVE  Pow2(k) = 16 * Pow2(r) /\ Pow2(r) \in Nat /\ Pow2(r) > 0
<1>0. CASE r = 0 /\ k = 4  BY <1>0 DEF Pow2
<1>1. CASE r = 1 /\ k = 5  BY <1>1 DEF Pow2
<1>2. CASE r = 2 /\ k = 6  BY <1>2 DEF Pow2
<1>3. CASE r = 3 /\ k = 7  BY <1>3 DEF Pow2
<1>4. CASE r = 4 /\ k = 8  BY <1>4 DEF Pow2
<1>5. CASE r = 5 /\ k = 9  BY <1>5 DEF Pow2
<1>6. CASE r = 6 /\ k = 10  BY <1>6 DEF Pow2
<1>7. CASE r = 7 /\ k = 11  BY <1>7 DEF Pow2
<1>8. CASE r = 8 /\ k = 12  BY <1>8 DEF Pow2
<1>9. CASE r = 9 /\ k = 13  BY <1>9 DEF Pow2
<1>10. CASE r = 10 /\ k = 14  BY <1>10 DEF Pow2
<1>11. CASE r = 11 /\ k = 15  BY <1>11 DEF Pow2
<1> QED
  BY <1>0, <1>1, <1>2, <1>3, <1>4, <1>5, <1>6, <1>7, <1>8, <1>9, <1>10, <1>11

\* Bit k of x is bit b of the table.
IsTableBit(x, k, b) ==
  SameBit(x, Pow2(k), vol.fat[(b \div 8) + 1], Pow2(b % 8))

\* A FAT16 entry is two whole bytes (fat.rs, fat_entry).
LEMMA Fat16Bits ==
  ASSUME TypeOK, vol.variant = "Fat16", NEW c \in Nat
  PROVE  IF 16 * c + 16 <= 8 * Len(vol.fat)
         THEN Entry(c) < 65536 /\ \A k \in 0 .. 15 : IsTableBit(Entry(c), k, 16 * c + k)
         ELSE Entry(c) = 0
<1>1. vol.fat \in Seq(Byte) /\ Len(vol.fat) \in Nat
  BY DEF TypeOK, Volume
<1>2. Entry(c) = le_u16(vol.fat, c * 2)
  BY DEF Entry, fat_entry
<1>3. CASE 16 * c + 16 <= 8 * Len(vol.fat)
  <2> DEFINE a == vol.fat[c * 2 + 1]  b == vol.fat[c * 2 + 2]
  <2>1. c * 2 + 2 <= Len(vol.fat)
    BY <1>1, <1>3
  <2>2. a \in Byte /\ b \in Byte
    BY <1>1, <2>1
  <2>3. Entry(c) = a + 256 * b
    BY <1>2, <2>1 DEF le_u16, Inside
  <2>4. ASSUME NEW k \in 0 .. 15
        PROVE  IsTableBit(Entry(c), k, 16 * c + k)
    <3>1. /\ (16 * c + k) % 8 = k % 8
          /\ k < 8 => ((16 * c + k) \div 8) + 1 = c * 2 + 1
          /\ ~(k < 8) => ((16 * c + k) \div 8) + 1 = c * 2 + 2
      OBVIOUS
    <3>2. vol.fat[((16 * c + k) \div 8) + 1] = IF k < 8 THEN a ELSE b
      BY <3>1
    <3> HIDE DEF a, b
    <3>3. SameBit(Entry(c), Pow2(k), IF k < 8 THEN a ELSE b, Pow2(k % 8))
      BY <2>2, <2>3, U16Bits
    <3> QED
      BY <3>1, <3>2, <3>3 DEF IsTableBit
  <2>5. Entry(c) < 65536
    <3> HIDE DEF a, b
    <3> QED
      BY <2>2, <2>3 DEF Byte
  <2> QED
    BY <1>3, <2>4, <2>5
<1>4. CASE ~(16 * c + 16 <= 8 * Len(vol.fat))
  <2>1. ~(c * 2 + 2 <= Len(vol.fat))
    BY <1>1, <1>4
  <2> QED
    BY <1>2, <1>4, <2>1 DEF le_u16, Inside
<1> QED
  BY <1>3, <1>4

\* A FAT32 or exFAT entry is four bytes without the top nibble (fat.rs,
\* fat_entry).
LEMMA Fat32Bits ==
  ASSUME TypeOK, vol.variant \in {"Fat32", "ExFat"}, NEW c \in Nat
  PROVE  IF 32 * c + 32 <= 8 * Len(vol.fat)
         THEN Entry(c) < 268435456
              /\ \A k \in 0 .. 27 : IsTableBit(Entry(c), k, 32 * c + k)
         ELSE Entry(c) = 0
<1>1. vol.fat \in Seq(Byte) /\ Len(vol.fat) \in Nat
  BY DEF TypeOK, Volume
<1>2. Entry(c) = le_u32_28(vol.fat, c * 4)
  BY DEF Entry, fat_entry
<1>3. CASE 32 * c + 32 <= 8 * Len(vol.fat)
  <2> DEFINE f == vol.fat
             x == f[c * 4 + 1]  y == f[c * 4 + 2]
             z == f[c * 4 + 3]  w == f[c * 4 + 4]
  <2>1. c * 4 + 4 <= Len(vol.fat)
    BY <1>1, <1>3
  <2>2. x \in Byte /\ y \in Byte /\ z \in Byte /\ w \in Byte
    BY <1>1, <2>1
  <2>3. Entry(c) = x + 256 * y + 65536 * z + 16777216 * (w % 16)
    BY <1>2, <2>1 DEF le_u32_28, Inside
  <2>4. ASSUME NEW k \in 0 .. 27
        PROVE  IsTableBit(Entry(c), k, 32 * c + k)
    <3>1. /\ (32 * c + k) % 8 = k % 8
          /\ k < 8 => ((32 * c + k) \div 8) + 1 = c * 4 + 1
          /\ ~(k < 8) /\ k < 16 => ((32 * c + k) \div 8) + 1 = c * 4 + 2
          /\ ~(k < 16) /\ k < 24 => ((32 * c + k) \div 8) + 1 = c * 4 + 3
          /\ ~(k < 24) => ((32 * c + k) \div 8) + 1 = c * 4 + 4
      OBVIOUS
    <3>2. f[((32 * c + k) \div 8) + 1]
            = IF k < 8 THEN x ELSE IF k < 16 THEN y ELSE IF k < 24 THEN z ELSE w
      BY <3>1
    <3>3. SameBit(Entry(c), Pow2(k),
                  IF k < 8 THEN x ELSE IF k < 16 THEN y
                  ELSE IF k < 24 THEN z ELSE w, Pow2(k % 8))
      <4> HIDE DEF x, y, z, w
      <4> QED
        BY <2>2, <2>3, U32Bits
    <3> HIDE DEF x, y, z, w
    <3> QED
      BY <3>1, <3>2, <3>3 DEF IsTableBit
  <2>5. Entry(c) < 268435456
    <3> HIDE DEF x, y, z, w
    <3> QED
      BY <2>2, <2>3 DEF Byte
  <2> QED
    BY <1>3, <2>4, <2>5
<1>4. CASE ~(32 * c + 32 <= 8 * Len(vol.fat))
  <2>1. ~(c * 4 + 4 <= Len(vol.fat))
    BY <1>1, <1>4
  <2> QED
    BY <1>2, <1>4, <2>1 DEF le_u32_28, Inside
<1> QED
  BY <1>3, <1>4

\* A FAT12 entry is the lower or the upper twelve of the sixteen bits it is
\* read with (fat.rs, fat_entry: the parity of the cluster).
LEMMA Fat12Bits ==
  ASSUME TypeOK, vol.variant = "Fat12", NEW c \in Nat
  PROVE  IF 12 * c + 12 <= 8 * Len(vol.fat)
         THEN Entry(c) < 4096 /\ \A k \in 0 .. 11 : IsTableBit(Entry(c), k, 12 * c + k)
         ELSE Entry(c) = 0
<1> DEFINE o == (c * 3) \div 2
<1>1. vol.fat \in Seq(Byte) /\ Len(vol.fat) \in Nat
  BY DEF TypeOK, Volume
<1>2. Entry(c) = fat12_half(le_u16(vol.fat, o), c)
  BY DEF Entry, fat_entry
<1>3. /\ o \in Nat
      /\ 12 * c + 12 <= 8 * Len(vol.fat) <=> o + 2 <= Len(vol.fat)
      /\ c % 2 = 1 => 12 * c = 8 * o + 4
      /\ c % 2 # 1 => 12 * c = 8 * o
  BY <1>1
<1> HIDE DEF o
<1>4. CASE o + 2 <= Len(vol.fat)
  <2> DEFINE f == vol.fat  a == f[o + 1]  b == f[o + 2]
  <2>1. a \in Byte /\ b \in Byte
    BY <1>1, <1>3, <1>4
  <2>2. Entry(c) = fat12_half(a + 256 * b, c)
    BY <1>2, <1>4 DEF le_u16, Inside
  <2>3. ASSUME NEW k \in 0 .. 15, NEW t, t = 8 * o + k
        PROVE  /\ t % 8 = k % 8
               /\ f[(t \div 8) + 1] = IF k < 8 THEN a ELSE b
    <3>1. /\ t % 8 = k % 8
          /\ k < 8 => t \div 8 = o
          /\ ~(k < 8) => t \div 8 = o + 1
      BY <1>3, <2>3
    <3>2. (o + 1) + 1 = o + 2
      BY <1>3
    <3> QED
      BY <3>1, <3>2
  <2>4. a \in Nat /\ b \in Nat /\ a < 256 /\ b < 256
    BY <2>1, SMTT(60) DEF Byte
  <2> HIDE DEF a, b, f
  <2>5. CASE c % 2 = 1
    <3>1. Entry(c) = (a + 256 * b) \div 16 /\ a + 256 * b \in Nat
      BY <2>2, <2>4, <2>5 DEF fat12_half
    <3>2. Entry(c) < 4096
      BY <2>4, <3>1
    <3>3. ASSUME NEW k \in 0 .. 11
          PROVE  IsTableBit(Entry(c), k, 12 * c + k)
      <4> DEFINE j == k + 4  n == a + 256 * b  t == 12 * c + k
      <4>1. j \in 0 .. 15 /\ t = 8 * o + j
        BY <1>3, <2>5
      <4>2. /\ t % 8 = j % 8
            /\ f[(t \div 8) + 1] = IF j < 8 THEN a ELSE b
        BY <2>3, <4>1
      <4>3. Pow2(j) = 16 * Pow2(k) /\ Pow2(k) \in Nat /\ Pow2(k) > 0
        BY PowersPastNibble
      <4>4. Entry(c) \div Pow2(k) = n \div Pow2(j)
        <5> HIDE DEF j
        <5>1. n \in Nat /\ Entry(c) = n \div 16
          BY <3>1
        <5> HIDE DEF n
        <5>2. (n \div 16) \div Pow2(k) = n \div (16 * Pow2(k))
          BY <4>3, <5>1, DivOfDiv
        <5> QED
          BY <4>3, <5>1, <5>2
      <4>5. SameBit(n, Pow2(j), IF j < 8 THEN a ELSE b, Pow2(j % 8))
        <5> HIDE DEF j
        <5> QED
          BY <2>1, <4>1, U16Bits
      <4> HIDE DEF n, j, t
      <4>6. SameBit(Entry(c), Pow2(k), f[(t \div 8) + 1], Pow2(t % 8))
        BY <4>2, <4>4, <4>5 DEF SameBit
      <4> QED
        BY <4>6 DEF IsTableBit, t, f
    <3> QED
      BY <1>3, <1>4, <3>2, <3>3
  <2>6. CASE c % 2 # 1
    <3> DEFINE e == b % 16
    <3>1. Entry(c) = a + 256 * e
      BY <2>2, <2>4, <2>6 DEF fat12_half
    <3>2. e \in Byte /\ e \in Nat /\ e < 16
      BY <2>4 DEF Byte
    <3> HIDE DEF e
    <3>3. Entry(c) < 4096
      BY <2>4, <3>1, <3>2
    <3>4. ASSUME NEW k \in 0 .. 11
          PROVE  IsTableBit(Entry(c), k, 12 * c + k)
      <4> DEFINE t == 12 * c + k
      <4>1. k \in 0 .. 15 /\ t = 8 * o + k
        BY <1>3, <2>6
      <4>2. /\ t % 8 = k % 8
            /\ f[(t \div 8) + 1] = IF k < 8 THEN a ELSE b
        BY <2>3, <4>1
      <4>3. SameBit(Entry(c), Pow2(k), IF k < 8 THEN a ELSE e, Pow2(k % 8))
        BY <2>1, <3>1, <3>2, <4>1, U16Bits
      <4>4. ~(k < 8) => SameBit(e, Pow2(k % 8), b, Pow2(k % 8))
        <5>1. ~(k < 8) => k % 8 \in 0 .. 3
          OBVIOUS
        <5> QED
          BY <2>1, <5>1, LowNibble DEF e
      <4>5. SameBit(Entry(c), Pow2(k), IF k < 8 THEN a ELSE b, Pow2(k % 8))
        BY <4>3, <4>4 DEF SameBit
      <4> HIDE DEF t
      <4>6. SameBit(Entry(c), Pow2(k), f[(t \div 8) + 1], Pow2(t % 8))
        BY <4>2, <4>5
      <4> QED
        BY <4>6 DEF IsTableBit, t, f
    <3> QED
      BY <1>3, <1>4, <3>3, <3>4
  <2> QED
    BY <2>5, <2>6
<1>5. CASE ~(o + 2 <= Len(vol.fat))
  <2>1. le_u16(vol.fat, o) = 0
    BY <1>5 DEF le_u16, Inside
  <2>2. 0 \div 16 = 0 /\ 0 % 4096 = 0
    OBVIOUS
  <2> QED
    BY <1>2, <1>3, <1>5, <2>1, <2>2 DEF fat12_half
<1> QED
  BY <1>4, <1>5

\* Entry c is top + 1 bits of the table from bit w * c on, when the table holds
\* all w, and is below lim.
HasBits(c, w, top, lim) ==
  IF w * c + w <= 8 * Len(vol.fat)
  THEN Entry(c) < lim /\ \A k \in 0 .. top : IsTableBit(Entry(c), k, w * c + k)
  ELSE Entry(c) = 0

\* Every entry of every table is the twelve, sixteen or twenty-eight bits of the
\* table it stands for, whatever bytes they straddle, and free where the table
\* is cut short (fat.rs, fat_entry over the readers of bytes.rs).
THEOREM EntriesAreTheirBits == Spec => []EntryIsItsBits
<1> DEFINE Holds(c) ==
      LET w == Width(vol.variant)
      IN  IF w * c + w <= 8 * Len(vol.fat)
          THEN /\ Entry(c) < 2 ^ PointerBits(vol.variant)
               /\ \A k \in 0 .. PointerBits(vol.variant) - 1 :
                    (Entry(c) \div 2 ^ k) % 2 = TableBit(w * c + k)
          ELSE Entry(c) = 0
<1>1. ASSUME TypeOK, NEW c \in 0 .. vol.count + 3
      PROVE  Holds(c)
  <2>1. c \in Nat
    BY <1>1 DEF TypeOK, Volume
  <2>2. ASSUME NEW k, NEW b, IsTableBit(Entry(c), k, b)
        PROVE  (Entry(c) \div 2 ^ k) % 2 = TableBit(b)
    BY <2>2, Zenon DEF IsTableBit, SameBit, TableBit, Pow2
  <2>3. ASSUME HasBits(c, Width(vol.variant), PointerBits(vol.variant) - 1,
                       2 ^ PointerBits(vol.variant))
        PROVE  Holds(c)
    BY <2>2, <2>3, Zenon DEF HasBits
  <2> HIDE DEF Holds
  <2>4. CASE vol.variant = "Fat12"
    <3>1. Width(vol.variant) = 12
      BY <2>4, Zenon DEF Width
    <3>2. PointerBits(vol.variant) = 12
      BY <3>1, SMT DEF PointerBits
    <3>3. 2 ^ PointerBits(vol.variant) = 4096 /\ PointerBits(vol.variant) - 1 = 11
      BY <3>2, SMT
    <3>4. HasBits(c, 12, 11, 4096)
      BY <1>1, <2>1, <2>4, Fat12Bits, SMT DEF HasBits
    <3> QED
      BY <2>3, <3>1, <3>3, <3>4, SMT
  <2>5. CASE vol.variant = "Fat16"
    <3>1. Width(vol.variant) = 16
      BY <2>5, Zenon DEF Width
    <3>2. PointerBits(vol.variant) = 16
      BY <3>1, SMT DEF PointerBits
    <3>3. 2 ^ PointerBits(vol.variant) = 65536 /\ PointerBits(vol.variant) - 1 = 15
      BY <3>2, SMT
    <3>4. HasBits(c, 16, 15, 65536)
      BY <1>1, <2>1, <2>5, Fat16Bits, SMT DEF HasBits
    <3> QED
      BY <2>3, <3>1, <3>3, <3>4, SMT
  <2>6. CASE vol.variant \in {"Fat32", "ExFat"}
    <3>1. Width(vol.variant) = 32
      BY <2>6, Zenon DEF Width
    <3>2. PointerBits(vol.variant) = 28
      BY <3>1, SMT DEF PointerBits
    <3>3. 2 ^ PointerBits(vol.variant) = 268435456 /\ PointerBits(vol.variant) - 1 = 27
      BY <3>2, SMT
    <3>4. HasBits(c, 32, 27, 268435456)
      BY <1>1, <2>1, <2>6, Fat32Bits, SMT DEF HasBits
    <3> QED
      BY <2>3, <3>1, <3>3, <3>4, SMT
  <2>7. vol.variant \in {"Fat12", "Fat16", "Fat32", "ExFat"}
    BY <1>1 DEF TypeOK, Volume, FatVariant
  <2> QED
    BY <2>4, <2>5, <2>6, <2>7
<1>2. TypeOK => EntryIsItsBits
  BY <1>1, Zenon DEF EntryIsItsBits
<1> QED
  BY <1>2, WalkInvariant, PTL DEF Walk
=============================================================================

----------------------------- MODULE MCFatChain -----------------------------
(***************************************************************************)
(* Small volumes for FatChain: three data clusters (2, 3, 4), every value  *)
(* of their FAT entries that follow_chain tells apart, in each on-disk     *)
(* packing, whole and with the last byte of the table missing.             *)
(***************************************************************************)
EXTENDS FatChain, SequencesExt

Count == 3
Variants == {"Fat12", "Fat16", "Fat32"}

\* Free, reserved, each cluster, one outside the heap, bad, end of chain.
Bad == -1
Eoc == -2
Targets == {0, 1, 2, 3, 4, 6, Bad, Eoc}

Stored(variant, t) ==
  CASE t = Bad -> eoc_threshold(variant) - 1
    [] t = Eoc -> eoc_threshold(variant)
    [] OTHER -> t

\* e : 0 .. 5 -> Nat laid out as a table of six entries.
Packed(variant, e) ==
  CASE variant = "Fat12" ->
         LET Pair(p) == << e[p] % 256,
                           (e[p] \div 256) + 16 * (e[p + 1] % 16),
                           e[p + 1] \div 16 >>
         IN  Pair(0) \o Pair(2) \o Pair(4)
    [] variant = "Fat16" ->
         [i \in 1 .. 12 |-> (e[(i - 1) \div 2] \div 256 ^ ((i - 1) % 2)) % 256]
    [] variant = "Fat32" ->
         [i \in 1 .. 24 |->
            ((e[(i - 1) \div 4] \div 256 ^ ((i - 1) % 4)) % 256)
            + (IF i % 8 = 0 THEN 160 ELSE 0)]     \* a dirty top nibble

Table(variant, f) ==
  Packed(variant, [c \in 0 .. 5 |-> IF c \in 2 .. 4 THEN Stored(variant, f[c])
                                                    ELSE 0])

\* Bytes of the table that hold the entries of clusters 0 .. 4.
Needed(variant) ==
  CASE variant = "Fat12" -> 8 [] variant = "Fat16" -> 10 [] OTHER -> 20

ChainVolumes ==
  { [variant |-> v, count |-> Count,
     fat |-> SubSeq(Table(v, f), 1, Needed(v) - cut)] :
      v \in Variants, f \in [2 .. 4 -> Targets], cut \in {0, 1} }

\* Tables of arbitrary bytes, for the decoding.
SomeBytes == {0, 1, 90, 255}
ByteVolumes ==
  { [variant |-> v, count |-> 1, fat |-> b] :
      v \in Variants \cup {"ExFat"},
      b \in UNION { [1 .. n -> SomeBytes] : n \in 0 .. 5 } }
    \cup { [variant |-> v, count |-> 1, fat |-> a \o <<255, 1, 90, 127>> \o b] :
             v \in {"Fat32", "ExFat"},
             a \in [1 .. 4 -> {0, 255}], b \in [1 .. 3 -> {0, 90}] }

AllVolumes == ChainVolumes \cup ByteVolumes
AllStarts == {0, 1, 2, 4, 6}
=============================================================================

---------------------------- MODULE FatDirProofs ----------------------------
(***************************************************************************)
(* Any directory of any length: every entry is listed, under the name that *)
(* the LFN slots right before it spell, and a name written as VFAT writes  *)
(* it comes back.                                                          *)
(*                                                                         *)
(* The argument: the pending parts are always the unbroken run of live LFN *)
(* slots that ends at the scan (Pending), so what a short entry takes over *)
(* is its own run; and the scan leaves no short entry behind (Passed).     *)
(***************************************************************************)
EXTENDS FatDir, FoldLemmas, FiniteSetTheorems, SequenceTheorems

\* No end marker is behind the scan, and it stops only at one or at the end.
NoEndBehind ==
  /\ \A j \in 0 .. idx - 1 : slot(j).first # "end"
  /\ pc = "done" /\ idx < Len(dir) => slot(idx).first = "end"

\* The pending parts are the run of LFN slots right behind the scan.
Pending ==
  \E s \in 0 .. idx :
    /\ IsRunStart(s, idx)
    /\ lfn_parts = Run(s, idx)
    /\ lfn_checksum = IF s = idx THEN NoSum ELSE slot(idx - 1).sum

\* The entries are the short slots behind the scan, in their order.
Passed ==
  /\ \A k \in 1 .. Len(out) :
       /\ out[k].slot < idx
       /\ slot(out[k].slot).attr # "lfn"
       /\ out[k].deleted <=> slot(out[k].slot).first = "deleted"
  /\ \A k \in 2 .. Len(out) : out[k - 1].slot < out[k].slot
  /\ \A i \in 0 .. idx - 1 :
       slot(i).attr # "lfn" => \E k \in 1 .. Len(out) : out[k].slot = i

IInv == TypeOK /\ NoEndBehind /\ Pending /\ Passed /\ NamedByItsRun

-----------------------------------------------------------------------------
\* Every place of a strict order has its element: the number of those before
\* it tells the elements apart, and there are as many numbers as elements.
LEMMA RankTaken ==
  ASSUME NEW n \in Nat, NEW key \in [1 .. n -> Nat], NEW k \in 1 .. n
  PROVE  \E j \in 1 .. n :
           Cardinality({ i \in 1 .. n : key[i] < key[j] \/ (key[i] = key[j] /\ i < j) })
             = k - 1
<1>1. PICK B : B = [j \in 1 .. n |->
               { i \in 1 .. n : key[i] < key[j] \/ (key[i] = key[j] /\ i < j) }]
  OBVIOUS
<1>2. /\ \A j \in 1 .. n : B[j] \subseteq 1 .. n /\ j \notin B[j]
      /\ \A i, j \in 1 .. n : i \in B[j] => B[i] \subseteq B[j]
      /\ \A i, j \in 1 .. n : i = j \/ i \in B[j] \/ j \in B[i]
  BY <1>1
<1>3. SUFFICES \E j \in 1 .. n : Cardinality(B[j]) = k - 1
  BY <1>1
<1>4. IsFiniteSet(1 .. n) /\ Cardinality(1 .. n) = n
  BY FS_Interval, 1 \in Int, n \in Int
<1>5. ASSUME NEW j \in 1 .. n
      PROVE  IsFiniteSet(B[j]) /\ Cardinality(B[j]) \in 0 .. n - 1
  <2>1. IsFiniteSet(B[j]) /\ Cardinality(B[j]) <= n /\ (Cardinality(B[j]) = n => B[j] = 1 .. n)
    BY <1>2, <1>4, FS_Subset
  <2>2. Cardinality(B[j]) \in Nat
    BY <2>1, FS_CardinalityType
  <2> QED
    BY <1>2, <2>1, <2>2
<1>6. ASSUME NEW i \in 1 .. n, NEW j \in 1 .. n, i \in B[j]
      PROVE  Cardinality(B[i]) # Cardinality(B[j])
  <2>1. B[i] \subseteq B[j] /\ B[i] # B[j]
    BY <1>2, <1>6
  <2> QED
    BY <1>5, <2>1, FS_Subset
<1>7. ASSUME NEW i \in 1 .. n, NEW j \in 1 .. n, i # j
      PROVE  Cardinality(B[i]) # Cardinality(B[j])
  BY <1>2, <1>6, <1>7
<1> SUFFICES ASSUME \A j \in 1 .. n : Cardinality(B[j]) # k - 1
             PROVE  FALSE
  OBVIOUS
<1> DEFINE Places == (0 .. n - 1) \ {k - 1}
           f == [j \in 1 .. n |-> Cardinality(B[j])]
<1>8. IsFiniteSet(Places) /\ Cardinality(Places) = n - 1
  <2>1. IsFiniteSet(0 .. n - 1) /\ Cardinality(0 .. n - 1) = n
    <3> DEFINE m == n - 1
    <3>1. 0 \in Int /\ m \in Int /\ ~(0 > m) /\ m - 0 + 1 = n
      OBVIOUS
    <3> HIDE DEF m
    <3>2. \A a, b \in Int : /\ IsFiniteSet(a .. b)
                            /\ Cardinality(a .. b) = IF a > b THEN 0 ELSE b - a + 1
      BY FS_Interval
    <3> QED
      BY <3>1, <3>2, Zenon DEF m
  <2>2. k - 1 \in 0 .. n - 1
    OBVIOUS
  <2> QED
    BY <2>1, <2>2, FS_RemoveElement
<1>9. f \in [1 .. n -> Places]
  BY <1>5
<1>10. \E i, j \in 1 .. n : i # j /\ f[i] = f[j]
  <2> HIDE DEF f, Places
  <2> QED
    BY <1>4, <1>8, <1>9, FS_PigeonHole, SMTT(60)
<1> QED
  BY <1>7, <1>10

-----------------------------------------------------------------------------
\* The slots of a directory.
LEMMA SlotType ==
  ASSUME dir \in Seq(Slot), NEW i \in 0 .. Len(dir) - 1
  PROVE  /\ slot(i) \in Slot
         /\ slot(i).ord \in Nat /\ slot(i).sum \in Nat /\ slot(i).units \in Seq(Nat)
         /\ slot(i).ord % 32 \in Nat
<1>1. i + 1 \in 1 .. Len(dir)
  OBVIOUS
<1>2. slot(i) \in Slot
  BY <1>1 DEF slot
<1>3. slot(i).ord \in Nat /\ slot(i).sum \in Nat /\ slot(i).units \in Seq(Nat)
  BY <1>2 DEF Slot
<1> QED
  BY <1>2, <1>3

LEMMA MinIsLeast ==
  ASSUME NEW T \in SUBSET Nat, T # {}
  PROVE  Min(T) \in T
<1>1. PICK x \in T : \A y \in T : x <= y
  BY Least
<1> QED
  BY <1>1 DEF Min

\* What is spelled is code units (dirent.rs, lfn_text).
LEMMA TextType ==
  ASSUME NEW units \in Seq(Nat)
  PROVE  lfn_text(units) \in Seq(Nat)
<1> DEFINE nul == { i \in DOMAIN units : units[i] = 0 }
           text == IF nul = {} THEN units ELSE SubSeq(units, 1, Min(nul) - 1)
           kept == [i \in DOMAIN text |-> IF text[i] = 65535 THEN <<>> ELSE <<text[i]>>]
<1>1. text \in Seq(Nat)
  <2>1. nul # {} => Min(nul) \in 1 .. Len(units)
    <3>1. nul \in SUBSET Nat /\ nul \subseteq 1 .. Len(units)
      OBVIOUS
    <3> HIDE DEF nul
    <3> QED
      BY <3>1, MinIsLeast
  <2> HIDE DEF nul
  <2>2. \A m \in 1 .. Len(units) : SubSeq(units, 1, m - 1) \in Seq(Nat)
    BY SubSeqProperties
  <2> QED
    BY <2>1, <2>2
<1>2. kept \in Seq(Seq(Nat))
  <2> HIDE DEF text
  <2>1. \A i \in 1 .. Len(text) : text[i] \in Nat
    BY <1>1
  <2>2. \A i \in 1 .. Len(text) :
          (IF text[i] = 65535 THEN <<>> ELSE <<text[i]>>) \in Seq(Nat)
    BY <2>1
  <2>3. Len(text) \in Nat /\ kept \in [1 .. Len(text) -> Seq(Nat)]
    BY <1>1, <2>2
  <2> HIDE DEF kept
  <2> QED
    BY <2>3
<1>3. FlattenSeq(kept) \in Seq(Nat)
  <2> HIDE DEF kept
  <2> QED
    BY <1>2, FlattenIsSeq
<1>4. lfn_text(units) = FlattenSeq(kept)
  BY DEF lfn_text
<1> HIDE DEF kept
<1> QED
  BY <1>3, <1>4

\* Sorting the pending parts takes every one of them from among them
\* (dirent.rs, reassemble_long).
LEMMA OrderType ==
  ASSUME dir \in Seq(Slot), NEW parts \in Seq(0 .. Len(dir) - 1)
  PROVE  /\ DOMAIN SeqOrder(parts) = DOMAIN parts
         /\ \A k \in DOMAIN parts : SeqOrder(parts)[k] \in 0 .. Len(dir) - 1
<1> DEFINE n == Len(parts)
           seq(k) == slot(parts[k]).ord % 32
           key == [k \in 1 .. n |-> seq(k)]
           before(k) == { j \in DOMAIN parts : seq(j) < seq(k) \/ (seq(j) = seq(k) /\ j < k) }
           at(k) == CHOOSE j \in DOMAIN parts : Cardinality(before(j)) = k - 1
<1>1. n \in Nat /\ DOMAIN parts = 1 .. n /\ \A k \in 1 .. n : parts[k] \in 0 .. Len(dir) - 1
  OBVIOUS
<1>2. key \in [1 .. n -> Nat]
  BY <1>1, SlotType
<1>3. ASSUME NEW k \in 1 .. n
      PROVE  at(k) \in 1 .. n
  <2>1. PICK j \in 1 .. n :
          Cardinality({ i \in 1 .. n : key[i] < key[j] \/ (key[i] = key[j] /\ i < j) }) = k - 1
    <3> HIDE DEF key, n
    <3> QED
      BY <1>1, <1>2, RankTaken
  <2>2. { i \in 1 .. n : key[i] < key[j] \/ (key[i] = key[j] /\ i < j) } = before(j)
    BY <1>1
  <2>3. \E i \in DOMAIN parts : Cardinality(before(i)) = k - 1
    BY <1>1, <2>1, <2>2
  <2> HIDE DEF before
  <2> QED
    BY <1>1, <2>3
<1>4. SeqOrder(parts) = [k \in DOMAIN parts |-> parts[at(k)]]
  BY DEF SeqOrder
<1> HIDE DEF at
<1> QED
  BY <1>1, <1>3, <1>4

LEMMA LongType ==
  ASSUME dir \in Seq(Slot), NEW parts \in Seq(0 .. Len(dir) - 1), NEW sum, NEW short
  PROVE  reassemble_long(parts, sum, short) \in Seq(Nat)
<1> DEFINE texts == [k \in DOMAIN parts |-> lfn_text(slot(SeqOrder(parts)[k]).units)]
<1>1. ASSUME NEW k \in DOMAIN parts
      PROVE  lfn_text(slot(SeqOrder(parts)[k]).units) \in Seq(Nat)
  BY OrderType, SlotType, TextType
<1>2. texts \in Seq(Seq(Nat))
  BY <1>1
<1>3. FlattenSeq(texts) \in Seq(Nat)
  <2> HIDE DEF texts
  <2> QED
    BY <1>2, FlattenIsSeq
<1> QED
  BY <1>3 DEF reassemble_long

-----------------------------------------------------------------------------
\* SeqOrder as a function of the directory.
OrderIn(d, parts) ==
  LET seq(k) == d[parts[k] + 1].ord % 32
      before(k) == { j \in DOMAIN parts : seq(j) < seq(k) \/ (seq(j) = seq(k) /\ j < k) }
  IN  [k \in DOMAIN parts |->
         parts[CHOOSE j \in DOMAIN parts : Cardinality(before(j)) = k - 1]]

\* The directory does not change, nor what its slots spell.
LEMMA SameNames ==
  ASSUME dir' = dir, NEW s, NEW e
  PROVE  /\ (slot(s)') = slot(s)
         /\ IsLfn(s)' <=> IsLfn(s)
         /\ NameOfRun(s, e)' = NameOfRun(s, e)
<1>1. \A i : (slot(i)') = slot(i)
  BY DEF slot
<1>2. IsLfn(s)' <=> IsLfn(s)
  BY <1>1 DEF IsLfn
<1>3. ASSUME NEW parts
      PROVE  SeqOrder(parts)' = SeqOrder(parts)
  <2>1. SeqOrder(parts) = OrderIn(dir, parts)
    BY DEF SeqOrder, OrderIn, slot
  <2>2. SeqOrder(parts)' = OrderIn(dir', parts)
    BY DEF SeqOrder, OrderIn, slot
  <2> QED
    BY <2>1, <2>2
<1>4. ASSUME NEW parts, NEW sum, NEW short
      PROVE  reassemble_long(parts, sum, short)' = reassemble_long(parts, sum, short)
  BY <1>1, <1>3 DEF reassemble_long
<1> QED
  BY <1>1, <1>2, <1>4 DEF NameOfRun, Run

LEMMA RunStartUnique ==
  ASSUME NEW i \in Nat, NEW s, NEW t, IsRunStart(s, i), IsRunStart(t, i)
  PROVE  s = t
BY DEF IsRunStart

LEMMA InitIInv == Init => IInv
<1> SUFFICES ASSUME Init PROVE IInv
  OBVIOUS
<1>1. dir \in Seq(Slot) /\ idx = 0 /\ lfn_parts = <<>> /\ lfn_checksum = NoSum
      /\ out = <<>> /\ pc = "scan"
  BY DirsAssumption DEF Init
<1>2. TypeOK
  BY <1>1 DEF TypeOK
<1>3. Pending
  <2>1. IsRunStart(0, 0)
    BY DEF IsRunStart
  <2>2. Run(0, 0) = <<>>
    BY DEF Run
  <2>3. 0 \in 0 .. idx
    BY <1>1
  <2> QED
    BY <1>1, <2>1, <2>2, <2>3 DEF Pending
<1> QED
  BY <1>1, <1>2, <1>3 DEF IInv, NoEndBehind, Passed, NamedByItsRun

\* What is true of the slots behind the scan stays so when it moves by one.
LEMMA NextSlot ==
  ASSUME IInv, Scanning, slot(idx).first # "end", dir' = dir, pc' = pc, idx' = idx + 1
  PROVE  NoEndBehind'
<1>1. idx \in Nat /\ pc' = "scan"
  BY DEF IInv, TypeOK, Scanning
<1>2. \A j \in 0 .. idx' - 1 : (slot(j)').first # "end"
  BY <1>1, SameNames DEF IInv, NoEndBehind
<1> QED
  BY <1>1, <1>2 DEF NoEndBehind

\* Where no LFN slot stands the pending parts are dropped.
LEMMA NothingPending ==
  ASSUME IInv, Scanning, ~IsLfn(idx), dir' = dir, idx' = idx + 1, ClearPending
  PROVE  Pending'
<1>1. idx \in Nat
  BY DEF IInv, TypeOK
<1>2. IsRunStart(idx, idx)'
  <2>1. \A j : IsLfn(j)' <=> IsLfn(j)
    BY SameNames
  <2>2. idx' \in 0 .. idx' /\ idx' .. idx' - 1 = {} /\ ~IsLfn(idx' - 1)
    BY <1>1
  <2> QED
    BY <2>1, <2>2 DEF IsRunStart
<1>3. Run(idx', idx') = <<>>
  BY <1>1 DEF Run
<1>4. idx' \in 0 .. idx'
  BY <1>1
<1> QED
  BY <1>2, <1>3, <1>4 DEF Pending, ClearPending

\* An entry slot is passed and its entry appended.
LEMMA EntryKeepsIInv ==
  ASSUME IInv, Scanning, slot(idx).first # "end", slot(idx).attr # "lfn",
         NEW long \in Seq(Nat), NEW deleted \in BOOLEAN,
         deleted <=> slot(idx).first = "deleted",
         deleted => long = <<>>,
         ~deleted => \A s \in 0 .. idx : IsRunStart(s, idx) =>
           long = reassemble_long(Run(s, idx),
                    IF s = idx THEN NoSum ELSE slot(idx - 1).sum, slot(idx)),
         out' = Append(out, decode_short(idx, long, deleted)), ClearPending,
         dir' = dir, idx' = idx + 1, pc' = pc
  PROVE  IInv'
<1> DEFINE e == decode_short(idx, long, deleted)
           n == Len(out)
<1>1. dir \in Seq(Slot) /\ idx \in 0 .. Len(dir) - 1 /\ out \in Seq(Entry) /\ pc = "scan"
  BY DEF IInv, TypeOK, Scanning
<1>n. n \in Nat /\ idx \in Nat
  BY <1>1
<1>2. /\ e.slot = idx /\ e.long = long /\ e.deleted = deleted
      /\ e \in Entry
  BY <1>1, SlotType, MaxIndexAssumption DEF decode_short, Entry
<1> HIDE DEF e
<1>3. /\ Len(out') = n + 1 /\ out'[n + 1] = e
      /\ \A k \in 1 .. n : out'[k] = out[k] /\ out[k] \in Entry
      /\ out' \in Seq(Entry)
  BY <1>1, <1>2 DEF e
<1> HIDE DEF n
<1>4. TypeOK'
  <2>1. lfn_parts' \in Seq(0 .. idx' - 1) /\ lfn_checksum' \in Nat \cup {NoSum}
    BY DEF ClearPending
  <2> QED
    BY <1>1, <1>3, <2>1 DEF TypeOK
<1>5. NoEndBehind'
  BY NextSlot
<1>6. Pending'
  BY NothingPending DEF IsLfn
<1>7. Passed'
  <2>1. \A k \in 1 .. n : out[k].slot \in Nat /\ out[k].slot < idx
    BY <1>3 DEF IInv, Passed, Entry, n
  <2>2. ASSUME NEW k \in 1 .. n + 1
        PROVE  /\ out'[k].slot < idx + 1
               /\ slot(out'[k].slot).attr # "lfn"
               /\ out'[k].deleted <=> slot(out'[k].slot).first = "deleted"
    <3>1. CASE k = n + 1
      BY <1>1, <1>n, <1>2, <1>3, <3>1
    <3>2. CASE k \in 1 .. n
      BY <1>1, <1>3, <2>1, <3>2 DEF IInv, Passed, n
    <3>3. k = n + 1 \/ k \in 1 .. n
      BY <1>n
    <3> QED
      BY <3>1, <3>2, <3>3
  <2>3. ASSUME NEW k \in 2 .. n + 1
        PROVE  out'[k - 1].slot < out'[k].slot
    <3>1. CASE k = n + 1
      BY <1>1, <1>n, <1>2, <1>3, <2>1, <3>1, SMTT(60)
    <3>2. CASE k \in 2 .. n
      BY <1>n, <1>3, <3>2 DEF IInv, Passed, n
    <3>3. k = n + 1 \/ k \in 2 .. n
      BY <1>n
    <3> QED
      BY <3>1, <3>2, <3>3
  <2>4. ASSUME NEW i \in 0 .. idx, slot(i).attr # "lfn"
        PROVE  \E k \in 1 .. n + 1 : out'[k].slot = i
    <3>1. CASE i = idx
      <4>1. n + 1 \in 1 .. n + 1 /\ out'[n + 1].slot = idx
        BY <1>n, <1>2, <1>3
      <4> QED
        BY <3>1, <4>1
    <3>2. CASE i \in 0 .. idx - 1
      <4>1. PICK k \in 1 .. n : out[k].slot = i
        BY <2>4, <3>2 DEF IInv, Passed, n
      <4> QED
        BY <1>n, <1>3, <4>1
    <3>3. i = idx \/ i \in 0 .. idx - 1
      BY <1>n
    <3> QED
      BY <3>1, <3>2, <3>3
  <2>5. idx' - 1 = idx
    BY <1>n
  <2>6. \A i : (slot(i)') = slot(i)
    BY SameNames
  <2> QED
    BY <1>3, <2>2, <2>3, <2>4, <2>5, <2>6, ZenonT(30) DEF Passed
<1>8. NamedByItsRun'
  <2>1. ASSUME NEW k \in 1 .. n + 1
        PROVE  IF out'[k].deleted THEN out'[k].long = <<>>
               ELSE \A s \in 0 .. out'[k].slot :
                 IsRunStart(s, out'[k].slot) => out'[k].long = NameOfRun(s, out'[k])
    <3>1. CASE k = n + 1
      <4>1. /\ out'[k].long = long /\ out'[k].deleted = deleted
            /\ out'[k].slot = idx
        BY <1>2, <1>3, <3>1
      <4>2. ~deleted => \A s \in 0 .. idx : IsRunStart(s, idx) =>
              long = NameOfRun(s, out'[k])
        BY <4>1 DEF NameOfRun
      <4> QED
        BY <4>1, <4>2
    <3>2. CASE k \in 1 .. n
      BY <1>3, <3>2 DEF IInv, NamedByItsRun, n
    <3>3. k = n + 1 \/ k \in 1 .. n
      BY <1>n
    <3> QED
      BY <3>1, <3>2, <3>3
  <2>2. \A s, i : IsRunStart(s, i)' <=> IsRunStart(s, i)
    BY SameNames DEF IsRunStart
  <2>3. \A s, f : NameOfRun(s, f)' = NameOfRun(s, f)
    BY SameNames
  <2> QED
    BY <1>3, <2>1, <2>2, <2>3 DEF NamedByItsRun
<1> QED
  BY <1>4, <1>5, <1>6, <1>7, <1>8 DEF IInv

\* What the scan skips or takes for a part of a name changes no entry.
LEMMA NoEntryKeeps ==
  ASSUME IInv, Scanning, slot(idx).attr = "lfn", dir' = dir, idx' = idx + 1, out' = out
  PROVE  Passed' /\ NamedByItsRun'
<1>1. idx \in Nat /\ idx' - 1 = idx /\ out \in Seq(Entry)
  BY DEF IInv, TypeOK
<1>2. \A s, f : /\ (slot(s)') = slot(s)
                /\ IsLfn(s)' <=> IsLfn(s)
                /\ NameOfRun(s, f)' = NameOfRun(s, f)
  BY SameNames
<1>3. \A s, i : IsRunStart(s, i)' <=> IsRunStart(s, i)
  BY <1>2 DEF IsRunStart
<1>4. NamedByItsRun'
  BY <1>2, <1>3 DEF IInv, NamedByItsRun
<1>5. Passed'
  <2>1. \A k \in 1 .. Len(out) : out[k].slot \in Nat
    <3>1. \A k \in 1 .. Len(out) : out[k] \in Entry
      BY <1>1
    <3> QED
      BY <3>1 DEF Entry
  <2>2. \A k \in 1 .. Len(out) : out[k].slot < idx + 1
    BY <1>1, <2>1 DEF IInv, Passed
  <2>3. \A i \in 0 .. idx : i = idx \/ i \in 0 .. idx - 1
    BY <1>1
  <2> QED
    BY <1>1, <1>2, <2>2, <2>3 DEF IInv, Passed
<1> QED
  BY <1>4, <1>5

\* A live LFN slot joins the run before it.
LEMMA PartJoinsRun ==
  ASSUME IInv, LfnPart
  PROVE  Pending' /\ TypeOK'
<1>1. /\ dir \in Seq(Slot) /\ idx \in 0 .. Len(dir) - 1 /\ idx \in Nat
      /\ lfn_parts \in Seq(0 .. idx - 1) /\ IsLfn(idx)
      /\ dir' = dir /\ idx' = idx + 1 /\ lfn_parts' = Append(lfn_parts, idx)
      /\ lfn_checksum' = slot(idx).sum /\ out' = out /\ pc' = pc
  BY DEF IInv, TypeOK, LfnPart, Scanning
<1>2. PICK s \in 0 .. idx : IsRunStart(s, idx) /\ lfn_parts = Run(s, idx)
  BY DEF IInv, Pending
<1>3. \A j : (slot(j)') = slot(j) /\ (IsLfn(j)' <=> IsLfn(j))
  BY <1>1, SameNames
<1>4. \A j : IsRunStart(s, j)' <=> IsRunStart(s, j)
  BY <1>3 DEF IsRunStart
<1>5. IsRunStart(s, idx + 1)
  <2>1. \A j \in s .. idx : j = idx \/ j \in s .. idx - 1
    BY <1>1
  <2> QED
    BY <1>1, <1>2, <2>1, SMTT(60) DEF IsRunStart
<1>6. Append(lfn_parts, idx) = Run(s, idx + 1)
  <2>1. Len(lfn_parts) = idx - s
    BY <1>1, <1>2 DEF Run
  <2> QED
    BY <1>1, <1>2, <2>1 DEF Run
<1>7. Pending'
  <2>1. s \in 0 .. idx + 1 /\ s # idx + 1 /\ (idx + 1) - 1 = idx
    BY <1>1
  <2> QED
    BY <1>1, <1>3, <1>4, <1>5, <1>6, <2>1 DEF Pending
<1>8. TypeOK'
  <2>1. Append(lfn_parts, idx) \in Seq(0 .. idx)
    <3>1. lfn_parts \in Seq(0 .. idx) /\ idx \in 0 .. idx
      BY <1>1
    <3> QED
      BY <3>1
  <2>2. slot(idx).sum \in Nat
    BY <1>1, SlotType
  <2> QED
    BY <1>1, <2>1, <2>2 DEF IInv, TypeOK
<1> QED
  BY <1>7, <1>8

LEMMA StepKeepsIInv == IInv /\ [Next]_vars => IInv'
<1> SUFFICES ASSUME IInv, [Next]_vars PROVE IInv'
  OBVIOUS
<1>t. /\ dir \in Seq(Slot) /\ idx \in Nat /\ idx \in 0 .. Len(dir)
      /\ lfn_parts \in Seq(0 .. idx - 1)
  BY DEF IInv, TypeOK
<1>1. CASE End
  <2>1. dir' = dir /\ idx' = idx /\ lfn_parts' = lfn_parts /\ lfn_checksum' = lfn_checksum
        /\ out' = out /\ pc' = "done"
    BY <1>1 DEF End
  <2>2. \A s, i, f : /\ (slot(s)') = slot(s)
                     /\ IsRunStart(s, i)' <=> IsRunStart(s, i)
                     /\ NameOfRun(s, f)' = NameOfRun(s, f)
    BY <2>1, SameNames DEF IsRunStart
  <2>3. TypeOK'
    BY <2>1 DEF IInv, TypeOK
  <2>4. NoEndBehind'
    BY <1>1, <2>1, <2>2 DEF IInv, NoEndBehind, End
  <2>5. Pending'
    BY <2>1, <2>2 DEF IInv, Pending
  <2>6. Passed'
    BY <2>1, <2>2 DEF IInv, Passed
  <2>7. NamedByItsRun'
    BY <2>1, <2>2 DEF IInv, NamedByItsRun
  <2> QED
    BY <2>3, <2>4, <2>5, <2>6, <2>7 DEF IInv
<1>2. CASE DeletedLfn
  <2>1. /\ Scanning /\ slot(idx).first = "deleted" /\ slot(idx).attr = "lfn"
        /\ ClearPending /\ dir' = dir /\ idx' = idx + 1 /\ out' = out /\ pc' = pc
    BY <1>2 DEF DeletedLfn
  <2>2. TypeOK'
    BY <2>1 DEF IInv, TypeOK, ClearPending, Scanning
  <2>3. NoEndBehind'
    BY <2>1, NextSlot
  <2>4. Pending'
    BY <2>1, NothingPending DEF IsLfn
  <2> QED
    BY <2>1, <2>2, <2>3, <2>4, NoEntryKeeps DEF IInv
<1>3. CASE DeletedShort
  <2>1. <<>> \in Seq(Nat) /\ TRUE \in BOOLEAN
    OBVIOUS
  <2> QED
    BY <1>3, <2>1, EntryKeepsIInv DEF DeletedShort
<1>4. CASE LfnPart
  <2>1. Scanning /\ slot(idx).first = "live" /\ slot(idx).attr = "lfn"
        /\ dir' = dir /\ idx' = idx + 1 /\ out' = out /\ pc' = pc
    BY <1>4 DEF LfnPart, IsLfn
  <2> QED
    BY <1>4, <2>1, PartJoinsRun, NextSlot, NoEntryKeeps DEF IInv
<1>5. CASE ShortEntry
  <2> DEFINE long == reassemble_long(lfn_parts, lfn_checksum, slot(idx))
  <2>1. Scanning /\ slot(idx).first = "live" /\ slot(idx).attr # "lfn"
        /\ out' = Append(out, decode_short(idx, long, FALSE)) /\ ClearPending
        /\ dir' = dir /\ idx' = idx + 1 /\ pc' = pc
    BY <1>5 DEF ShortEntry
  <2>2. long \in Seq(Nat)
    <3>1. lfn_parts \in Seq(0 .. Len(dir) - 1)
      <4>1. 0 .. idx - 1 \subseteq 0 .. Len(dir) - 1
        BY <1>t
      <4> QED
        BY <1>t, <4>1, SeqMonotonic
    <3> QED
      BY <1>t, <3>1, LongType
  <2>3. ASSUME NEW s \in 0 .. idx, IsRunStart(s, idx)
        PROVE  long = reassemble_long(Run(s, idx),
                        IF s = idx THEN NoSum ELSE slot(idx - 1).sum, slot(idx))
    <3>1. PICK r \in 0 .. idx :
            /\ IsRunStart(r, idx) /\ lfn_parts = Run(r, idx)
            /\ lfn_checksum = IF r = idx THEN NoSum ELSE slot(idx - 1).sum
      BY DEF IInv, Pending
    <3>2. r = s
      BY <1>t, <2>3, <3>1, RunStartUnique
    <3> QED
      BY <3>1, <3>2
  <2> HIDE DEF long
  <2>4. slot(idx).first # "end" /\ slot(idx).first # "deleted"
    BY <2>1
  <2> QED
    BY <2>1, <2>2, <2>3, <2>4, EntryKeepsIInv
<1>6. CASE UNCHANGED vars
  <2>1. dir' = dir /\ idx' = idx /\ lfn_parts' = lfn_parts /\ lfn_checksum' = lfn_checksum
        /\ out' = out /\ pc' = pc
    BY <1>6 DEF vars
  <2>2. \A s, i, f : /\ (slot(s)') = slot(s)
                     /\ IsRunStart(s, i)' <=> IsRunStart(s, i)
                     /\ NameOfRun(s, f)' = NameOfRun(s, f)
    BY <2>1, SameNames DEF IsRunStart
  <2> QED
    BY <2>1, <2>2 DEF IInv, TypeOK, NoEndBehind, Pending, Passed, NamedByItsRun
<1> QED
  BY <1>1, <1>2, <1>3, <1>4, <1>5, <1>6 DEF Next

LEMMA IInvAlways == Spec => []IInv
<1>1. Init => IInv
  BY InitIInv
<1>2. IInv /\ [Next]_vars => IInv'
  BY StepKeepsIInv
<1> QED
  BY <1>1, <1>2, PTL DEF Spec

-----------------------------------------------------------------------------
\* The locals of the scan keep their types, the pending parts are slots
\* already scanned, and every entry is well formed, whatever the directory
\* holds (dirent.rs, parse_directory).
THEOREM ScanTypes == Spec => []TypeOK
<1>1. IInv => TypeOK
  BY DEF IInv
<1> QED
  BY <1>1, IInvAlways, PTL

\* A live entry is named by the LFN slots right before it, all of them and
\* only them, and a deleted one has no long name (dirent.rs, parse_directory).
THEOREM NamesAreOwn == Spec => []NamedByItsRun
<1>1. IInv => NamedByItsRun
  BY DEF IInv
<1> QED
  BY <1>1, IInvAlways, PTL

\* Every short entry before the first end marker is listed once, in slot
\* order, and nothing else is (dirent.rs, parse_directory).
THEOREM EveryEntryIsListed == Spec => []ListsAllEntries
<1>1. ASSUME IInv
      PROVE  ListsAllEntries
  <2>1. /\ dir \in Seq(Slot) /\ idx \in 0 .. Len(dir) /\ idx \in Nat
        /\ \A k \in 1 .. Len(out) : out[k].slot \in Nat
    <3>1. \A k \in 1 .. Len(out) : out[k] \in Entry
      BY <1>1 DEF IInv, TypeOK
    <3> QED
      BY <1>1, <3>1, SMTT(60) DEF IInv, TypeOK, Entry
  <2>2. ASSUME NEW k \in 1 .. Len(out)
        PROVE  /\ Listed(out[k].slot)
               /\ out[k].deleted <=> slot(out[k].slot).first = "deleted"
               /\ k > 1 => out[k - 1].slot < out[k].slot
    <3>1. \A j \in 0 .. out[k].slot : j \in 0 .. idx - 1
      BY <1>1, <2>1 DEF IInv, Passed
    <3>2. k > 1 => k \in 2 .. Len(out)
      OBVIOUS
    <3> QED
      BY <1>1, <3>1, <3>2 DEF IInv, Passed, NoEndBehind, Listed
  <2>3. ASSUME pc = "done", NEW i \in 0 .. Len(dir) - 1, Listed(i)
        PROVE  \E k \in 1 .. Len(out) : out[k].slot = i
    <3>1. i < idx
      <4>1. CASE idx = Len(dir)
        BY <2>1, <4>1
      <4>2. CASE idx < Len(dir)
        <5>1. slot(idx).first = "end"
          BY <1>1, <2>3, <4>2 DEF IInv, NoEndBehind
        <5>2. idx \notin 0 .. i
          BY <2>3, <5>1 DEF Listed
        <5> QED
          BY <2>1, <5>2
      <4> QED
        BY <2>1, <4>1, <4>2
    <3>2. i \in 0 .. idx - 1 /\ slot(i).attr # "lfn"
      BY <2>1, <2>3, <3>1 DEF Listed
    <3> QED
      BY <1>1, <3>2 DEF IInv, Passed
  <2> QED
    BY <2>2, <2>3 DEF ListsAllEntries
<1> QED
  BY <1>1, IInvAlways, PTL

\* Parts numbered downwards, as VFAT stores them, are sorted into the reverse
\* of the order they stand in.
LEMMA WrittenOrder ==
  ASSUME dir \in Seq(Slot), NEW i \in Nat, NEW s \in 0 .. i, IsNameOf(s, i),
         NEW k \in 1 .. i - s
  PROVE  SeqOrder(Run(s, i))[k] = i - k
<1> DEFINE n == i - s
           parts == Run(s, i)
           seq(j) == slot(parts[j]).ord % 32
           before(j) == { m \in DOMAIN parts : seq(m) < seq(j) \/ (seq(m) = seq(j) /\ m < j) }
           at == CHOOSE j \in DOMAIN parts : Cardinality(before(j)) = k - 1
<1>1. n \in Nat /\ k \in 1 .. n /\ i = s + n /\ s \in Nat
  OBVIOUS
<1>2. DOMAIN parts = 1 .. n /\ \A j \in 1 .. n : parts[j] = s + j - 1
  BY DEF Run
<1>3. \A j \in 1 .. n : seq(j) = n - j + 1
  <2>1. \A j \in 1 .. n : parts[j] \in s .. i - 1
    BY <1>1, <1>2
  <2>2. \A j \in 1 .. n : seq(j) = i - parts[j]
    BY <2>1 DEF IsNameOf
  <2> QED
    BY <1>1, <1>2, <2>2
<1>4. ASSUME NEW j \in 1 .. n
      PROVE  Cardinality(before(j)) = n - j
  <2>1. before(j) = j + 1 .. n
    <3> HIDE DEF seq, parts, n
    <3>1. \A m \in 1 .. n : seq(m) < seq(j) \/ (seq(m) = seq(j) /\ m < j) <=> m > j
      BY <1>1, <1>3
    <3>2. before(j) = { m \in 1 .. n : m > j }
      BY <1>2, <3>1
    <3> HIDE DEF before
    <3> QED
      BY <1>1, <3>2
  <2>2. Cardinality(j + 1 .. n) = n - j
    <3>1. j + 1 \in Int /\ n \in Int
      BY <1>1
    <3>2. Cardinality(j + 1 .. n) = IF j + 1 > n THEN 0 ELSE n - (j + 1) + 1
      BY <3>1, FS_Interval
    <3> QED
      BY <1>1, <3>2
  <2> QED
    BY <2>1, <2>2
<1>5. at = n - k + 1
  <2>1. n - k + 1 \in 1 .. n /\ \A j \in 1 .. n : n - j = k - 1 <=> j = n - k + 1
    BY <1>1
  <2> HIDE DEF before, n
  <2>2. \A j \in DOMAIN parts : Cardinality(before(j)) = k - 1 <=> j = n - k + 1
    BY <1>2, <1>4, <2>1
  <2>3. n - k + 1 \in DOMAIN parts
    BY <1>2, <2>1
  <2> QED
    BY <2>2, <2>3
<1>6. SeqOrder(parts)[k] = parts[at]
  <2>1. SeqOrder(parts) = [m \in DOMAIN parts |->
          parts[CHOOSE j \in DOMAIN parts : Cardinality(before(j)) = m - 1]]
    BY DEF SeqOrder
  <2>2. k \in DOMAIN parts
    BY <1>1, <1>2
  <2> HIDE DEF parts, before
  <2> QED
    BY <2>1, <2>2
<1> HIDE DEF at
<1>7. n - k + 1 \in 1 .. n /\ s + (n - k + 1) - 1 = i - k
  BY <1>1
<1> QED
  BY <1>2, <1>5, <1>6, <1>7

\* A long name written as VFAT writes it comes back whole and in order
\* (dirent.rs, reassemble_long).
THEOREM NamesComeBack == Spec => []WrittenNameIsRead
<1>1. ASSUME IInv
      PROVE  WrittenNameIsRead
  <2> SUFFICES ASSUME NEW k \in 1 .. Len(out), NEW s \in 0 .. out[k].slot,
                      ~out[k].deleted, IsNameOf(s, out[k].slot)
               PROVE  out[k].long =
                        FlattenSeq([n \in 1 .. out[k].slot - s |->
                                      lfn_text(slot(out[k].slot - n).units)])
    BY DEF WrittenNameIsRead
  <2> DEFINE i == out[k].slot
  <2>1. /\ dir \in Seq(Slot) /\ i \in Nat /\ i \in 0 .. Len(dir) - 1
    <3>1. out[k] \in Entry
      BY <1>1 DEF IInv, TypeOK
    <3>2. i < idx /\ idx \in 0 .. Len(dir)
      BY <1>1 DEF IInv, TypeOK, Passed
    <3> QED
      BY <1>1, <3>1, <3>2, SMTT(60) DEF IInv, TypeOK, Entry
  <2>2. out[k].long = NameOfRun(s, out[k])
    BY <1>1 DEF IInv, NamedByItsRun, IsNameOf
  <2> HIDE DEF i
  <2>3. IsNameOf(s, i) /\ s \in 0 .. i /\ s < i
    BY DEF i, IsNameOf
  <2>4. /\ slot(i - 1).sum = slot(i).sum /\ slot(i).sum # NoSum
        /\ Run(s, i) # <<>> /\ DOMAIN Run(s, i) = 1 .. i - s
    <3>1. i - 1 \in s .. i - 1
      BY <2>1, <2>3
    <3>2. slot(i).sum \in Nat
      BY <2>1, SlotType
    <3>3. 1 \in DOMAIN Run(s, i)
      BY <2>1, <2>3 DEF Run
    <3> QED
      BY <2>3, <3>1, <3>2, <3>3 DEF IsNameOf, NoSum, Run
  <2>5. NameOfRun(s, out[k]) =
          FlattenSeq([n \in 1 .. i - s |-> lfn_text(slot(SeqOrder(Run(s, i))[n]).units)])
    BY <2>3, <2>4 DEF NameOfRun, reassemble_long, i
  <2>6. \A n \in 1 .. i - s : SeqOrder(Run(s, i))[n] = i - n
    BY <2>1, <2>3, WrittenOrder
  <2>7. [n \in 1 .. i - s |-> lfn_text(slot(SeqOrder(Run(s, i))[n]).units)]
          = [n \in 1 .. i - s |-> lfn_text(slot(i - n).units)]
    BY <2>6
  <2> QED
    BY <2>2, <2>5, <2>7 DEF i
<1> QED
  BY <1>1, IInvAlways, PTL
=============================================================================

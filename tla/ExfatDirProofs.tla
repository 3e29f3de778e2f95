--------------------------- MODULE ExfatDirProofs ---------------------------
(***************************************************************************)
(* Any directory, with whatever secondary counts: entry sets never share a *)
(* slot, none is passed over, and a set written as exFAT writes it is read *)
(* with its own extent and name.                                           *)
(*                                                                         *)
(* The argument: the scan stands behind the last slot of every set listed  *)
(* (Behind), so the next set begins there or later; and every File slot    *)
(* and every end marker behind the scan is in a set that was listed        *)
(* (Covered).                                                              *)
(***************************************************************************)
EXTENDS ExfatDir, FoldLemmas, SequenceTheorems

\* The scan has left every set that was listed, and stops only at an end
\* marker or past the last slot.
Behind ==
  /\ \A e \in 1 .. Len(out) : LastSlot(out[e].slot) < i
  /\ pc = "done" /\ i < Len(dir) => slot(i).type = "end"

\* No File slot and no end marker behind the scan was passed over.
Covered ==
  \A k \in 0 .. LesserOf(i, Len(dir)) - 1 :
    slot(k).type \in {"end", "file"} =>
      \E e \in 1 .. Len(out) : k \in out[e].slot .. LastSlot(out[e].slot)

\* What WrittenSetIsRead says of one entry.
SetIsRead(entry) ==
  IsSet(entry.slot) =>
    LET k == entry.slot
        stream == slot(k + 1)
        units == NameUnits * (slot(k).secondary_count - 1)
    IN  /\ entry.first_cluster = stream.first_cluster
        /\ entry.size = stream.size
        /\ entry.contiguous = stream.contiguous
        /\ Len(entry.name) = LesserOf(stream.name_len, units)
        /\ \A n \in 0 .. Len(entry.name) - 1 :
             entry.name[n + 1] =
               slot(k + 2 + (n \div NameUnits)).units[(n % NameUnits) + 1]

IInv == TypeOK /\ SetsAreDisjoint /\ Behind /\ Covered /\ WrittenSetIsRead

-----------------------------------------------------------------------------
\* Arithmetic of blocks of one size.
LEMMA Blocks ==
  ASSUME NEW b \in Nat, NEW x \in Nat
  PROVE  /\ b * x \in Nat
         /\ b * (x + 1) = b * x + b
         /\ \A y \in Nat : x <= y => b * x <= b * y
OBVIOUS

\* Sequences of one length laid one after the other, the first one empty.
LEMMA FlattenBlocks ==
  ASSUME NEW V, NEW size \in Nat, NEW seqs \in Seq(Seq(V)), Len(seqs) >= 1,
         seqs[1] = <<>>, \A j \in 2 .. Len(seqs) : Len(seqs[j]) = size
  PROVE  /\ Len(FlattenSeq(seqs)) = size * (Len(seqs) - 1)
         /\ \A a \in 0 .. Len(seqs) - 2 : \A b \in 0 .. size - 1 :
              FlattenSeq(seqs)[size * a + b + 1] = seqs[a + 2][b + 1]
<1> DEFINE m == Len(seqs)
<1>1. m \in Nat /\ m >= 1 /\ \A j \in 1 .. m : seqs[j] \in Seq(V)
  OBVIOUS
<1>2. PICK g : Flattens(g, seqs, V)
  BY FlattensExists
<1>3. /\ \A j \in 0 .. m : g[j] \in Seq(V)
      /\ g[0] = <<>>
      /\ \A j \in 1 .. m : g[j] = g[j - 1] \o seqs[j]
  BY <1>2 DEF Flattens
<1> HIDE DEF m
<1> DEFINE Laid(x) ==
             /\ Len(g[x + 1]) = size * x
             /\ \A a \in 0 .. x - 1 : \A b \in 0 .. size - 1 :
                  g[x + 1][size * a + b + 1] = seqs[a + 2][b + 1]
           T == { x \in Nat : x < m => Laid(x) }
<1>4. 0 \in T
  <2>1. g[1] = <<>>
    <3>1. 1 \in 1 .. m /\ 1 - 1 = 0
      BY <1>1
    <3>2. g[1] = <<>> \o seqs[1]
      BY <1>3, <3>1
    <3> QED
      BY <3>2
  <2>2. Len(g[0 + 1]) = size * 0
    BY <2>1
  <2>3. \A a \in 0 .. 0 - 1 : FALSE
    OBVIOUS
  <2> QED
    BY <2>2, <2>3
<1>5. ASSUME NEW x \in Nat, x \in T
      PROVE  x + 1 \in T
  <2> SUFFICES ASSUME x + 1 < m
               PROVE  Laid(x + 1)
    OBVIOUS
  <2>1. Laid(x)
    BY <1>1, <1>5
  <2> HIDE DEF T
  <2> DEFINE u == g[x + 1]
             v == seqs[x + 2]
  <2>2. u \in Seq(V) /\ v \in Seq(V) /\ Len(v) = size /\ g[x + 2] = u \o v
    <3>1. x + 2 \in 1 .. m /\ x + 2 \in 2 .. m /\ x + 1 \in 0 .. m /\ (x + 2) - 1 = x + 1
      BY <1>1
    <3> QED
      BY <1>1, <1>3, <3>1 DEF m
  <2>3. /\ size * x \in Nat /\ size * (x + 1) = size * x + size
        /\ Len(u) = size * x
    BY <2>1, Blocks
  <2> HIDE DEF u, v
  <2>4. Len(u \o v) = size * (x + 1)
    BY <2>2, <2>3, ConcatProperties
  <2>5. ASSUME NEW a \in 0 .. x, NEW b \in 0 .. size - 1
        PROVE  (u \o v)[size * a + b + 1] = seqs[a + 2][b + 1]
    <3>1. size * a \in Nat /\ size * (a + 1) = size * a + size
      BY Blocks
    <3>2. CASE a = x
      <4>1. size * a + b + 1 = Len(u) + (b + 1) /\ b + 1 \in 1 .. Len(v)
        BY <2>2, <2>3, <3>1, <3>2
      <4>2. (u \o v)[Len(u) + (b + 1)] = v[b + 1]
        <5> DEFINE y == b + 1
        <5>1. y \in 1 .. Len(v)
          BY <4>1
        <5> HIDE DEF y
        <5>2. \A j \in 1 .. Len(u) + Len(v) :
                (u \o v)[j] = IF j <= Len(u) THEN u[j] ELSE v[j - Len(u)]
          BY <2>2, ConcatProperties
        <5>3. /\ Len(u) + y \in 1 .. Len(u) + Len(v)
              /\ ~(Len(u) + y <= Len(u))
              /\ (Len(u) + y) - Len(u) = y
          BY <2>2, <2>3, <5>1
        <5> QED
          BY <5>2, <5>3 DEF y
      <4> QED
        BY <3>2, <4>1, <4>2 DEF v
    <3>3. CASE a < x
      <4>1. size * (a + 1) <= size * x
        BY <3>3, Blocks, a + 1 \in Nat, a + 1 <= x
      <4>2. size * a + b + 1 \in 1 .. Len(u)
        BY <2>3, <3>1, <4>1, SMTT(60)
      <4>3. (u \o v)[size * a + b + 1] = u[size * a + b + 1]
        BY <2>2, <4>2
      <4>4. u[size * a + b + 1] = seqs[a + 2][b + 1]
        BY <2>1, <3>3 DEF u
      <4> QED
        BY <4>3, <4>4
    <3>4. a = x \/ a < x
      OBVIOUS
    <3> QED
      BY <3>2, <3>3, <3>4
  <2>6. (x + 1) + 1 = x + 2 /\ (x + 1) - 1 = x
    OBVIOUS
  <2> QED
    BY <2>2, <2>4, <2>5, <2>6, ZenonT(30)
<1>6. Laid(m - 1)
  <2>1. Nat \subseteq T
    <3> HIDE DEF T
    <3> QED
      BY <1>4, <1>5, NatInduct
  <2> HIDE DEF Laid
  <2>2. m - 1 \in Nat /\ m - 1 < m
    BY <1>1
  <2>3. m - 1 \in T
    BY <2>1, <2>2
  <2> QED
    BY <2>2, <2>3
<1>7. FlattenSeq(seqs) = g[m]
  BY <1>2, FlattenChain DEF m
<1>8. (m - 1) + 1 = m /\ (m - 1) - 1 = m - 2
  BY <1>1
<1> QED
  BY <1>6, <1>7, <1>8 DEF m

-----------------------------------------------------------------------------
LEMMA SlotType ==
  ASSUME dir \in Seq(Slot), NEW k \in 0 .. Len(dir) - 1
  PROVE  /\ slot(k) \in Slot
         /\ slot(k).secondary_count \in Nat /\ slot(k).units \in Seq(Nat)
         /\ Len(slot(k).units) = NameUnits
<1>1. k + 1 \in 1 .. Len(dir)
  OBVIOUS
<1>2. slot(k) \in Slot
  BY <1>1 DEF slot
<1>3. slot(k).secondary_count \in Nat /\ slot(k).units \in [1 .. NameUnits -> Nat]
  BY <1>2 DEF Slot
<1>4. NameUnits \in Nat
  BY BoundsAssumption
<1> QED
  BY <1>2, <1>3, <1>4, SMTT(60)

\* The slots of a set that the directory has.
LEMMA SecondariesType ==
  ASSUME dir \in Seq(Slot), NEW k \in 0 .. Len(dir) - 1
  PROVE  \E n \in 0 .. slot(k).secondary_count :
           /\ Secondaries(k) = [j \in 1 .. n |-> k + j]
           /\ n = LesserOf(slot(k).secondary_count, Len(dir) - 1 - k)
           /\ \A j \in 1 .. n : k + j \in 0 .. Len(dir) - 1
<1> DEFINE n == LesserOf(slot(k).secondary_count, Len(dir) - 1 - k)
<1>1. slot(k).secondary_count \in Nat /\ Len(dir) - 1 - k \in Nat
  BY SlotType
<1>2. /\ n \in 0 .. slot(k).secondary_count
      /\ \A j \in 1 .. n : k + j \in 0 .. Len(dir) - 1
  BY <1>1 DEF LesserOf
<1>3. Secondaries(k) = [j \in 1 .. n |-> k + j]
  BY DEF Secondaries
<1> HIDE DEF n
<1> QED
  BY <1>2, <1>3 DEF n

\* A set is decoded to an entry, whatever its slots are (exfat.rs, decode_set).
LEMMA DecodeType ==
  ASSUME dir \in Seq(Slot), NEW k \in 0 .. Len(dir) - 1
  PROVE  decode_set(k) \in Entry /\ decode_set(k).slot = k
<1>1. PICK n \in 0 .. slot(k).secondary_count :
        /\ Secondaries(k) = [j \in 1 .. n |-> k + j]
        /\ \A j \in 1 .. n : k + j \in 0 .. Len(dir) - 1
  BY SecondariesType
<1> DEFINE slots == Secondaries(k)
           of(type) == { j \in DOMAIN slots : slot(slots[j]).type = type }
           stream == IF of("stream") = {} THEN NoStream ELSE slot(slots[Max(of("stream"))])
           pieces == [j \in DOMAIN slots |-> IF j \in of("name") THEN slot(slots[j]).units ELSE <<>>]
           units == FlattenSeq(pieces)
           name == SubSeq(units, 1, LesserOf(stream.name_len, Len(units)))
<1>2. n \in Nat /\ DOMAIN slots = 1 .. n /\ \A j \in 1 .. n : slots[j] = k + j
  BY <1>1, SlotType
<1>3. \A j \in 1 .. n : slot(slots[j]) \in Slot /\ slot(slots[j]).units \in Seq(Nat)
  BY <1>1, <1>2, SlotType
<1> HIDE DEF slots
<1>4. /\ stream.contiguous \in BOOLEAN /\ stream.name_len \in Nat
      /\ stream.first_cluster \in Nat /\ stream.size \in Nat
  <2>1. CASE of("stream") = {}
    BY <2>1 DEF NoStream
  <2>2. CASE of("stream") # {}
    <3>1. of("stream") \in SUBSET (1 .. n)
      BY <1>2
    <3>2. Max(of("stream")) \in 1 .. n
      <4> HIDE DEF of
      <4> QED
        BY <1>2, <2>2, <3>1, MaxIsGreatest
    <3>3. slot(slots[Max(of("stream"))]) \in Slot
      <4> HIDE DEF of
      <4> QED
        BY <1>3, <3>2
    <3> HIDE DEF of
    <3> QED
      BY <2>2, <3>3 DEF Slot
  <2> QED
    BY <2>1, <2>2
<1>5. pieces \in Seq(Seq(Nat))
  <2>1. pieces \in [1 .. n -> Seq(Nat)]
    <3> HIDE DEF of
    <3> QED
      BY <1>2, <1>3
  <2> HIDE DEF pieces
  <2> QED
    BY <1>2, <2>1
<1>6. units \in Seq(Nat)
  <2> HIDE DEF pieces
  <2> QED
    BY <1>5, FlattenIsSeq
<1> HIDE DEF units, stream
<1>7. name \in Seq(Nat)
  BY <1>4, <1>6, SubSeqProperties DEF LesserOf
<1>8. slot(k).deleted \in BOOLEAN /\ slot(k).is_dir \in BOOLEAN
  BY SlotType DEF Slot
<1>9. LesserOf(k, MaxIndex) \in Nat
  BY BoundsAssumption DEF LesserOf
<1>10. decode_set(k) =
         [index |-> LesserOf(k, MaxIndex), slot |-> k, name |-> name,
          is_dir |-> slot(k).is_dir, deleted |-> slot(k).deleted,
          first_cluster |-> stream.first_cluster, size |-> stream.size,
          contiguous |-> stream.contiguous]
  BY DEF decode_set, slots, stream, units
<1> HIDE DEF name
<1> QED
  BY <1>4, <1>7, <1>8, <1>9, <1>10 DEF Entry

\* What a unit of a name is, when File Name slots alone follow the Stream
\* Extension: the set's own extent, and the slots' units in their order.
LEMMA SetDecoded ==
  ASSUME dir \in Seq(Slot), NEW k \in 0 .. Len(dir) - 1, IsSet(k)
  PROVE  SetIsRead(decode_set(k))
<1> DEFINE n == slot(k).secondary_count
           slots == Secondaries(k)
           of(type) == { j \in DOMAIN slots : slot(slots[j]).type = type }
           stream == IF of("stream") = {} THEN NoStream ELSE slot(slots[Max(of("stream"))])
           pieces == [j \in DOMAIN slots |-> IF j \in of("name") THEN slot(slots[j]).units ELSE <<>>]
           units == FlattenSeq(pieces)
           name == SubSeq(units, 1, LesserOf(stream.name_len, Len(units)))
<1>1. /\ n \in Nat /\ n >= 1 /\ k + n < Len(dir) /\ k \in Nat /\ Len(dir) \in Nat
      /\ slot(k + 1).type = "stream"
      /\ \A j \in k + 2 .. k + n : slot(j).type = "name"
  BY SlotType DEF IsSet, LastSlot
<1>2. DOMAIN slots = 1 .. n /\ \A j \in 1 .. n : slots[j] = k + j
  BY <1>1 DEF Secondaries, LesserOf
<1>3. \A j \in 1 .. n : /\ slot(slots[j]).units \in Seq(Nat)
                        /\ Len(slot(slots[j]).units) = NameUnits
  BY <1>1, <1>2, SlotType
<1> HIDE DEF slots, n
<1>4. of("stream") = {1} /\ of("name") = 2 .. n
  <2>1. \A j \in 2 .. n : k + j \in k + 2 .. k + n
    BY <1>1
  <2>2. \A j \in 1 .. n : slot(slots[j]).type = IF j = 1 THEN "stream" ELSE "name"
    BY <1>1, <1>2, <2>1
  <2> QED
    BY <1>1, <1>2, <2>2
<1>5. stream = slot(k + 1)
  <2>1. Max({1}) = 1
    <3>1. {1} \in SUBSET (1 .. 1) /\ {1} # {} /\ 1 \in Nat
      OBVIOUS
    <3>2. Max({1}) \in {1}
      BY <3>1, MaxIsGreatest
    <3> QED
      BY <3>2
  <2> HIDE DEF of
  <2>2. stream = slot(slots[1])
    BY <1>4, <2>1
  <2> QED
    BY <1>1, <1>2, <2>2
<1>6. /\ pieces \in Seq(Seq(Nat)) /\ Len(pieces) = n /\ pieces[1] = <<>>
      /\ \A j \in 2 .. n : /\ pieces[j] = slot(k + j).units
                           /\ Len(pieces[j]) = NameUnits
  <2> HIDE DEF of
  <2>1. \A j \in 1 .. n : pieces[j] = IF j \in 2 .. n THEN slot(slots[j]).units ELSE <<>>
    BY <1>2, <1>4
  <2>2. DOMAIN pieces = 1 .. n
    BY <1>2
  <2>3. pieces \in [1 .. n -> Seq(Nat)]
    BY <1>2, <1>3, <1>4
  <2> HIDE DEF pieces
  <2> QED
    BY <1>1, <1>2, <1>3, <2>1, <2>2, <2>3, SMTT(60)
<1>7. /\ units \in Seq(Nat) /\ Len(units) = NameUnits * (n - 1)
      /\ \A a \in 0 .. n - 2 : \A b \in 0 .. NameUnits - 1 :
           units[NameUnits * a + b + 1] = slot(k + 2 + a).units[b + 1]
  <2> HIDE DEF pieces
  <2>1. units \in Seq(Nat)
    BY <1>6, FlattenIsSeq
  <2>2. /\ Len(units) = NameUnits * (n - 1)
        /\ \A a \in 0 .. n - 2 : \A b \in 0 .. NameUnits - 1 :
             units[NameUnits * a + b + 1] = pieces[a + 2][b + 1]
    <3>1. /\ pieces \in Seq(Seq(Nat)) /\ Len(pieces) >= 1 /\ pieces[1] = <<>>
          /\ \A j \in 2 .. Len(pieces) : Len(pieces[j]) = NameUnits
          /\ NameUnits \in Nat
      BY <1>1, <1>6, BoundsAssumption
    <3>2. /\ Len(FlattenSeq(pieces)) = NameUnits * (Len(pieces) - 1)
          /\ \A a \in 0 .. Len(pieces) - 2 : \A b \in 0 .. NameUnits - 1 :
               FlattenSeq(pieces)[NameUnits * a + b + 1] = pieces[a + 2][b + 1]
      BY <3>1, FlattenBlocks
    <3> QED
      BY <1>6, <3>2
  <2> HIDE DEF units
  <2>3. \A a \in 0 .. n - 2 : a + 2 \in 2 .. n /\ k + (a + 2) = k + 2 + a
    BY <1>1
  <2>4. \A a \in 0 .. n - 2 : pieces[a + 2] = slot(k + 2 + a).units
    BY <1>6, <2>3
  <2> QED
    BY <2>1, <2>2, <2>4
<1>8. slot(k + 1).name_len \in Nat
  <2>1. k + 1 \in 0 .. Len(dir) - 1
    BY <1>1
  <2> QED
    BY <2>1, SlotType DEF Slot
<1>9. decode_set(k) =
        [index |-> LesserOf(k, MaxIndex), slot |-> k, name |-> name,
         is_dir |-> slot(k).is_dir, deleted |-> slot(k).deleted,
         first_cluster |-> stream.first_cluster, size |-> stream.size,
         contiguous |-> stream.contiguous]
  BY DEF decode_set, slots
<1> HIDE DEF units, stream
<1>10. /\ Len(name) = LesserOf(slot(k + 1).name_len, NameUnits * (n - 1))
       /\ Len(name) \in 0 .. Len(units)
       /\ \A x \in 1 .. Len(name) : name[x] = units[x]
  BY <1>5, <1>7, <1>8, SubSeqProperties DEF LesserOf
<1> HIDE DEF name
<1>11. ASSUME NEW x \in 0 .. Len(name) - 1
       PROVE  name[x + 1] = slot(k + 2 + (x \div NameUnits)).units[(x % NameUnits) + 1]
  <2> DEFINE a == x \div NameUnits
             b == x % NameUnits
  <2>1. x \in Nat /\ x < NameUnits * (n - 1) /\ NameUnits \in Nat \ {0}
    BY <1>7, <1>10, BoundsAssumption
  <2>2. a \in Nat /\ b \in 0 .. NameUnits - 1 /\ x = NameUnits * a + b
    BY <2>1
  <2> HIDE DEF a, b
  <2>3. a < n - 1
    <3>1. n - 1 <= a => NameUnits * (n - 1) <= NameUnits * a
      BY <1>1, <2>1, <2>2, Blocks, n - 1 \in Nat
    <3>2. NameUnits * a \in Nat /\ NameUnits * (n - 1) \in Nat
      BY <1>1, <2>1, <2>2, Blocks, n - 1 \in Nat
    <3> QED
      BY <1>1, <2>1, <2>2, <3>1, <3>2
  <2>4. units[NameUnits * a + b + 1] = slot(k + 2 + a).units[b + 1]
    BY <1>1, <1>7, <2>2, <2>3
  <2>5. name[x + 1] = units[x + 1]
    BY <1>7, <1>10, <2>1, SMTT(60)
  <2> QED
    BY <2>2, <2>4, <2>5 DEF a, b
<1> QED
  BY <1>5, <1>9, <1>10, <1>11 DEF SetIsRead, n

-----------------------------------------------------------------------------
LEMMA SameSlots ==
  ASSUME dir' = dir
  PROVE  \A k, f : /\ (slot(k)') = slot(k)
                   /\ (LastSlot(k)') = LastSlot(k)
                   /\ SetIsRead(f)' <=> SetIsRead(f)
BY DEF slot, LastSlot, SetIsRead, IsSet

LEMMA InitIInv == Init => IInv
BY DirsAssumption
   DEF Init, IInv, TypeOK, SetsAreDisjoint, Behind, Covered, WrittenSetIsRead, LesserOf

\* A set is listed and the scan goes on behind its last slot.
LEMMA SetKeepsIInv == ASSUME IInv, FileSet PROVE IInv'
<1> DEFINE e == decode_set(i)
           n == Len(out)
<1>1. /\ dir \in Seq(Slot) /\ i \in Nat /\ i \in 0 .. Len(dir) - 1 /\ Len(dir) \in Nat
      /\ out \in Seq(Entry) /\ n \in Nat /\ pc = "scan"
      /\ dir' = dir /\ pc' = pc /\ out' = Append(out, e)
      /\ i' = i + 1 + slot(i).secondary_count /\ slot(i).type = "file"
  BY DEF IInv, TypeOK, FileSet
<1>2. e \in Entry /\ e.slot = i /\ slot(i).secondary_count \in Nat
  BY <1>1, DecodeType, SlotType
<1> HIDE DEF e
<1>3. /\ Len(out') = n + 1 /\ out'[n + 1] = e /\ out' \in Seq(Entry)
      /\ \A j \in 1 .. n : out'[j] = out[j]
  BY <1>1, <1>2
<1>4. \A j \in 1 .. n + 1 : j = n + 1 \/ j \in 1 .. n
  BY <1>1
<1>5. LastSlot(i) = i' - 1 /\ i' > i /\ i' \in Nat /\ LastSlot(i) \in Nat
  <2>1. PICK c \in Nat : c = slot(i).secondary_count
    BY <1>2
  <2>2. i' = i + 1 + c /\ LastSlot(i) = i + c
    BY <1>1, <2>1 DEF LastSlot
  <2> QED
    BY <1>1, <2>2
<1>6. \A j \in 1 .. n : /\ out[j].slot \in Nat /\ out[j].slot < i
                        /\ LastSlot(out[j].slot) < i
                        /\ LastSlot(out[j].slot) \in Int
  <2>1. \A j \in 1 .. n : out[j] \in Entry
    BY <1>1
  <2>2. ASSUME NEW j \in 1 .. n
        PROVE  /\ out[j].slot \in Nat /\ out[j].slot < i /\ out[j].slot < Len(dir)
               /\ LastSlot(out[j].slot) < i
    <3>1. out[j].slot \in Nat /\ out[j].slot < LesserOf(i, Len(dir))
      BY <2>1 DEF IInv, TypeOK, Entry, n
    <3>2. LastSlot(out[j].slot) < i
      BY DEF IInv, Behind, n
    <3> QED
      BY <1>1, <3>1, <3>2 DEF LesserOf
  <2>3. \A j \in 1 .. n : slot(out[j].slot).secondary_count \in Nat
    BY <1>1, <2>2, SlotType
  <2> QED
    BY <2>2, <2>3 DEF LastSlot
<1>7. \A k, f : /\ (slot(k)') = slot(k)
                /\ (LastSlot(k)') = LastSlot(k)
                /\ SetIsRead(f)' <=> SetIsRead(f)
  BY <1>1, SameSlots
<1> HIDE DEF n
<1>8. \A j \in 1 .. n + 1 : /\ out'[j].slot \in Nat
                            /\ out'[j].slot < i'
                            /\ out'[j].slot < Len(dir)
                            /\ LastSlot(out'[j].slot) < i'
  <2>1. ASSUME NEW j \in 1 .. n
        PROVE  /\ out'[j].slot \in Nat /\ out'[j].slot < i'
               /\ out'[j].slot < Len(dir) /\ LastSlot(out'[j].slot) < i'
    <3>1. out'[j] = out[j]
      BY <1>3
    <3>2. /\ out[j].slot \in Nat /\ out[j].slot < i
          /\ LastSlot(out[j].slot) < i /\ LastSlot(out[j].slot) \in Int
      BY <1>6
    <3> QED
      BY <1>1, <1>5, <3>1, <3>2, SMTT(60)
  <2>2. /\ out'[n + 1].slot \in Nat /\ out'[n + 1].slot < i'
        /\ out'[n + 1].slot < Len(dir) /\ LastSlot(out'[n + 1].slot) < i'
    BY <1>1, <1>2, <1>3, <1>5, SMTT(60)
  <2> QED
    BY <1>4, <2>1, <2>2
<1>9. TypeOK'
  <2>1. i' \in Nat
    BY <1>1, <1>2
  <2> QED
    BY <1>1, <1>3, <1>8, <2>1 DEF IInv, TypeOK, LesserOf
<1>10. SetsAreDisjoint'
  <2>1. ASSUME NEW j \in 1 .. n + 1, NEW k \in 1 .. n + 1, j < k
        PROVE  LastSlot(out'[j].slot) < out'[k].slot
    <3>1. CASE k = n + 1
      BY <1>1, <1>2, <1>3, <1>6, <2>1, <3>1
    <3>2. CASE k \in 1 .. n
      BY <1>1, <1>3, <2>1, <3>2 DEF IInv, SetsAreDisjoint, n
    <3> QED
      BY <1>4, <3>1, <3>2
  <2> QED
    BY <1>3, <1>7, <2>1 DEF SetsAreDisjoint
<1>11. Behind'
  BY <1>1, <1>3, <1>7, <1>8 DEF Behind
<1>12. Covered'
  <2>1. ASSUME NEW k \in 0 .. LesserOf(i', Len(dir)) - 1,
               slot(k).type \in {"end", "file"}
        PROVE  \E j \in 1 .. n + 1 : k \in out'[j].slot .. LastSlot(out'[j].slot)
    <3>1. CASE k < i
      <4>1. k \in 0 .. LesserOf(i, Len(dir)) - 1
        BY <1>1, <3>1 DEF LesserOf
      <4>2. PICK j \in 1 .. n : k \in out[j].slot .. LastSlot(out[j].slot)
        BY <2>1, <4>1 DEF IInv, Covered, n
      <4> QED
        BY <1>1, <1>3, <4>2
    <3>2. CASE k >= i
      <4>1. k \in i .. LastSlot(i)
        BY <1>1, <1>2, <1>5, <3>2 DEF LesserOf
      <4> QED
        BY <1>1, <1>2, <1>3, <4>1
    <3>3. k < i \/ k >= i
      BY <1>1, <1>5 DEF LesserOf
    <3> QED
      BY <3>1, <3>2, <3>3
  <2> QED
    BY <1>1, <1>3, <1>7, <2>1 DEF Covered
<1>13. WrittenSetIsRead'
  <2>1. SetIsRead(e)
    <3>1. CASE IsSet(i)
      BY <1>1, <3>1, SetDecoded DEF e
    <3>2. CASE ~IsSet(i)
      BY <1>2, <3>2 DEF SetIsRead
    <3> QED
      BY <3>1, <3>2
  <2>2. \A j \in 1 .. n : SetIsRead(out[j])
    BY DEF IInv, WrittenSetIsRead, SetIsRead, n
  <2>3. \A j \in 1 .. n + 1 : SetIsRead(out'[j])
    BY <1>3, <1>4, <2>1, <2>2
  <2>4. \A j \in 1 .. Len(out') : SetIsRead(out[j])'
    BY <1>3, <1>7, <2>3
  <2> QED
    BY <2>4 DEF WrittenSetIsRead, SetIsRead
<1> QED
  BY <1>9, <1>10, <1>11, <1>12, <1>13 DEF IInv

LEMMA StepKeepsIInv == IInv /\ [Next]_vars => IInv'
<1> SUFFICES ASSUME IInv, [Next]_vars PROVE IInv'
  OBVIOUS
<1>1. CASE FileSet
  BY <1>1, SetKeepsIInv
<1>2. ASSUME dir' = dir, out' = out, i' \in {i, i + 1}, pc' \in {"scan", "done"},
             i' = i + 1 => pc' = "scan" /\ i < Len(dir) /\ slot(i).type \notin {"end", "file"},
             i' = i => pc' = pc \/ (i < Len(dir) => slot(i).type = "end")
      PROVE  IInv'
  <2>1. /\ dir \in Seq(Slot) /\ i \in Nat /\ Len(dir) \in Nat /\ out \in Seq(Entry)
        /\ \A k \in 1 .. Len(out) : out[k].slot < LesserOf(i, Len(dir))
    BY DEF IInv, TypeOK
  <2>2. \A k, f : /\ (slot(k)') = slot(k)
                  /\ (LastSlot(k)') = LastSlot(k)
                  /\ SetIsRead(f)' <=> SetIsRead(f)
    BY <1>2, SameSlots
  <2>3. \A k \in 1 .. Len(out) : /\ out[k].slot \in Nat
                                 /\ LastSlot(out[k].slot) \in Int
                                 /\ LastSlot(out[k].slot) < i
    <3>1. \A k \in 1 .. Len(out) : out[k].slot \in Nat
      <4>1. \A k \in 1 .. Len(out) : out[k] \in Entry
        BY <2>1
      <4> QED
        BY <4>1 DEF Entry
    <3>2. \A k \in 1 .. Len(out) : out[k].slot \in 0 .. Len(dir) - 1
      BY <2>1, <3>1 DEF LesserOf
    <3>3. \A k \in 1 .. Len(out) : slot(out[k].slot).secondary_count \in Nat
      BY <2>1, <3>2, SlotType
    <3>4. \A k \in 1 .. Len(out) : LastSlot(out[k].slot) \in Int
      BY <3>1, <3>3 DEF LastSlot
    <3> QED
      BY <3>1, <3>4 DEF IInv, Behind
  <2>4. TypeOK'
    <3>1. \A k \in 1 .. Len(out) : out[k].slot < LesserOf(i', Len(dir))
      BY <1>2, <2>1, <2>3 DEF LesserOf
    <3> QED
      BY <1>2, <2>1, <3>1 DEF IInv, TypeOK
  <2>5. SetsAreDisjoint'
    BY <1>2, <2>2 DEF IInv, SetsAreDisjoint
  <2>6. Behind'
    <3>1. \A k \in 1 .. Len(out) : LastSlot(out[k].slot) < i'
      BY <1>2, <2>1, <2>3
    <3>2. pc' = "done" /\ i' < Len(dir) => slot(i').type = "end"
      BY <1>2, <2>1 DEF IInv, Behind
    <3> QED
      BY <1>2, <2>2, <3>1, <3>2 DEF Behind
  <2>7. Covered'
    <3>1. ASSUME NEW k \in 0 .. LesserOf(i', Len(dir)) - 1,
                 slot(k).type \in {"end", "file"}
          PROVE  k \in 0 .. LesserOf(i, Len(dir)) - 1
      BY <1>2, <2>1, <3>1 DEF LesserOf
    <3> QED
      BY <1>2, <2>2, <3>1 DEF IInv, Covered
  <2>8. WrittenSetIsRead'
    <3>1. \A k \in 1 .. Len(out) : SetIsRead(out[k])
      BY DEF IInv, WrittenSetIsRead, SetIsRead
    <3>2. \A k \in 1 .. Len(out') : SetIsRead(out[k])'
      BY <1>2, <2>2, <3>1
    <3> QED
      BY <3>2 DEF WrittenSetIsRead, SetIsRead
  <2> QED
    BY <2>4, <2>5, <2>6, <2>7, <2>8 DEF IInv
<1>3. i \in Nat /\ pc \in {"scan", "done"} /\ i # i + 1
  BY DEF IInv, TypeOK
<1>4. CASE End
  BY <1>2, <1>3, <1>4 DEF End
<1>5. CASE OtherSlot
  BY <1>2, <1>3, <1>5 DEF OtherSlot
<1>6. CASE UNCHANGED vars
  BY <1>2, <1>3, <1>6 DEF vars
<1> QED
  BY <1>1, <1>4, <1>5, <1>6 DEF Next

LEMMA IInvAlways == Spec => []IInv
<1>1. Init => IInv
  BY InitIInv
<1>2. IInv /\ [Next]_vars => IInv'
  BY StepKeepsIInv
<1> QED
  BY <1>1, <1>2, PTL DEF Spec

-----------------------------------------------------------------------------
\* Entries are well formed and stand at slots the loop has passed, whatever
\* the directory holds (exfat.rs, parse_directory and decode_set).
THEOREM ScanTypes == Spec => []TypeOK
<1>1. IInv => TypeOK
  BY DEF IInv
<1> QED
  BY <1>1, IInvAlways, PTL

\* No slot is decoded as part of two entry sets (exfat.rs, parse_directory).
THEOREM NoSlotTwice == Spec => []SetsAreDisjoint
<1>1. IInv => SetsAreDisjoint
  BY DEF IInv
<1> QED
  BY <1>1, IInvAlways, PTL

\* Up to the first end marker that no listed set claims, every File slot is
\* listed or claimed, and behind it none is (exfat.rs, parse_directory).
THEOREM NoSetPassedOver == Spec => []ListsEverySet
<1>1. ASSUME IInv
      PROVE  ListsEverySet
  <2> SUFFICES ASSUME pc = "done", NEW k \in 0 .. Len(dir) - 1, slot(k).type = "file"
               PROVE  Claimed(k) <=> \A j \in 0 .. k - 1 : slot(j).type = "end" => Claimed(j)
    BY DEF ListsEverySet
  <2>1. i \in Nat /\ Len(dir) \in Nat
    BY <1>1 DEF IInv, TypeOK
  <2>2. i < Len(dir) => slot(i).type = "end"
    BY <1>1 DEF IInv, Behind
  <2>3. ASSUME NEW e \in 1 .. Len(out)
        PROVE  /\ out[e].slot \in Nat /\ out[e].slot < LesserOf(i, Len(dir))
               /\ LastSlot(out[e].slot) \in Nat /\ LastSlot(out[e].slot) < i
    <3>1. out[e] \in Entry /\ out[e].slot < LesserOf(i, Len(dir)) /\ LastSlot(out[e].slot) < i
      BY <1>1 DEF IInv, TypeOK, Behind
    <3>2. out[e].slot \in Nat
      BY <3>1 DEF Entry
    <3>3. out[e].slot \in 0 .. Len(dir) - 1
      BY <2>1, <3>1, <3>2 DEF LesserOf
    <3>4. slot(out[e].slot).secondary_count \in Nat
      BY <1>1, <3>3, SlotType DEF IInv, TypeOK
    <3> QED
      BY <3>1, <3>2, <3>4 DEF LastSlot
  <2>4. \A j \in 0 .. LesserOf(i, Len(dir)) - 1 : slot(j).type \in {"end", "file"} => Claimed(j)
    BY <1>1 DEF IInv, Covered, Claimed
  <2>5. ASSUME Claimed(k), NEW j \in 0 .. k - 1, slot(j).type = "end"
        PROVE  Claimed(j)
    <3>1. PICK e \in 1 .. Len(out) : k \in out[e].slot .. LastSlot(out[e].slot)
      BY <2>5 DEF Claimed
    <3>2. CASE j < out[e].slot
      <4>1. j \in 0 .. LesserOf(i, Len(dir)) - 1
        BY <2>1, <2>3, <3>2 DEF LesserOf
      <4> QED
        BY <2>4, <2>5, <4>1
    <3>3. CASE j >= out[e].slot
      <4>1. k \in Int /\ j \in Int /\ out[e].slot \in Int
        BY <2>1, <2>3
      <4>2. j \in out[e].slot .. LastSlot(out[e].slot)
        BY <2>3, <3>1, <3>3, <4>1
      <4> QED
        BY <4>2 DEF Claimed
    <3> QED
      BY <2>3, <3>2, <3>3
  <2>6. ASSUME \A j \in 0 .. k - 1 : slot(j).type = "end" => Claimed(j)
        PROVE  Claimed(k)
    <3>1. ~Claimed(i)
      BY <2>1, <2>3 DEF Claimed
    <3>2. k < i
      BY <2>1, <2>2, <2>6, <3>1
    <3>3. k \in 0 .. LesserOf(i, Len(dir)) - 1
      BY <2>1, <3>2 DEF LesserOf
    <3> QED
      BY <2>4, <3>3
  <2> QED
    BY <2>5, <2>6
<1> QED
  BY <1>1, IInvAlways, PTL

\* A set written as exFAT writes it is read with its own extent and its own
\* name (exfat.rs, decode_set).
THEOREM SetsComeBack == Spec => []WrittenSetIsRead
<1>1. IInv => WrittenSetIsRead
  BY DEF IInv
<1> QED
  BY <1>1, IInvAlways, PTL
=============================================================================

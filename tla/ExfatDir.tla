------------------------------ MODULE ExfatDir ------------------------------
(***************************************************************************)
(* parse_directory and decode_set (core/src/exfat.rs): the walk over the   *)
(* 32-byte slots of an exFAT directory.  A File slot opens an entry set    *)
(* and says how many secondary slots follow; the Stream Extension among    *)
(* them says where the data is, the File Name slots spell the name.  The   *)
(* count is the image's word: it may be wrong, and run past the end.       *)
(***************************************************************************)
EXTENDS Integers, SequencesExt

CONSTANTS
  Dirs,         \* the directories, sequences of slots
  MaxIndex,     \* u16::MAX, where slot indices saturate
  NameUnits     \* code units in a File Name slot, 15

\* A slot by its type (the in-use bit left out), "end" for type 0x00, and by
\* what a File, a Stream Extension or a File Name slot holds.
Slot ==
  [type : {"end", "file", "stream", "name", "other"},
   deleted : BOOLEAN, is_dir : BOOLEAN, secondary_count : Nat,
   contiguous : BOOLEAN, name_len : Nat, first_cluster : Nat, size : Nat,
   units : [1 .. NameUnits -> Nat]]

ASSUME DirsAssumption == Dirs \subseteq Seq(Slot)
ASSUME BoundsAssumption == MaxIndex \in Nat /\ NameUnits \in Nat \ {0}

VARIABLES
  dir,          \* the directory: fixed
  i,            \* the loop's `i`; slot i of the code is dir[i + 1]
  out,          \* the entries
  pc

vars == <<dir, i, out, pc>>

slot(k) == dir[k + 1]

LesserOf(a, b) == IF a <= b THEN a ELSE b

\* What a set without a Stream Extension is decoded to.
NoStream == [contiguous |-> FALSE, name_len |-> 0, first_cluster |-> 0, size |-> 0]

\* Mutant: one secondary slot short.
SecondariesShort(k) ==
  [j \in 1 .. LesserOf(slot(k).secondary_count - 1, Len(dir) - 1 - k) |-> k + j]

\* The secondary slots of set k, as far as the directory goes.
Secondaries(k) ==
  [j \in 1 .. LesserOf(slot(k).secondary_count, Len(dir) - 1 - k) |-> k + j]

\* One entry set: the last Stream Extension counts, File Name slots are joined
\* in the order they stand, and name_len cuts the name.
decode_set(k) ==
  LET slots == Secondaries(k)
      of(type) == { j \in DOMAIN slots : slot(slots[j]).type = type }
      stream == IF of("stream") = {} THEN NoStream ELSE slot(slots[Max(of("stream"))])
      units == FlattenSeq([j \in DOMAIN slots |->
                 IF j \in of("name") THEN slot(slots[j]).units ELSE <<>>])
  IN  [index |-> LesserOf(k, MaxIndex),
       slot |-> k,
       name |-> SubSeq(units, 1, LesserOf(stream.name_len, Len(units))),
       is_dir |-> slot(k).is_dir,
       deleted |-> slot(k).deleted,
       first_cluster |-> stream.first_cluster,
       size |-> stream.size,
       contiguous |-> stream.contiguous]

Init ==
  /\ dir \in Dirs
  /\ i = 0
  /\ out = <<>>
  /\ pc = "scan"

\* The slots are used up, or the loop stands on an end marker.
End ==
  /\ pc = "scan"
  /\ i < Len(dir) => slot(i).type = "end"
  /\ pc' = "done"
  /\ UNCHANGED <<dir, i, out>>

\* Mutant: an end marker passed over like any slot that is no File.
OtherSlotOrEnd ==
  /\ pc = "scan" /\ i < Len(dir)
  /\ slot(i).type # "file"
  /\ i' = i + 1
  /\ UNCHANGED <<dir, out, pc>>

\* Allocation bitmap, up-case table, volume label, and stray secondaries.
OtherSlot ==
  /\ pc = "scan" /\ i < Len(dir)
  /\ slot(i).type \notin {"end", "file"}
  /\ i' = i + 1
  /\ UNCHANGED <<dir, out, pc>>

\* Mutant: the secondary slots gone over again.
FileSetStepsOne ==
  /\ pc = "scan" /\ i < Len(dir)
  /\ slot(i).type = "file"
  /\ out' = Append(out, decode_set(i))
  /\ i' = i + 1
  /\ UNCHANGED <<dir, pc>>

\* Mutant: the slot after the set passed over too.
FileSetSkipsOne ==
  /\ pc = "scan" /\ i < Len(dir)
  /\ slot(i).type = "file"
  /\ out' = Append(out, decode_set(i))
  /\ i' = i + 2 + slot(i).secondary_count
  /\ UNCHANGED <<dir, pc>>

\* Mutant: the File slot itself not counted.
FileSetStays ==
  /\ pc = "scan" /\ i < Len(dir)
  /\ slot(i).type = "file"
  /\ out' = Append(out, decode_set(i))
  /\ i' = i + slot(i).secondary_count
  /\ UNCHANGED <<dir, pc>>

FileSet ==
  /\ pc = "scan" /\ i < Len(dir)
  /\ slot(i).type = "file"
  /\ out' = Append(out, decode_set(i))
  /\ i' = i + 1 + slot(i).secondary_count
  /\ UNCHANGED <<dir, pc>>

Next == End \/ OtherSlot \/ FileSet

Spec == Init /\ [][Next]_vars

-----------------------------------------------------------------------------
Entry ==
  [index : Nat, slot : Nat, name : Seq(Nat), is_dir : BOOLEAN,
   deleted : BOOLEAN, first_cluster : Nat, size : Nat, contiguous : BOOLEAN]

\* Entries have their types and stand at File slots the loop has passed.
TypeOK ==
  /\ dir \in Seq(Slot)
  /\ i \in Nat
  /\ out \in Seq(Entry)
  /\ \A k \in 1 .. Len(out) : out[k].slot < LesserOf(i, Len(dir))
  /\ pc \in {"scan", "done"}

\* The last slot of set k, by its count.
LastSlot(k) == k + slot(k).secondary_count

\* No slot is decoded as part of two entry sets, and the entries come in slot
\* order (exfat.rs, parse_directory: `i += 1 + secondary_count`).
SetsAreDisjoint ==
  \A j, k \in 1 .. Len(out) : j < k => LastSlot(out[j].slot) < out[k].slot

\* Slot k belongs to an entry set that was listed.
Claimed(k) == \E e \in 1 .. Len(out) : k \in out[e].slot .. LastSlot(out[e].slot)

\* A File slot is listed, or claimed by a listed set as a secondary slot, up to
\* the first end marker that no listed set claims, and none is behind it: only a
\* lying count takes the scan past an end marker (exfat.rs, parse_directory:
\* "parsing stops at the first end-of-directory marker").
ListsEverySet ==
  pc = "done" =>
    \A k \in 0 .. Len(dir) - 1 : slot(k).type = "file" =>
      (Claimed(k) <=> \A j \in 0 .. k - 1 : slot(j).type = "end" => Claimed(j))

\* Set k is written as exFAT writes it: File, Stream Extension, File Names.
IsSet(k) ==
  /\ slot(k).secondary_count >= 1 /\ LastSlot(k) < Len(dir)
  /\ slot(k + 1).type = "stream"
  /\ \A j \in k + 2 .. LastSlot(k) : slot(j).type = "name"

\* A set written as exFAT writes it is read with the extent of its own Stream
\* Extension, and unit n of its name comes from the File Name slot that holds
\* it (exfat.rs, decode_set).
WrittenSetIsRead ==
  \A e \in 1 .. Len(out) : IsSet(out[e].slot) =>
    LET k == out[e].slot
        stream == slot(k + 1)
        units == NameUnits * (slot(k).secondary_count - 1)
    IN  /\ out[e].first_cluster = stream.first_cluster
        /\ out[e].size = stream.size
        /\ out[e].contiguous = stream.contiguous
        /\ Len(out[e].name) = LesserOf(stream.name_len, units)
        /\ \A n \in 0 .. Len(out[e].name) - 1 :
             out[e].name[n + 1] =
               slot(k + 2 + (n \div NameUnits)).units[(n % NameUnits) + 1]

=============================================================================

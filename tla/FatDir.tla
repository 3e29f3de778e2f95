------------------------------- MODULE FatDir -------------------------------
(***************************************************************************)
(* parse_directory (core/src/dirent.rs): the scan over the 32-byte slots   *)
(* of a FAT directory that joins VFAT long-name (LFN) slots to the short   *)
(* entry they precede.  One action per arm of the loop.  The slots are     *)
(* whatever the image holds: orphaned, reordered and half-overwritten LFN  *)
(* runs included.                                                          *)
(***************************************************************************)
EXTENDS Integers, SequencesExt

CONSTANTS
  Dirs,         \* the directories, sequences of slots
  MaxIndex      \* u16::MAX, where slot indices saturate

\* A slot by what the scan tells apart.  `first` is its first byte, END,
\* DELETED or another; `ord` is that byte when it numbers an LFN slot; `sum`
\* is the checksum an LFN slot stores, or that of the 11 bytes of a short
\* name; `units` are the code units of an LFN slot.
Slot ==
  [first : {"end", "deleted", "live"}, attr : {"lfn", "label", "dir", "file"},
   ord : Nat, sum : Nat, units : Seq(Nat)]

ASSUME DirsAssumption == Dirs \subseteq Seq(Slot)
ASSUME MaxIndexAssumption == MaxIndex \in Nat

VARIABLES
  dir,          \* the directory: fixed
  idx,          \* slots enumerated so far; slot i of the code is dir[i + 1]
  lfn_parts,    \* pending LFN slots, by their index
  lfn_checksum, \* checksum of the last of them, or NoSum
  out,          \* the entries
  pc

vars == <<dir, idx, lfn_parts, lfn_checksum, out, pc>>

NoSum == -1
slot(i) == dir[i + 1]
IsLfn(i) == slot(i).first = "live" /\ slot(i).attr = "lfn"

-----------------------------------------------------------------------------
\* The code units of one slot: up to a NUL, paddings left out.
lfn_text(units) ==
  LET nul == { i \in DOMAIN units : units[i] = 0 }
      text == IF nul = {} THEN units ELSE SubSeq(units, 1, Min(nul) - 1)
  IN  FlattenSeq([i \in DOMAIN text |->
                    IF text[i] = 65535 THEN <<>> ELSE <<text[i]>>])

\* Mutant: the slots taken as they come.
SlotOrder(parts) == parts

\* `sort_by_key`, which is stable, on the low five bits of the ordinal: the
\* k-th part is the one that k - 1 parts come before.
SeqOrder(parts) ==
  LET seq(k) == slot(parts[k]).ord % 32
      before(k) == { j \in DOMAIN parts : seq(j) < seq(k) \/ (seq(j) = seq(k) /\ j < k) }
  IN  [k \in DOMAIN parts |->
         parts[CHOOSE j \in DOMAIN parts : Cardinality(before(j)) = k - 1]]

\* The long name, <<>> for None.
reassemble_long(parts, checksum, short) ==
  IF checksum = NoSum \/ parts = <<>> \/ checksum # short.sum THEN <<>>
  ELSE LET ordered == SeqOrder(parts)
       IN  FlattenSeq([k \in DOMAIN parts |-> lfn_text(slot(ordered[k]).units)])

\* The entry of short slot i; `long` is <<>> when the 8.3 name stands.
decode_short(i, long, deleted) ==
  [index |-> IF i <= MaxIndex THEN i ELSE MaxIndex,
   slot |-> i,
   long |-> long,
   deleted |-> deleted,
   is_volume_label |-> slot(i).attr = "label",
   is_dir |-> slot(i).attr = "dir"]

Init ==
  /\ dir \in Dirs
  /\ idx = 0
  /\ lfn_parts = <<>>
  /\ lfn_checksum = NoSum
  /\ out = <<>>
  /\ pc = "scan"

\* The slot the loop looks at.
Scanning == pc = "scan" /\ idx < Len(dir)

ClearPending == lfn_parts' = <<>> /\ lfn_checksum' = NoSum

\* Mutant: an end marker skipped like an unused slot.
EndOfSlotsOnly ==
  \/ /\ pc = "scan" /\ idx = Len(dir)
     /\ pc' = "done"
     /\ UNCHANGED <<dir, idx, lfn_parts, lfn_checksum, out>>
  \/ /\ Scanning /\ slot(idx).first = "end"
     /\ idx' = idx + 1
     /\ UNCHANGED <<dir, lfn_parts, lfn_checksum, out, pc>>

\* The slots are used up, or the first END is met.
End ==
  /\ pc = "scan"
  /\ idx < Len(dir) => slot(idx).first = "end"
  /\ pc' = "done"
  /\ UNCHANGED <<dir, idx, lfn_parts, lfn_checksum, out>>

\* Mutant: deleted slots passed over, the pending parts with them.
DeletedLfnKeeps ==
  /\ Scanning /\ slot(idx).first = "deleted" /\ slot(idx).attr = "lfn"
  /\ idx' = idx + 1
  /\ UNCHANGED <<dir, lfn_parts, lfn_checksum, out, pc>>

DeletedLfn ==
  /\ Scanning /\ slot(idx).first = "deleted" /\ slot(idx).attr = "lfn"
  /\ ClearPending
  /\ idx' = idx + 1
  /\ UNCHANGED <<dir, out, pc>>

DeletedShort ==
  /\ Scanning /\ slot(idx).first = "deleted" /\ slot(idx).attr # "lfn"
  /\ ClearPending
  /\ out' = Append(out, decode_short(idx, <<>>, TRUE))
  /\ idx' = idx + 1
  /\ UNCHANGED <<dir, pc>>

\* Mutant: the index a slot too far.
LfnPartNext ==
  /\ Scanning /\ IsLfn(idx)
  /\ lfn_parts' = Append(lfn_parts, idx + 1)
  /\ lfn_checksum' = slot(idx).sum
  /\ idx' = idx + 1
  /\ UNCHANGED <<dir, out, pc>>

LfnPart ==
  /\ Scanning /\ IsLfn(idx)
  /\ lfn_parts' = Append(lfn_parts, idx)
  /\ lfn_checksum' = slot(idx).sum
  /\ idx' = idx + 1
  /\ UNCHANGED <<dir, out, pc>>

ShortEntry ==
  /\ Scanning /\ slot(idx).first = "live" /\ slot(idx).attr # "lfn"
  /\ out' = Append(out, decode_short(idx,
              reassemble_long(lfn_parts, lfn_checksum, slot(idx)), FALSE))
  /\ ClearPending
  /\ idx' = idx + 1
  /\ UNCHANGED <<dir, pc>>

Next == End \/ DeletedLfn \/ DeletedShort \/ LfnPart \/ ShortEntry

Spec == Init /\ [][Next]_vars

-----------------------------------------------------------------------------
Entry ==
  [index : Nat, slot : Nat, long : Seq(Nat), deleted : BOOLEAN,
   is_volume_label : BOOLEAN, is_dir : BOOLEAN]

\* The pending parts are slots already scanned; entries have their types.
TypeOK ==
  /\ dir \in Seq(Slot)
  /\ idx \in 0 .. Len(dir)
  /\ lfn_parts \in Seq(0 .. idx - 1)
  /\ lfn_checksum \in Nat \cup {NoSum}
  /\ out \in Seq(Entry)
  /\ pc \in {"scan", "done"}

\* s is where the unbroken run of live LFN slots that ends before slot i
\* begins (s = i when there is none).
IsRunStart(s, i) ==
  /\ s \in 0 .. i
  /\ \A j \in s .. i - 1 : IsLfn(j)
  /\ s = 0 \/ ~IsLfn(s - 1)

\* The slots s .. i - 1.
Run(s, i) == [k \in 1 .. i - s |-> s + k - 1]

\* The name entry e gets if its LFN slots are those of the run right before
\* it and no others.
NameOfRun(s, e) ==
  reassemble_long(Run(s, e.slot),
                  IF s = e.slot THEN NoSum ELSE slot(e.slot - 1).sum,
                  slot(e.slot))

\* A live entry is named by the LFN slots that stand right before it, all of
\* them and only them: parts before a deleted entry or before another short
\* entry never leak into its name; a deleted entry has no long name
\* (dirent.rs, parse_directory: "breaks any pending (live) LFN association").
NamedByItsRun ==
  \A k \in 1 .. Len(out) :
    IF out[k].deleted THEN out[k].long = <<>>
    ELSE \A s \in 0 .. out[k].slot :
           IsRunStart(s, out[k].slot) => out[k].long = NameOfRun(s, out[k])

\* The slots s .. i - 1 are the long name VFAT writes for short slot i: last
\* part first, numbered down to 1, the first one marked, every one bound to i.
IsNameOf(s, i) ==
  /\ s < i
  /\ IsRunStart(s, i)
  /\ slot(s).ord \div 32 = 2
  /\ \A j \in s .. i - 1 : slot(j).ord % 32 = i - j /\ slot(j).sum = slot(i).sum

\* A long name written as VFAT writes it comes back whole and in order
\* (dirent.rs, reassemble_long).
WrittenNameIsRead ==
  \A k \in 1 .. Len(out) : \A s \in 0 .. out[k].slot :
    ~out[k].deleted /\ IsNameOf(s, out[k].slot) =>
      out[k].long =
        FlattenSeq([n \in 1 .. out[k].slot - s |->
                      lfn_text(slot(out[k].slot - n).units)])

\* Slot i is to be listed: it is a short entry, with no END before it.
Listed(i) ==
  /\ \A j \in 0 .. i : slot(j).first # "end"
  /\ slot(i).attr # "lfn"

\* Every short entry before the first END is listed once, deleted or not, in
\* slot order, and nothing else is: no malformed LFN run hides an entry
\* (dirent.rs, parse_directory).
ListsAllEntries ==
  /\ \A k \in 1 .. Len(out) :
       /\ Listed(out[k].slot)
       /\ out[k].deleted <=> slot(out[k].slot).first = "deleted"
       /\ k > 1 => out[k - 1].slot < out[k].slot
  /\ pc = "done" =>
       \A i \in 0 .. Len(dir) - 1 :
         Listed(i) => \E k \in 1 .. Len(out) : out[k].slot = i

\* What the doc comment of reassemble_long says: a long name is used "only if
\* the checksum binds them to this short entry", them being its parts.
PartsAreBound ==
  \A k \in 1 .. Len(out) : out[k].long # <<>> =>
    \A s \in 0 .. out[k].slot : IsRunStart(s, out[k].slot) =>
      \A j \in s .. out[k].slot - 1 : slot(j).sum = slot(out[k].slot).sum

=============================================================================

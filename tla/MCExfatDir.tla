----------------------------- MODULE MCExfatDir -----------------------------
(***************************************************************************)
(* Every directory of up to MaxSlots slots over an alphabet of File slots  *)
(* with counts from none to too many, Stream Extensions, File Names, the   *)
(* end marker and a slot of another type; two units to a File Name.        *)
(***************************************************************************)
EXTENDS ExfatDir

CONSTANT MaxSlots

Blank ==
  [type |-> "end", deleted |-> FALSE, is_dir |-> FALSE, secondary_count |-> 0,
   contiguous |-> FALSE, name_len |-> 0, first_cluster |-> 0, size |-> 0,
   units |-> <<0, 0>>]
File(count, deleted) ==
  [Blank EXCEPT !.type = "file", !.secondary_count = count, !.deleted = deleted]
Stream(len, cluster, size, contiguous) ==
  [Blank EXCEPT !.type = "stream", !.name_len = len, !.first_cluster = cluster,
                !.size = size, !.contiguous = contiguous]
Name(a, b) == [Blank EXCEPT !.type = "name", !.units = <<a, b>>]

Alphabet ==
  { Blank, [Blank EXCEPT !.type = "other"],
    File(0, FALSE), File(1, TRUE), File(2, FALSE), File(3, FALSE),
    Stream(3, 5, 9, FALSE), Stream(1, 7, 4, TRUE), Name(1, 2), Name(3, 4) }

MCDirs == UNION { [1 .. n -> Alphabet] : n \in 0 .. MaxSlots }
=============================================================================

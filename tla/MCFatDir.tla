------------------------------ MODULE MCFatDir ------------------------------
(***************************************************************************)
(* Every directory of up to MaxSlots slots over an alphabet with the end   *)
(* marker, deleted slots, short entries of two names, and LFN slots that   *)
(* number, bind and spell in the ways the scan tells apart.                *)
(***************************************************************************)
EXTENDS FatDir

CONSTANT MaxSlots

Short(first, attr, sum) ==
  [first |-> first, attr |-> attr, ord |-> 0, sum |-> sum, units |-> <<>>]
Lfn(first, ord, sum, units) ==
  [first |-> first, attr |-> "lfn", ord |-> ord, sum |-> sum, units |-> units]

Alphabet ==
  { Short("end", "file", 1),
    Short("deleted", "file", 1),
    Lfn("deleted", 1, 1, <<9, 9>>),
    Short("live", "file", 1),
    Short("live", "dir", 2),
    Lfn("live", 65, 1, <<5, 0>>),         \* the whole of a one-slot name
    Lfn("live", 1, 1, <<1, 2>>),          \* first part of a longer one
    Lfn("live", 66, 1, <<3, 65535>>),     \* second and last part
    Lfn("live", 66, 2, <<0, 65535>>) }    \* bound elsewhere, and empty

MCDirs == UNION { [1 .. n -> Alphabet] : n \in 0 .. MaxSlots }

=============================================================================

------------------------------ MODULE FatTable ------------------------------
(***************************************************************************)
(* One entry of the File Allocation Table (core/src/fat.rs), decoded from  *)
(* the cached bytes of FAT1 through the bounds-checked little-endian       *)
(* readers of core/src/bytes.rs, and its classification.                   *)
(*                                                                         *)
(* A byte slice is a sequence of 0..255; offset o of the code is index     *)
(* o + 1 here.  A window that does not lie inside the slice reads as 0.    *)
(***************************************************************************)
EXTENDS Integers, Sequences

Byte == 0 .. 255

FatVariant == {"Fat12", "Fat16", "Fat32", "ExFat"}

Inside(data, off, n) == off + n <= Len(data)

le_u16(data, off) ==
  IF Inside(data, off, 2) THEN data[off + 1] + 256 * data[off + 2] ELSE 0

\* le_u32(data, off) & 0x0FFF_FFFF: the mask drops the top nibble of the last
\* byte, so the value also fits TLC's 32-bit integers.
le_u32_28(data, off) ==
  IF Inside(data, off, 4)
  THEN data[off + 1] + 256 * data[off + 2] + 65536 * data[off + 3]
       + 16777216 * (data[off + 4] % 16)
  ELSE 0

-----------------------------------------------------------------------------
\* Mutant: the two halves of a shared FAT12 byte taken the wrong way round.
fat12_swapped(raw, cluster) ==
  IF cluster % 2 = 0 THEN raw \div 16 ELSE raw % 4096

\* Two FAT12 entries share three bytes: the odd one is the high 12 bits.
fat12_half(raw, cluster) ==
  IF cluster % 2 = 1 THEN raw \div 16 ELSE raw % 4096

\* The next-cluster pointer stored for `cluster`.
fat_entry(fat, variant, cluster) ==
  CASE variant = "Fat12" ->
         fat12_half(le_u16(fat, (cluster * 3) \div 2), cluster)
    [] variant = "Fat16" -> le_u16(fat, cluster * 2)
    [] variant \in {"Fat32", "ExFat"} -> le_u32_28(fat, cluster * 4)

eoc_threshold(variant) ==
  CASE variant = "Fat12" -> 4088                       \* 0x0FF8
    [] variant = "Fat16" -> 65528                      \* 0xFFF8
    [] variant \in {"Fat32", "ExFat"} -> 268435448     \* 0x0FFF_FFF8

is_eoc(variant, value) == value >= eoc_threshold(variant)

is_bad(variant, value) == value = eoc_threshold(variant) - 1

\* The pointers that end a chain: free, reserved, bad, end-of-chain.
EndsChain(variant, value) ==
  value < 2 \/ is_bad(variant, value) \/ is_eoc(variant, value)
=============================================================================

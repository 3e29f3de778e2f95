---------------------------- MODULE BootChecksum ----------------------------
(***************************************************************************)
(* boot_checksum (core/src/exfat.rs) as audit_exfat_checksum               *)
(* (forensic/src/lib.rs) uses it: the sum of the boot region as it is now, *)
(* against the sum stored when the volume was sealed, which leaves out the *)
(* fields that exFAT says change with every mount, wherever the code       *)
(* thinks they are.  The two loops run side by side: one step looks at the *)
(* same offset of each.                                                    *)
(*                                                                         *)
(* A word of the code has 32 bits and a byte 8; here a word is below       *)
(* 2 * Half, and bytes are some of the words.                              *)
(***************************************************************************)
EXTENDS Integers

CONSTANTS
  Half,             \* 2^31
  Bytes,
  BytesPerSector,
  RegionSectors,    \* 11
  Regions           \* what was sealed and what is there now

Word == 0 .. 2 * Half - 1

ASSUME ChecksumAssumption ==
  /\ Half \in Nat \ {0}
  /\ Bytes \subseteq Word
  /\ BytesPerSector \in Nat /\ RegionSectors \in Nat
  /\ \A r \in Regions : /\ r.len \in Nat
                        /\ r.sealed \in [0 .. r.len - 1 -> Bytes]
                        /\ r.sectors \in [0 .. r.len - 1 -> Bytes]

VARIABLES
  len,          \* the bytes at hand: fixed
  sealed,       \* the bytes the stored sum was made of: fixed
  sectors,      \* the bytes now: fixed
  i,
  stored,
  computed

sum_vars == <<len, sealed, sectors, i, stored, computed>>

\* min(bytes_per_sector * 11, sectors.len()).
n == LET whole == BytesPerSector * RegionSectors IN IF whole <= len THEN whole ELSE len

\* The fields of the main boot sector that a mount may change, by their place in
\* the format.
VolumeFlags == 106 .. 107
PercentInUse == 112
MountState == VolumeFlags \cup {PercentInUse}

\* Mutant: the second byte of the flags summed.
Excluded_short(k) == k = 106 \/ k = 112

\* The offsets the code leaves out.
Excluded(k) == k = 106 \/ k = 107 \/ k = 112

\* Mutant: the lowest bit lost instead of carried round.
shift_right(x) == x \div 2

\* rotate_right(1).
rotate_right(x) == x \div 2 + (IF x % 2 = 1 THEN Half ELSE 0)

wrapping_add(x, y) == IF x + y < 2 * Half THEN x + y ELSE x + y - 2 * Half

add_byte(checksum, b) == wrapping_add(rotate_right(checksum), b)

SumInit ==
  /\ \E r \in Regions :
       len = r.len /\ sealed = r.sealed /\ sectors = r.sectors
  /\ i = 0
  /\ stored = 0
  /\ computed = 0

\* The stored sum, as exFAT defines it.
Seal ==
  stored' = IF i \in MountState THEN stored ELSE add_byte(stored, sealed[i])

Skipped ==
  /\ i < n /\ Excluded(i)
  /\ Seal
  /\ i' = i + 1
  /\ UNCHANGED <<len, sealed, sectors, computed>>

Added ==
  /\ i < n /\ ~Excluded(i)
  /\ Seal
  /\ computed' = add_byte(computed, sectors[i])
  /\ i' = i + 1
  /\ UNCHANGED <<len, sealed, sectors>>

SumNext == Skipped \/ Added

SumSpec == SumInit /\ [][SumNext]_sum_vars

-----------------------------------------------------------------------------
SumTypeOK ==
  /\ len \in Nat
  /\ sealed \in [0 .. len - 1 -> Bytes]
  /\ sectors \in [0 .. len - 1 -> Bytes]
  /\ i \in 0 .. n
  /\ stored \in Word /\ computed \in Word

\* Where the region differs from what was sealed, the mount's fields apart.
Changed == { k \in (0 .. n - 1) \ MountState : sectors[k] # sealed[k] }

\* A mount that only sets flags raises no alarm, and one changed byte anywhere
\* else always does: no later byte makes up for it (exfat.rs, boot_checksum:
\* "A mismatch against the stored checksum is a tamper signal").
TellsOneByte ==
  i = n =>
    /\ Changed = {} => computed = stored
    /\ (\E k \in Changed : Changed = {k}) => computed # stored
=============================================================================

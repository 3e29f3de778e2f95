---------------------------- MODULE BootGeometry ----------------------------
(***************************************************************************)
(* The boot sector and the layout it describes: Geometry::parse            *)
(* (core/src/boot.rs) for FAT12/16/32, parse_boot (core/src/exfat.rs) for  *)
(* exFAT.  A boot sector is its little-endian fields as the parser that is *)
(* called reads them; sizes keep the limits of their widths.               *)
(***************************************************************************)
EXTENDS Integers

CONSTANTS
  U32_MAX,              \* the largest u32 (TLC: the largest number it has)
  FAT12_MAX_CLUSTERS,
  FAT16_MAX_CLUSTERS

ASSUME GeometryAssumption ==
  /\ U32_MAX \in Nat /\ U32_MAX >= 2147483647
  /\ FAT12_MAX_CLUSTERS \in Nat /\ FAT16_MAX_CLUSTERS \in Nat
  /\ FAT12_MAX_CLUSTERS <= FAT16_MAX_CLUSTERS /\ FAT16_MAX_CLUSTERS <= U32_MAX

U8 == { k \in Nat : k <= 255 }
U16 == { k \in Nat : k <= 65535 }
U32 == { k \in Nat : k <= U32_MAX }

\* The BIOS Parameter Block; root_cluster only means something on FAT32.
Bpb ==
  [sig_ok : BOOLEAN, bytes_per_sector : U16, sectors_per_cluster : U8,
   reserved_sectors : U16, num_fats : U8, root_entry_count : U16,
   total_sectors_16 : U16, fat_size_16 : U16, total_sectors_32 : U32,
   fat_size_32 : U32, root_cluster : U32]

\* The main boot sector of exFAT.  volume_length has 64 bits and is copied.
MainBoot ==
  [sig_ok : BOOLEAN, volume_length : Nat, fat_offset : U32, fat_length : U32,
   cluster_heap_offset : U32, count_of_clusters : U32, root_cluster : U32,
   bps_shift : U8, spc_shift : U8, num_fats : U8]

BootError == [err |-> "boot"]

LesserOf(a, b) == IF a <= b THEN a ELSE b
DivCeil(n, d) == (n + d - 1) \div d

\* The powers of two of the ranges read_fields lets through.
SectorSizes == {512, 1024, 2048, 4096}
ClusterSizes == {1, 2, 4, 8, 16, 32, 64, 128}

-----------------------------------------------------------------------------
\* Mutant: the 32-bit field alone.
fat_size_sectors_32(b) == b.fat_size_32

\* The 16-bit field wins unless it is zero.
fat_size_sectors(b) == IF b.fat_size_16 # 0 THEN b.fat_size_16 ELSE b.fat_size_32
total_sectors(b) ==
  IF b.total_sectors_16 # 0 THEN b.total_sectors_16 ELSE b.total_sectors_32

read_fields(b) ==
  /\ b.sig_ok
  /\ b.bytes_per_sector \in SectorSizes
  /\ b.sectors_per_cluster \in ClusterSizes
  /\ b.reserved_sectors # 0 /\ b.num_fats # 0
  /\ fat_size_sectors(b) # 0 /\ total_sectors(b) # 0

\* Mutant: the last sector of the root forgotten when it is not full.
root_dir_sectors_floor(b) == (b.root_entry_count * 32) \div b.bytes_per_sector

root_dir_sectors(b) == DivCeil(b.root_entry_count * 32, b.bytes_per_sector)

\* Where the FATs end, and the root region behind them.
fats_end(b) == b.reserved_sectors + b.num_fats * fat_size_sectors(b)
meta_sectors(b) == fats_end(b) + root_dir_sectors(b)

count_of_clusters(b) ==
  LesserOf((total_sectors(b) - meta_sectors(b)) \div b.sectors_per_cluster, U32_MAX)

variant_of(count) ==
  IF count < FAT12_MAX_CLUSTERS THEN "Fat12"
  ELSE IF count < FAT16_MAX_CLUSTERS THEN "Fat16" ELSE "Fat32"

Layout(b, count, is32) ==
  [variant |-> variant_of(count),
   bytes_per_sector |-> b.bytes_per_sector,
   sectors_per_cluster |-> b.sectors_per_cluster,
   cluster_size |-> b.bytes_per_sector * b.sectors_per_cluster,
   reserved_sectors |-> b.reserved_sectors,
   num_fats |-> b.num_fats,
   fat_size_sectors |-> fat_size_sectors(b),
   root_entry_count |-> IF is32 THEN 0 ELSE b.root_entry_count,
   total_sectors |-> total_sectors(b),
   root_cluster |-> IF is32 THEN b.root_cluster ELSE 0,
   count_of_clusters |-> count,
   fat_start |-> b.reserved_sectors * b.bytes_per_sector,
   root_dir_start |-> IF is32 THEN 0 ELSE fats_end(b) * b.bytes_per_sector,
   root_dir_bytes |-> IF is32 THEN 0
                      ELSE LesserOf(root_dir_sectors(b) * b.bytes_per_sector, U32_MAX),
   data_start |-> meta_sectors(b) * b.bytes_per_sector]

\* Geometry::parse.
parse(b) ==
  IF ~read_fields(b) \/ meta_sectors(b) > total_sectors(b) THEN BootError
  ELSE Layout(b, count_of_clusters(b), variant_of(count_of_clusters(b)) = "Fat32")

-----------------------------------------------------------------------------
\* The last cluster, saturated.
last_cluster(b) == LesserOf(b.count_of_clusters + 1, U32_MAX)

\* Cluster size at most 32 MiB; the offsets and lengths are taken as they are.
valid_main(b) ==
  /\ b.sig_ok
  /\ b.bps_shift \in 9 .. 12
  /\ b.bps_shift + b.spc_shift <= 25
  /\ b.num_fats \in 1 .. 2
  /\ b.root_cluster \in 2 .. last_cluster(b)

parse_boot(b) ==
  IF ~valid_main(b) THEN BootError
  ELSE [variant |-> "ExFat",
        bytes_per_sector |-> 2 ^ b.bps_shift,
        sectors_per_cluster |-> 2 ^ b.spc_shift,
        cluster_size |-> 2 ^ b.bps_shift * 2 ^ b.spc_shift,
        reserved_sectors |-> 0,
        num_fats |-> b.num_fats,
        fat_size_sectors |-> b.fat_length,
        root_entry_count |-> 0,
        total_sectors |-> b.volume_length,
        root_cluster |-> b.root_cluster,
        count_of_clusters |-> b.count_of_clusters,
        fat_start |-> b.fat_offset * 2 ^ b.bps_shift,
        root_dir_start |-> 0,
        root_dir_bytes |-> 0,
        data_start |-> b.cluster_heap_offset * 2 ^ b.bps_shift]
=============================================================================

------------------------------ MODULE FatOpen -------------------------------
(***************************************************************************)
(* FatFs::open (core/src/fs.rs): the boot sector read and parsed, FAT1     *)
(* cached as far as MAX_FAT_BYTES and the image go.  Nothing else of an    *)
(* open volume is kept, so whatever a chain needs must be in the cache.    *)
(*                                                                         *)
(* The image was written by a formatter, whose layout `written` remembers, *)
(* or carries any boot sector at all.                                      *)
(***************************************************************************)
EXTENDS BootGeometry

CONSTANTS
  MAX_FAT_BYTES,
  BootLen,      \* the bytes of a boot sector, 512
  Boots,        \* boot sectors nobody answers for
  Volumes,      \* layouts formatters write
  Cuts          \* where images end, as offsets from the end of FAT1

\* The largest cluster of exFAT: 32 MiB.
MaxClusterBytes == 33554432

\* A layout by its numbers; Sound says which of them a variant can have.
\* `reserved_sectors` come before the first FAT, `fat_slack` counts the sectors
\* a FAT has beyond what its entries need, `gap` those between the root region
\* and the heap, `spare` those behind the last cluster, and `wide` says that a
\* total that fits 16 bits stands in the 32-bit field.
Written ==
  [variant : {"Fat12", "Fat16", "Fat32", "ExFat"}, bytes_per_sector : SectorSizes,
   sectors_per_cluster : { 2 ^ k : k \in 0 .. 16 }, reserved_sectors : U32 \ {0},
   num_fats : U8 \ {0}, root_entry_count : U16, root_cluster : U32,
   clusters : U32 \ {0}, fat_slack : Nat, gap : Nat, spare : Nat, wide : BOOLEAN]

NotWritten == [variant |-> "none"]

VARIABLES
  boot,         \* the boot sector: fixed
  written,      \* the layout it was written for: fixed
  image_len,    \* the length of the image: fixed
  pc,
  geom,
  fat,          \* the cached bytes: where on the volume, and how many
  max_clusters

vars == <<boot, written, image_len, pc, geom, fat, max_clusters>>

None == [none |-> TRUE]

-----------------------------------------------------------------------------
\* What a FAT of 12, 16 or 32 bits an entry takes, for clusters 0 .. clusters + 1.
TableBytes(variant, clusters) ==
  CASE variant = "Fat12" -> DivCeil((clusters + 2) * 3, 2)
    [] variant = "Fat16" -> (clusters + 2) * 2
    [] variant \in {"Fat32", "ExFat"} -> (clusters + 2) * 4

FatSectors(w) ==
  DivCeil(TableBytes(w.variant, w.clusters), w.bytes_per_sector) + w.fat_slack

\* Where the parts of a written volume begin, in sectors.
RootAt(w) == w.reserved_sectors + w.num_fats * FatSectors(w)
HeapAt(w) ==
  RootAt(w) + DivCeil(w.root_entry_count * 32, w.bytes_per_sector) + w.gap
TotalOf(w) == HeapAt(w) + w.clusters * w.sectors_per_cluster + w.spare

\* The fields a formatter writes for a layout.  Where FAT12/16 has no 32-bit
\* FAT size and no root cluster, FAT32's offsets hold other things: `other`.
WriteBpb(w, other) ==
  [sig_ok |-> TRUE, bytes_per_sector |-> w.bytes_per_sector,
   sectors_per_cluster |-> w.sectors_per_cluster,
   reserved_sectors |-> w.reserved_sectors, num_fats |-> w.num_fats,
   root_entry_count |-> w.root_entry_count,
   total_sectors_16 |-> IF w.wide \/ TotalOf(w) > 65535 THEN 0 ELSE TotalOf(w),
   total_sectors_32 |-> IF w.wide \/ TotalOf(w) > 65535 THEN TotalOf(w) ELSE 0,
   fat_size_16 |-> IF w.variant = "Fat32" THEN 0 ELSE FatSectors(w),
   fat_size_32 |-> IF w.variant = "Fat32" THEN FatSectors(w) ELSE other,
   root_cluster |-> IF w.variant = "Fat32" THEN w.root_cluster ELSE other]

Log2(n) == CHOOSE k \in 0 .. 16 : 2 ^ k = n

WriteMain(w) ==
  [sig_ok |-> TRUE, volume_length |-> TotalOf(w), fat_offset |-> w.reserved_sectors,
   fat_length |-> FatSectors(w), cluster_heap_offset |-> HeapAt(w),
   count_of_clusters |-> w.clusters, root_cluster |-> w.root_cluster,
   bps_shift |-> Log2(w.bytes_per_sector), spc_shift |-> Log2(w.sectors_per_cluster),
   num_fats |-> w.num_fats]

WriteBoot(w, other) ==
  IF w.variant = "ExFat" THEN [exfat |-> TRUE, fields |-> WriteMain(w)]
  ELSE [exfat |-> FALSE, fields |-> WriteBpb(w, other)]

\* FAT12/16/32: of the variant that goes with the number of clusters, with a
\* heap that follows at once and takes what is left of the volume.
SoundFat(w) ==
  /\ w.variant = variant_of(w.clusters)
  /\ w.sectors_per_cluster \in ClusterSizes
  /\ w.reserved_sectors \in U16
  /\ w.variant # "Fat32" => FatSectors(w) <= 65535
  /\ w.gap = 0
  /\ w.spare < w.sectors_per_cluster
  /\ TotalOf(w) <= U32_MAX

\* exFAT: clusters up to 32 MiB, one FAT or two, a heap anywhere behind them
\* that begins at a sector of 32 bits and ends anywhere before the volume does.
SoundExfat(w) ==
  /\ w.bytes_per_sector * w.sectors_per_cluster <= MaxClusterBytes
  /\ w.num_fats <= 2
  /\ w.root_entry_count = 0
  /\ HeapAt(w) <= U32_MAX

\* A layout that the fields of a boot sector can hold, with a root that lies in
\* the heap if the variant keeps it there.
Sound(w) ==
  /\ IF w.variant = "ExFat" THEN SoundExfat(w) ELSE SoundFat(w)
  /\ w.variant \in {"Fat32", "ExFat"} => w.root_cluster \in 2 .. w.clusters + 1

ASSUME OpenAssumption ==
  /\ MAX_FAT_BYTES \in Nat /\ BootLen \in Nat \ {0} /\ Cuts \subseteq Int
  /\ \A b \in Boots : \/ ~b.exfat /\ b.fields \in Bpb
                      \/ b.exfat /\ b.fields \in MainBoot
  /\ \A w \in Volumes : w \in Written /\ Sound(w)

-----------------------------------------------------------------------------
fat_bytes(g) == g.fat_size_sectors * g.bytes_per_sector

\* parse_boot if the name at 3..11 is "EXFAT   ", else Geometry::parse.
parsed == IF boot.exfat THEN parse_boot(boot.fields) ELSE parse(boot.fields)

Init ==
  /\ \/ \E w \in Volumes, other \in {0, 41} :
          written = w /\ boot = WriteBoot(w, other)
     \/ written = NotWritten /\ boot \in Boots
  /\ image_len \in {0, BootLen - 1}
       \cup (IF parsed = BootError THEN {BootLen}
             ELSE { l \in { parsed.fat_start + fat_bytes(parsed) + cut : cut \in Cuts } :
                      l >= BootLen })
  /\ pc = "boot"
  /\ geom = None
  /\ fat = None
  /\ max_clusters = 0

\* read_exact of the boot sector.
ReadBoot ==
  /\ pc = "boot" /\ image_len >= BootLen
  /\ pc' = "parse"
  /\ UNCHANGED <<boot, written, image_len, geom, fat, max_clusters>>

ReadBootFails ==
  /\ pc = "boot"
  /\ pc' = "err"
  /\ UNCHANGED <<boot, written, image_len, geom, fat, max_clusters>>

Parse ==
  /\ pc = "parse" /\ parsed # BootError
  /\ geom' = parsed
  /\ pc' = "fat"
  /\ UNCHANGED <<boot, written, image_len, fat, max_clusters>>

ParseFails ==
  /\ pc = "parse" /\ parsed = BootError
  /\ pc' = "err"
  /\ UNCHANGED <<boot, written, image_len, geom, fat, max_clusters>>

\* What a read of `len` bytes at `offset` brings, as far as the image goes.
read_upto(offset, len) ==
  [from |-> offset,
   len |-> IF image_len <= offset THEN 0 ELSE LesserOf(len, image_len - offset)]

\* Mutant: the read that caches FAT1 made without the seek.
CacheFatUnsought ==
  /\ pc = "fat"
  /\ fat' = read_upto(BootLen, LesserOf(fat_bytes(geom), MAX_FAT_BYTES))
  /\ max_clusters' = geom.count_of_clusters + 2
  /\ pc' = "ok"
  /\ UNCHANGED <<boot, written, image_len, geom>>

CacheFat ==
  /\ pc = "fat"
  /\ fat' = read_upto(geom.fat_start, LesserOf(fat_bytes(geom), MAX_FAT_BYTES))
  /\ max_clusters' = geom.count_of_clusters + 2
  /\ pc' = "ok"
  /\ UNCHANGED <<boot, written, image_len, geom>>

CacheFatFails ==
  /\ pc = "fat"
  /\ pc' = "err"
  /\ UNCHANGED <<boot, written, image_len, geom, fat, max_clusters>>

Next ==
  \/ ReadBoot \/ ReadBootFails \/ Parse \/ ParseFails \/ CacheFat \/ CacheFatFails

Spec == Init /\ [][Next]_vars

-----------------------------------------------------------------------------
\* The bytes of the table up to the end of the entry of `cluster`, where
\* fat_entry looks it up: a u16 at c * 3 / 2 or at c * 2, a u32 at c * 4.
EntryEnd(variant, cluster) ==
  CASE variant = "Fat12" -> (cluster * 3) \div 2 + 2
    [] variant = "Fat16" -> cluster * 2 + 2
    [] variant \in {"Fat32", "ExFat"} -> cluster * 4 + 4

IsFat(g) == g.variant # "ExFat"

\* The FATs lie behind the boot sector, the root region of FAT12/16 between
\* them and the heap, with room for every root entry.
RegionsInOrder(g) ==
  LET fats_end_at == g.fat_start + g.num_fats * fat_bytes(g)
  IN  /\ g.fat_start >= g.bytes_per_sector
      /\ g.variant = "Fat32" => fats_end_at <= g.data_start
      /\ g.variant # "Fat32" =>
           /\ g.root_dir_start = fats_end_at
           /\ g.root_dir_start + g.root_dir_bytes = g.data_start
           /\ g.root_entry_count * 32 <= g.root_dir_bytes

\* In sectors: the last cluster ends inside the volume, and another one would
\* not fit.
HeapInVolume(g) ==
  LET heap_end == g.data_start \div g.bytes_per_sector
                    + g.count_of_clusters * g.sectors_per_cluster
  IN  /\ heap_end <= g.total_sectors
      /\ g.total_sectors - heap_end < g.sectors_per_cluster

\* Whatever the boot sector says, a FAT volume that opens has its regions one
\* behind the other inside its total sectors, and an exFAT volume its root
\* directory in the heap (boot.rs, Geometry::parse: "Fails loud ... on any
\* structurally invalid field"; the offsets of exFAT are not looked at).
LayoutFitsVolume ==
  geom # None =>
    IF IsFat(geom) THEN RegionsInOrder(geom) /\ HeapInVolume(geom)
    ELSE /\ geom.root_cluster >= 2
         /\ geom.root_cluster - 1 <= geom.count_of_clusters

IsWritten == written # NotWritten

\* What a formatter lays out is what open finds: on FAT12/16/32 on both sides of
\* the cluster counts that separate the variants and of the totals that separate
\* the 16-bit and 32-bit fields (boot.rs, Geometry::parse and read_fields), on
\* exFAT with clusters up to 32 MiB, and with gaps before and behind the heap
\* (exfat.rs, parse_boot).
WrittenVolumeIsRead ==
  /\ IsWritten => parsed # BootError
  /\ IsWritten /\ geom # None =>
       /\ geom.variant = written.variant
       /\ geom.count_of_clusters = written.clusters
       /\ geom.bytes_per_sector = written.bytes_per_sector
       /\ geom.sectors_per_cluster = written.sectors_per_cluster
       /\ geom.fat_size_sectors = FatSectors(written)
       /\ geom.fat_start = written.reserved_sectors * written.bytes_per_sector
       /\ geom.data_start = HeapAt(written) * written.bytes_per_sector
       /\ geom.total_sectors = TotalOf(written)
       /\ geom.variant \in {"Fat32", "ExFat"} =>
            geom.root_cluster = written.root_cluster
       /\ geom.variant \in {"Fat12", "Fat16"} =>
            geom.root_dir_start = RootAt(written) * written.bytes_per_sector

\* The cached bytes are FAT1, up to the entry of the last cluster unless the cap
\* or the end of the image comes first: no chain of a whole volume is cut short
\* for want of its entry (fs.rs, open; fat.rs, fat_entry).
EntriesCached ==
  pc = "ok" /\ IsWritten =>
    /\ fat.from = written.reserved_sectors * written.bytes_per_sector
    /\ \/ fat.len >= EntryEnd(written.variant, max_clusters - 1)
       \/ fat.len >= MAX_FAT_BYTES
       \/ fat.from + fat.len >= image_len
=============================================================================

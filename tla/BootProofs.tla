----------------------------- MODULE BootProofs -----------------------------
(***************************************************************************)
(* For every boot sector: the layout that is accepted fits its volume, and *)
(* none of its numbers is cut to the width of a u32.  For every layout     *)
(* that is Sound: it is what is read, and its FAT is cached as far as the  *)
(* cap and the image go.  And for every size of the word and every exFAT   *)
(* boot region: the checksum tells one changed byte from none.             *)
(***************************************************************************)
EXTENDS FatOpen, BootChecksum, TLAPS

LEMMA CeilCovers ==
  ASSUME NEW k \in Nat, NEW bps \in SectorSizes
  PROVE  /\ DivCeil(k, bps) \in Nat
         /\ k <= DivCeil(k, bps) * bps
         /\ DivCeil(k, bps) * bps < k + bps
<1>1. CASE bps = 512
  BY <1>1 DEF DivCeil
<1>2. CASE bps = 1024
  BY <1>2 DEF DivCeil
<1>3. CASE bps = 2048
  BY <1>3 DEF DivCeil
<1>4. CASE bps = 4096
  BY <1>4 DEF DivCeil
<1> QED
  BY <1>1, <1>2, <1>3, <1>4 DEF SectorSizes

\* Whole clusters of `spc` sectors in a run of k sectors.
LEMMA ClustersIn ==
  ASSUME NEW k \in Nat, NEW spc \in ClusterSizes
  PROVE  /\ k \div spc \in Nat /\ k \div spc <= k
         /\ (k \div spc) * spc <= k
         /\ k - (k \div spc) * spc < spc
BY DEF ClusterSizes

LEMMA SectorsToBytes ==
  ASSUME NEW k \in Nat, NEW bps \in SectorSizes
  PROVE  /\ k * bps \in Nat /\ (k * bps) \div bps = k
         /\ k >= 1 => k * bps >= bps
BY DEF SectorSizes

LEMMA Distributes ==
  ASSUME NEW j \in Nat, NEW k \in Nat, NEW fats \in Nat, NEW each \in Nat, NEW bps \in SectorSizes
  PROVE  /\ (j + k) * bps = j * bps + k * bps
         /\ fats * (each * bps) = (fats * each) * bps
BY DEF SectorSizes

\* Where `fats` FATs of `each` sectors behind k sectors end.
LEMMA FatsEndAt ==
  ASSUME NEW k \in Nat, NEW fats \in Nat, NEW each \in Nat, NEW bps \in SectorSizes
  PROVE  (k + fats * each) * bps = k * bps + fats * (each * bps)
<1>1. fats * each \in Nat
  OBVIOUS
<1>2. fats * (each * bps) = (fats * each) * bps
  BY Distributes
<1>3. \A j \in Nat : (k + j) * bps = k * bps + j * bps
  BY Distributes
<1>4. (k + fats * each) * bps = k * bps + (fats * each) * bps
  BY <1>1, <1>3
<1> QED
  BY <1>2, <1>4

\* The fields that pass read_fields.
LEMMA FieldsAreSane ==
  ASSUME NEW b \in Bpb, read_fields(b)
  PROVE  /\ b.bytes_per_sector \in SectorSizes /\ b.sectors_per_cluster \in ClusterSizes
         /\ b.reserved_sectors \in Nat /\ b.reserved_sectors >= 1
         /\ b.num_fats \in Nat /\ b.num_fats >= 1
         /\ b.root_entry_count \in Nat /\ b.root_entry_count <= 65535
         /\ fat_size_sectors(b) \in Nat /\ fat_size_sectors(b) >= 1
         /\ total_sectors(b) \in Nat /\ total_sectors(b) <= U32_MAX
         /\ fats_end(b) \in Nat
         /\ root_dir_sectors(b) \in Nat
         /\ b.num_fats * fat_size_sectors(b) \in Nat
<1>1. /\ b.bytes_per_sector \in SectorSizes /\ b.sectors_per_cluster \in ClusterSizes
  BY DEF read_fields
<1>2. /\ b.reserved_sectors \in Nat /\ b.reserved_sectors >= 1
      /\ b.num_fats \in Nat /\ b.num_fats >= 1
      /\ b.root_entry_count \in Nat /\ b.root_entry_count <= 65535
  BY DEF read_fields, Bpb, U8, U16
<1>3. /\ fat_size_sectors(b) \in Nat /\ fat_size_sectors(b) >= 1
      /\ total_sectors(b) \in Nat /\ total_sectors(b) <= U32_MAX
  BY GeometryAssumption DEF read_fields, Bpb, U16, U32, fat_size_sectors, total_sectors
<1>4. b.num_fats * fat_size_sectors(b) \in Nat
  BY <1>2, <1>3
<1>5. fats_end(b) \in Nat
  BY <1>2, <1>4 DEF fats_end
<1>6. root_dir_sectors(b) \in Nat
  BY <1>1, <1>2, CeilCovers DEF root_dir_sectors
<1> QED
  BY <1>1, <1>2, <1>3, <1>4, <1>5, <1>6

-----------------------------------------------------------------------------
\* What a boot sector parse accepts, and what it makes of it.
LEMMA Accepted ==
  ASSUME NEW b \in Bpb, parse(b) # BootError
  PROVE  /\ read_fields(b)
         /\ meta_sectors(b) <= total_sectors(b)
         /\ parse(b) = Layout(b, count_of_clusters(b),
                              variant_of(count_of_clusters(b)) = "Fat32")
<1>1. meta_sectors(b) \in Int /\ total_sectors(b) \in Int
  <2>1. CASE read_fields(b)
    BY <2>1, FieldsAreSane DEF meta_sectors
  <2>2. CASE ~read_fields(b)
    BY <2>2 DEF parse
  <2> QED
    BY <2>1, <2>2
<1> QED
  BY <1>1 DEF parse

\* The root region holds every root entry and less than a sector more, so its
\* bytes fit a u32; so does the number of clusters.
LEMMA NothingIsCut ==
  ASSUME NEW b \in Bpb, read_fields(b), meta_sectors(b) <= total_sectors(b)
  PROVE  /\ b.root_entry_count * 32 <= root_dir_sectors(b) * b.bytes_per_sector
         /\ root_dir_sectors(b) * b.bytes_per_sector <= U32_MAX
         /\ meta_sectors(b) \in Nat
         /\ (total_sectors(b) - meta_sectors(b)) \div b.sectors_per_cluster <= U32_MAX
<1>1. /\ b.root_entry_count \in Nat /\ b.root_entry_count <= 65535
      /\ b.bytes_per_sector \in SectorSizes /\ b.sectors_per_cluster \in ClusterSizes
      /\ fats_end(b) \in Nat /\ root_dir_sectors(b) \in Nat
      /\ total_sectors(b) \in Nat /\ total_sectors(b) <= U32_MAX
  BY FieldsAreSane
<1>2. b.root_entry_count * 32 \in Nat /\ b.root_entry_count * 32 <= 2097120
  BY <1>1
<1>3. /\ b.root_entry_count * 32 <= root_dir_sectors(b) * b.bytes_per_sector
      /\ root_dir_sectors(b) * b.bytes_per_sector
           < b.root_entry_count * 32 + b.bytes_per_sector
  BY <1>1, <1>2, CeilCovers DEF root_dir_sectors
<1>4. root_dir_sectors(b) * b.bytes_per_sector \in Nat /\ b.bytes_per_sector \in Nat
      /\ b.bytes_per_sector <= 4096
  BY <1>1, SectorsToBytes DEF SectorSizes
<1>5. root_dir_sectors(b) * b.bytes_per_sector <= U32_MAX
  BY <1>2, <1>3, <1>4, GeometryAssumption
<1>6. meta_sectors(b) \in Nat
  BY <1>1 DEF meta_sectors
<1>7. /\ total_sectors(b) - meta_sectors(b) \in Nat
      /\ total_sectors(b) - meta_sectors(b) <= U32_MAX
  BY <1>1, <1>6, GeometryAssumption
<1>8. (total_sectors(b) - meta_sectors(b)) \div b.sectors_per_cluster <= U32_MAX
  BY <1>1, <1>7, ClustersIn, GeometryAssumption
<1> QED
  BY <1>3, <1>5, <1>6, <1>8

\* The regions of an accepted layout, whether it is read as FAT32 or not.
LEMMA LayoutIsOrdered ==
  ASSUME NEW b \in Bpb, read_fields(b), meta_sectors(b) <= total_sectors(b),
         NEW count, NEW is32 \in BOOLEAN, is32 <=> variant_of(count) = "Fat32"
  PROVE  /\ IsFat(Layout(b, count, is32))
         /\ RegionsInOrder(Layout(b, count, is32))
<1> DEFINE g == Layout(b, count, is32)
           bps == b.bytes_per_sector
           fats == b.num_fats
           each == fat_size_sectors(b)
<1>1. /\ bps \in SectorSizes /\ fats \in Nat /\ each \in Nat
      /\ b.reserved_sectors \in Nat /\ b.reserved_sectors >= 1
      /\ fats * each \in Nat /\ fats_end(b) \in Nat /\ root_dir_sectors(b) \in Nat
      /\ b.root_entry_count \in Nat
  BY FieldsAreSane
<1>2. /\ g.variant = variant_of(count) /\ g.bytes_per_sector = bps
      /\ g.num_fats = fats /\ g.fat_size_sectors = each
      /\ g.fat_start = b.reserved_sectors * bps
      /\ g.data_start = meta_sectors(b) * bps
  BY DEF Layout
<1>3. g.variant # "Fat32" =>
        /\ g.root_dir_start = fats_end(b) * bps
        /\ g.root_dir_bytes = LesserOf(root_dir_sectors(b) * bps, U32_MAX)
        /\ g.root_entry_count = b.root_entry_count
  BY DEF Layout
<1>4. g.fat_start >= bps
  BY <1>1, <1>2, SectorsToBytes
<1>5. fats_end(b) = b.reserved_sectors + fats * each
  BY DEF fats_end
<1>6. g.fat_start + g.num_fats * fat_bytes(g) = fats_end(b) * bps
  <2> DEFINE k == b.reserved_sectors
             end == fats_end(b)
  <2>1. /\ k \in Nat /\ fats \in Nat /\ each \in Nat /\ bps \in SectorSizes
        /\ end = k + fats * each
    BY <1>1, <1>5
  <2>2. g.fat_start + g.num_fats * fat_bytes(g) = k * bps + fats * (each * bps)
    BY <1>2 DEF fat_bytes
  <2> HIDE DEF k, fats, each, bps, end
  <2>3. end * bps = k * bps + fats * (each * bps)
    BY <2>1, FatsEndAt
  <2> QED
    BY <2>2, <2>3 DEF end, bps
<1>7. /\ meta_sectors(b) * bps = fats_end(b) * bps + root_dir_sectors(b) * bps
      /\ fats_end(b) * bps \in Nat /\ root_dir_sectors(b) * bps \in Nat
  <2>1. (fats_end(b) + root_dir_sectors(b)) * bps
          = fats_end(b) * bps + root_dir_sectors(b) * bps
    BY <1>1, Distributes
  <2> QED
    BY <1>1, <2>1, SectorsToBytes DEF meta_sectors
<1>8. LesserOf(root_dir_sectors(b) * bps, U32_MAX) = root_dir_sectors(b) * bps
  BY NothingIsCut DEF LesserOf
<1>9. b.root_entry_count * 32 <= root_dir_sectors(b) * bps
  BY NothingIsCut
<1>10. RegionsInOrder(g)
  <2> DEFINE end == fats_end(b) * bps
             region == root_dir_sectors(b) * bps
  <2>0. /\ end \in Nat /\ region \in Nat
        /\ g.fat_start + g.num_fats * fat_bytes(g) = end /\ g.data_start = end + region
    BY <1>2, <1>6, <1>7
  <2> HIDE DEF end, region, g
  <2>1. g.variant = "Fat32" => g.fat_start + g.num_fats * fat_bytes(g) <= g.data_start
    BY <2>0
  <2> USE DEF end, region
  <2>2. g.variant # "Fat32" =>
          /\ g.root_dir_start = g.fat_start + g.num_fats * fat_bytes(g)
          /\ g.root_dir_start + g.root_dir_bytes = g.data_start
          /\ g.root_entry_count * 32 <= g.root_dir_bytes
    BY <1>2, <1>3, <1>6, <1>7, <1>8, <1>9
  <2> QED
    BY <1>2, <1>4, <2>1, <2>2 DEF RegionsInOrder
<1>11. IsFat(g)
  BY <1>2 DEF IsFat, variant_of
<1> QED
  BY <1>10, <1>11

\* The clusters of an accepted layout fill its volume.
LEMMA HeapFits ==
  ASSUME NEW b \in Bpb, read_fields(b), meta_sectors(b) <= total_sectors(b),
         NEW is32 \in BOOLEAN
  PROVE  HeapInVolume(Layout(b, count_of_clusters(b), is32))
<1> DEFINE g == Layout(b, count_of_clusters(b), is32)
           spc == b.sectors_per_cluster
           left == total_sectors(b) - meta_sectors(b)
<1>1. /\ b.bytes_per_sector \in SectorSizes /\ spc \in ClusterSizes
      /\ total_sectors(b) \in Nat
  BY FieldsAreSane
<1>2. meta_sectors(b) \in Nat /\ left \in Nat
  BY <1>1, NothingIsCut
<1>3. count_of_clusters(b) = left \div spc
  BY NothingIsCut DEF count_of_clusters, LesserOf
<1>4. /\ left \div spc \in Nat /\ (left \div spc) * spc <= left
      /\ left - (left \div spc) * spc < spc
  BY <1>1, <1>2, ClustersIn
<1>5. /\ g.data_start = meta_sectors(b) * b.bytes_per_sector
      /\ g.bytes_per_sector = b.bytes_per_sector
      /\ g.count_of_clusters = left \div spc
      /\ g.sectors_per_cluster = spc /\ g.total_sectors = total_sectors(b)
  BY <1>3 DEF Layout
<1>6. g.data_start \div g.bytes_per_sector = meta_sectors(b)
  BY <1>1, <1>2, <1>5, SectorsToBytes
<1>7. spc \in Nat /\ (left \div spc) * spc \in Nat
  <2>1. spc \in Nat
    BY <1>1 DEF ClusterSizes
  <2> QED
    BY <2>1, <1>4
<1>8. /\ meta_sectors(b) + (left \div spc) * spc <= total_sectors(b)
      /\ total_sectors(b) - (meta_sectors(b) + (left \div spc) * spc) < spc
  <2> DEFINE used == (left \div spc) * spc
  <2>1. used \in Nat /\ used <= left /\ left - used < spc
    BY <1>4, <1>7
  <2> HIDE DEF used
  <2>2. meta_sectors(b) + used <= total_sectors(b)
        /\ total_sectors(b) - (meta_sectors(b) + used) < spc
    BY <1>1, <1>2, <1>7, <2>1
  <2> QED
    BY <2>2 DEF used
<1> QED
  BY <1>5, <1>6, <1>8 DEF HeapInVolume

LEMMA FatLayoutFits ==
  ASSUME NEW b \in Bpb, parse(b) # BootError
  PROVE  IsFat(parse(b)) /\ RegionsInOrder(parse(b)) /\ HeapInVolume(parse(b))
<1> DEFINE count == count_of_clusters(b)
           is32 == variant_of(count) = "Fat32"
<1>1. /\ read_fields(b) /\ meta_sectors(b) <= total_sectors(b)
      /\ parse(b) = Layout(b, count, is32)
  BY Accepted
<1>2. is32 \in BOOLEAN
  OBVIOUS
<1>3. IsFat(Layout(b, count, is32)) /\ RegionsInOrder(Layout(b, count, is32))
  BY <1>1, <1>2, LayoutIsOrdered
<1>4. HeapInVolume(Layout(b, count, is32))
  BY <1>1, <1>2, HeapFits
<1> QED
  BY <1>1, <1>3, <1>4

-----------------------------------------------------------------------------
\* What the formatter's numbers are.

LEMMA Powers ==
  /\ 2 ^ 0 = 1 /\ 2 ^ 1 = 2 /\ 2 ^ 2 = 4 /\ 2 ^ 3 = 8 /\ 2 ^ 4 = 16 /\ 2 ^ 5 = 32
  /\ 2 ^ 6 = 64 /\ 2 ^ 7 = 128 /\ 2 ^ 8 = 256 /\ 2 ^ 9 = 512 /\ 2 ^ 10 = 1024
  /\ 2 ^ 11 = 2048 /\ 2 ^ 12 = 4096 /\ 2 ^ 13 = 8192 /\ 2 ^ 14 = 16384
  /\ 2 ^ 15 = 32768 /\ 2 ^ 16 = 65536
OBVIOUS

\* The shift of a size, and the size by its shift.
LEMMA LogIsShift ==
  ASSUME NEW x \in { 2 ^ k : k \in 0 .. 16 }
  PROVE  /\ Log2(x) \in 0 .. 16 /\ 2 ^ Log2(x) = x
         /\ x \in Nat /\ x >= 1
         /\ Log2(x) = 13 => x = 8192
         /\ Log2(x) = 14 => x = 16384
         /\ Log2(x) = 15 => x = 32768
         /\ Log2(x) = 16 => x = 65536
<1>1. \E k \in 0 .. 16 : 2 ^ k = x
  BY Zenon
<1>2. Log2(x) \in 0 .. 16 /\ 2 ^ Log2(x) = x
  BY <1>1, Zenon DEF Log2
<1> DEFINE l == Log2(x)
<1> HIDE DEF l
<1>3. l \in 0 .. 16 /\ 2 ^ l = x
  BY <1>2 DEF l
<1>4. /\ (l = 0 => x = 2 ^ 0) /\ (l = 1 => x = 2 ^ 1) /\ (l = 2 => x = 2 ^ 2)
      /\ (l = 3 => x = 2 ^ 3) /\ (l = 4 => x = 2 ^ 4) /\ (l = 5 => x = 2 ^ 5)
      /\ (l = 6 => x = 2 ^ 6) /\ (l = 7 => x = 2 ^ 7) /\ (l = 8 => x = 2 ^ 8)
      /\ (l = 9 => x = 2 ^ 9) /\ (l = 10 => x = 2 ^ 10) /\ (l = 11 => x = 2 ^ 11)
      /\ (l = 12 => x = 2 ^ 12) /\ (l = 13 => x = 2 ^ 13) /\ (l = 14 => x = 2 ^ 14)
      /\ (l = 15 => x = 2 ^ 15) /\ (l = 16 => x = 2 ^ 16)
  BY <1>3, Zenon
<1>5. /\ (l = 0 => x = 1) /\ (l = 1 => x = 2) /\ (l = 2 => x = 4)
      /\ (l = 3 => x = 8) /\ (l = 4 => x = 16) /\ (l = 5 => x = 32)
      /\ (l = 6 => x = 64) /\ (l = 7 => x = 128) /\ (l = 8 => x = 256)
      /\ (l = 9 => x = 512) /\ (l = 10 => x = 1024) /\ (l = 11 => x = 2048)
      /\ (l = 12 => x = 4096) /\ (l = 13 => x = 8192) /\ (l = 14 => x = 16384)
      /\ (l = 15 => x = 32768) /\ (l = 16 => x = 65536)
  BY <1>4
<1>6. x \in Nat /\ x >= 1
  <2>1. l \in 0 .. 16
    BY <1>3
  <2> QED
    BY <1>5, <2>1
<1> QED
  BY <1>2, <1>5, <1>6 DEF l

\* The sizes of a sector have the shifts of the range parse_boot lets through.
LEMMA SectorLog ==
  ASSUME NEW x \in SectorSizes
  PROVE  /\ Log2(x) \in 9 .. 12 /\ 2 ^ Log2(x) = x
         /\ Log2(x) = 10 => x = 1024
         /\ Log2(x) = 11 => x = 2048
         /\ Log2(x) = 12 => x = 4096
<1> DEFINE l == Log2(x)
<1>1. x \in { 2 ^ k : k \in 0 .. 16 }
  <2>1. x = 2 ^ 9 \/ x = 2 ^ 10 \/ x = 2 ^ 11 \/ x = 2 ^ 12
    BY DEF SectorSizes
  <2>2. 9 \in 0 .. 16 /\ 10 \in 0 .. 16 /\ 11 \in 0 .. 16 /\ 12 \in 0 .. 16
    OBVIOUS
  <2> QED
    BY <2>1, <2>2, Zenon
<1>2. l \in 0 .. 16 /\ 2 ^ l = x
  BY <1>1, LogIsShift
<1> HIDE DEF l
<1>3. /\ (l = 0 => x = 2 ^ 0) /\ (l = 1 => x = 2 ^ 1) /\ (l = 2 => x = 2 ^ 2)
      /\ (l = 3 => x = 2 ^ 3) /\ (l = 4 => x = 2 ^ 4) /\ (l = 5 => x = 2 ^ 5)
      /\ (l = 6 => x = 2 ^ 6) /\ (l = 7 => x = 2 ^ 7) /\ (l = 8 => x = 2 ^ 8)
      /\ (l = 10 => x = 2 ^ 10) /\ (l = 11 => x = 2 ^ 11) /\ (l = 12 => x = 2 ^ 12)
      /\ (l = 13 => x = 2 ^ 13) /\ (l = 14 => x = 2 ^ 14) /\ (l = 15 => x = 2 ^ 15)
      /\ (l = 16 => x = 2 ^ 16)
  BY <1>2, Zenon
<1>4. /\ (l = 0 => x = 1) /\ (l = 1 => x = 2) /\ (l = 2 => x = 4)
      /\ (l = 3 => x = 8) /\ (l = 4 => x = 16) /\ (l = 5 => x = 32)
      /\ (l = 6 => x = 64) /\ (l = 7 => x = 128) /\ (l = 8 => x = 256)
      /\ (l = 10 => x = 1024) /\ (l = 11 => x = 2048) /\ (l = 12 => x = 4096)
      /\ (l = 13 => x = 8192) /\ (l = 14 => x = 16384) /\ (l = 15 => x = 32768)
      /\ (l = 16 => x = 65536)
  BY <1>3
<1>5. l \in 9 .. 12
  <2>1. l \in 0 .. 16
    BY <1>2
  <2> QED
    BY <1>4, <2>1 DEF SectorSizes
<1> QED
  BY <1>2, <1>4, <1>5 DEF l

\* Sizes within 32 MiB have shifts that parse_boot accepts together.
LEMMA ShiftsFit ==
  ASSUME NEW bps \in SectorSizes, NEW spc \in { 2 ^ k : k \in 0 .. 16 },
         bps * spc <= MaxClusterBytes
  PROVE  Log2(bps) + Log2(spc) <= 25
<1> DEFINE i_bps == Log2(bps)
           i_spc == Log2(spc)
<1>1. /\ i_bps \in 9 .. 12
      /\ i_bps = 10 => bps = 1024
      /\ i_bps = 11 => bps = 2048
      /\ i_bps = 12 => bps = 4096
  BY SectorLog
<1>2. /\ i_spc \in 0 .. 16
      /\ i_spc = 14 => spc = 16384
      /\ i_spc = 15 => spc = 32768
      /\ i_spc = 16 => spc = 65536
  BY LogIsShift
<1> HIDE DEF i_bps, i_spc
<1> SUFFICES ASSUME i_bps + i_spc > 25
             PROVE  FALSE
  BY <1>1, <1>2 DEF i_bps, i_spc
<1>3. \/ i_bps = 10 /\ i_spc = 16
      \/ i_bps = 11 /\ (i_spc = 15 \/ i_spc = 16)
      \/ i_bps = 12 /\ (i_spc = 14 \/ i_spc = 15 \/ i_spc = 16)
  BY <1>1, <1>2
<1> QED
  BY <1>1, <1>2, <1>3 DEF MaxClusterBytes

\* The table holds the entry of every cluster, where fat_entry looks it up.
LEMMA TableHoldsEntries ==
  ASSUME NEW variant \in {"Fat12", "Fat16", "Fat32", "ExFat"}, NEW x \in Nat
  PROVE  /\ TableBytes(variant, x) \in Nat /\ TableBytes(variant, x) >= 1
         /\ EntryEnd(variant, x + 1) <= TableBytes(variant, x)
<1>1. CASE variant = "Fat12"
  <2>1. TableBytes(variant, x) = ((x + 2) * 3 + 2 - 1) \div 2
    BY <1>1 DEF TableBytes, DivCeil
  <2>2. EntryEnd(variant, x + 1) = ((x + 1) * 3) \div 2 + 2
    BY <1>1 DEF EntryEnd
  <2> QED
    BY <2>1, <2>2
<1>2. CASE variant = "Fat16"
  BY <1>2 DEF TableBytes, EntryEnd
<1>3. CASE variant \in {"Fat32", "ExFat"}
  BY <1>3 DEF TableBytes, EntryEnd
<1> QED
  BY <1>1, <1>2, <1>3

LEMMA WrittenFields ==
  ASSUME NEW w \in Written
  PROVE  /\ w.variant \in {"Fat12", "Fat16", "Fat32", "ExFat"} /\ w.wide \in BOOLEAN
         /\ w.bytes_per_sector \in SectorSizes
         /\ w.sectors_per_cluster \in { 2 ^ k : k \in 0 .. 16 }
         /\ w.sectors_per_cluster \in Nat /\ w.sectors_per_cluster >= 1
         /\ w.reserved_sectors \in Nat /\ w.reserved_sectors >= 1
         /\ w.num_fats \in Nat /\ w.num_fats >= 1 /\ w.num_fats \in U8
         /\ w.root_entry_count \in Nat /\ w.root_entry_count \in U16
         /\ w.root_cluster \in U32
         /\ w.clusters \in Nat /\ w.clusters >= 1 /\ w.clusters \in U32
         /\ w.fat_slack \in Nat /\ w.gap \in Nat /\ w.spare \in Nat
<1>1. w.sectors_per_cluster \in { 2 ^ k : k \in 0 .. 16 }
  BY Zenon DEF Written
<1>2. w.sectors_per_cluster \in Nat /\ w.sectors_per_cluster >= 1
  BY <1>1, LogIsShift
<1>3. w.variant \in {"Fat12", "Fat16", "Fat32", "ExFat"} /\ w.wide \in BOOLEAN
  BY DEF Written
<1>4. /\ w.bytes_per_sector \in SectorSizes
      /\ w.reserved_sectors \in U32 \ {0} /\ w.num_fats \in U8 \ {0}
      /\ w.root_entry_count \in U16 /\ w.root_cluster \in U32
      /\ w.clusters \in U32 \ {0}
      /\ w.fat_slack \in Nat /\ w.gap \in Nat /\ w.spare \in Nat
  BY DEF Written
<1> QED
  BY <1>1, <1>2, <1>3, <1>4 DEF U8, U16, U32

LEMMA FatSectorsHoldTable ==
  ASSUME NEW w \in Written
  PROVE  /\ FatSectors(w) \in Nat /\ FatSectors(w) >= 1
         /\ TableBytes(w.variant, w.clusters) <= FatSectors(w) * w.bytes_per_sector
<1> DEFINE bps == w.bytes_per_sector
           table == TableBytes(w.variant, w.clusters)
           whole == DivCeil(table, bps)
<1>1. bps \in SectorSizes /\ table \in Nat /\ table >= 1 /\ w.fat_slack \in Nat
  BY WrittenFields, TableHoldsEntries
<1>2. whole \in Nat /\ table <= whole * bps
  BY <1>1, CeilCovers
<1>3. FatSectors(w) = whole + w.fat_slack
  BY DEF FatSectors
<1>4. \A x, j \in Nat, l \in SectorSizes :
        /\ x * l <= (x + j) * l /\ x * l \in Nat /\ (x + j) * l \in Nat
        /\ x * l >= 1 => x + j >= 1
  BY DEF SectorSizes
<1> HIDE DEF bps, table, whole
<1>5. /\ whole * bps <= (whole + w.fat_slack) * bps
      /\ whole * bps \in Nat /\ (whole + w.fat_slack) * bps \in Nat
      /\ whole * bps >= 1 => whole + w.fat_slack >= 1
  BY <1>1, <1>2, <1>4, Zenon
<1>6. whole + w.fat_slack \in Nat /\ whole + w.fat_slack >= 1
      /\ table <= (whole + w.fat_slack) * bps
  BY <1>1, <1>2, <1>5
<1> QED
  BY <1>3, <1>6 DEF bps, table

LEMMA RootRegion ==
  ASSUME NEW w \in Written
  PROVE  DivCeil(w.root_entry_count * 32, w.bytes_per_sector) \in Nat
<1>1. w.root_entry_count * 32 \in Nat /\ w.bytes_per_sector \in SectorSizes
  BY WrittenFields
<1> QED
  BY <1>1, CeilCovers

LEMMA WrittenNumbers ==
  ASSUME NEW w \in Written
  PROVE  /\ RootAt(w) \in Nat /\ HeapAt(w) \in Nat /\ TotalOf(w) \in Nat
         /\ FatSectors(w) <= RootAt(w) /\ RootAt(w) <= HeapAt(w)
         /\ HeapAt(w) <= TotalOf(w)
         /\ TotalOf(w) - HeapAt(w) = w.clusters * w.sectors_per_cluster + w.spare
         /\ w.clusters * w.sectors_per_cluster \in Nat
<1>1. /\ w.reserved_sectors \in Nat /\ w.num_fats \in Nat /\ w.num_fats >= 1
      /\ w.clusters \in Nat /\ w.sectors_per_cluster \in Nat /\ w.spare \in Nat
      /\ w.gap \in Nat
      /\ w.root_entry_count \in Nat /\ w.bytes_per_sector \in SectorSizes
  BY WrittenFields
<1>2. FatSectors(w) \in Nat
  BY FatSectorsHoldTable
<1>3. /\ w.num_fats * FatSectors(w) \in Nat
      /\ FatSectors(w) <= w.num_fats * FatSectors(w)
  <2>1. ASSUME NEW x \in Nat, NEW j \in Nat, x >= 1
        PROVE  x * j \in Nat /\ j <= x * j
    BY <2>1
  <2> QED
    BY <1>1, <1>2, <2>1
<1>4. RootAt(w) \in Nat /\ FatSectors(w) <= RootAt(w)
  BY <1>1, <1>2, <1>3 DEF RootAt
<1>5. DivCeil(w.root_entry_count * 32, w.bytes_per_sector) \in Nat
  BY RootRegion
<1>6. HeapAt(w) \in Nat /\ RootAt(w) <= HeapAt(w)
  BY <1>1, <1>4, <1>5 DEF HeapAt
<1>7. w.clusters * w.sectors_per_cluster \in Nat
  BY <1>1
<1> QED
  BY <1>1, <1>4, <1>6, <1>7 DEF TotalOf

\* Whole clusters and less than one more are counted as what they are.
LEMMA CountIsExact ==
  ASSUME NEW x \in Nat, NEW spc \in ClusterSizes, NEW spare \in Nat, spare < spc
  PROVE  (x * spc + spare) \div spc = x
BY DEF ClusterSizes

\* The BIOS Parameter Block of a layout FAT12/16/32 can have.
LEMMA WrittenBpb ==
  ASSUME NEW w \in Written, Sound(w), w.variant # "ExFat", NEW other \in {0, 41}
  PROVE  /\ WriteBpb(w, other) \in Bpb
         /\ fat_size_sectors(WriteBpb(w, other)) = FatSectors(w)
         /\ total_sectors(WriteBpb(w, other)) = TotalOf(w)
         /\ read_fields(WriteBpb(w, other))
<1> DEFINE b == WriteBpb(w, other)
           each == FatSectors(w)
           total == TotalOf(w)
<1>1. /\ w.wide \in BOOLEAN /\ w.bytes_per_sector \in SectorSizes
      /\ w.sectors_per_cluster \in ClusterSizes
      /\ w.reserved_sectors \in U16 /\ w.reserved_sectors # 0
      /\ w.num_fats \in U8 /\ w.num_fats # 0 /\ w.root_entry_count \in U16
      /\ w.root_cluster \in U32
  BY WrittenFields DEF Sound, SoundFat
<1>2. /\ each \in Nat /\ each >= 1 /\ total \in Nat /\ each <= total /\ total <= U32_MAX
      /\ w.variant # "Fat32" => each <= 65535
  <2>1. /\ each <= RootAt(w) /\ RootAt(w) <= HeapAt(w) /\ HeapAt(w) <= total
        /\ RootAt(w) \in Nat /\ HeapAt(w) \in Nat /\ total \in Nat
    BY WrittenNumbers
  <2>2. each \in Nat /\ each >= 1
    BY FatSectorsHoldTable
  <2>3. total <= U32_MAX /\ (w.variant # "Fat32" => each <= 65535)
    BY DEF Sound, SoundFat
  <2> HIDE DEF each, total
  <2> QED
    BY <2>1, <2>2, <2>3
<1>3. /\ b.sig_ok = TRUE /\ b.bytes_per_sector = w.bytes_per_sector
      /\ b.sectors_per_cluster = w.sectors_per_cluster
      /\ b.reserved_sectors = w.reserved_sectors /\ b.num_fats = w.num_fats
      /\ b.root_entry_count = w.root_entry_count
  BY DEF WriteBpb
<1>4. /\ b.total_sectors_16 = (IF w.wide \/ total > 65535 THEN 0 ELSE total)
      /\ b.total_sectors_32 = (IF w.wide \/ total > 65535 THEN total ELSE 0)
      /\ b.fat_size_16 = (IF w.variant = "Fat32" THEN 0 ELSE each)
      /\ b.fat_size_32 = (IF w.variant = "Fat32" THEN each ELSE other)
      /\ b.root_cluster = (IF w.variant = "Fat32" THEN w.root_cluster ELSE other)
  BY DEF WriteBpb
<1>5. b \in Bpb
  <2>1. {0, 41} \subseteq U32 /\ 0 \in U16
    BY GeometryAssumption DEF U16, U32
  <2>2. /\ b.total_sectors_16 \in U16 /\ b.total_sectors_32 \in U32
        /\ b.fat_size_16 \in U16 /\ b.fat_size_32 \in U32 /\ b.root_cluster \in U32
    <3> HIDE DEF b, each, total
    <3> QED
      BY <1>1, <1>2, <1>4, <2>1, GeometryAssumption DEF U16, U32
  <2>3. w.bytes_per_sector \in U16 /\ w.sectors_per_cluster \in U8
    BY <1>1 DEF SectorSizes, ClusterSizes, U16, U8
  <2>4. b = [sig_ok |-> b.sig_ok, bytes_per_sector |-> b.bytes_per_sector,
             sectors_per_cluster |-> b.sectors_per_cluster,
             reserved_sectors |-> b.reserved_sectors, num_fats |-> b.num_fats,
             root_entry_count |-> b.root_entry_count,
             total_sectors_16 |-> b.total_sectors_16, fat_size_16 |-> b.fat_size_16,
             total_sectors_32 |-> b.total_sectors_32, fat_size_32 |-> b.fat_size_32,
             root_cluster |-> b.root_cluster]
    BY DEF WriteBpb
  <2>5. /\ b.sig_ok \in BOOLEAN /\ b.bytes_per_sector \in U16
        /\ b.sectors_per_cluster \in U8 /\ b.reserved_sectors \in U16
        /\ b.num_fats \in U8 /\ b.root_entry_count \in U16
    <3> HIDE DEF b
    <3>1. b.sig_ok \in BOOLEAN
      BY <1>3, Zenon
    <3>2. /\ b.bytes_per_sector \in U16 /\ b.sectors_per_cluster \in U8
          /\ b.reserved_sectors \in U16 /\ b.num_fats \in U8
          /\ b.root_entry_count \in U16
      BY <1>1, <1>3, <2>3, Zenon
    <3> QED
      BY <3>1, <3>2, Zenon
  <2> HIDE DEF b
  <2> QED
    BY <2>2, <2>4, <2>5 DEF Bpb
<1>6. fat_size_sectors(b) = each /\ total_sectors(b) = total
  <2> HIDE DEF b, each, total
  <2> QED
    BY <1>1, <1>2, <1>4 DEF fat_size_sectors, total_sectors
<1>7. read_fields(b)
  <2> HIDE DEF b, each, total
  <2>1. each # 0 /\ total # 0
    BY <1>2
  <2> QED
    BY <1>1, <1>3, <1>6, <2>1 DEF read_fields
<1> QED
  BY <1>5, <1>6, <1>7

\* What is read back from it.
LEMMA FatIsRead ==
  ASSUME NEW w \in Written, Sound(w), w.variant # "ExFat", NEW other \in {0, 41}
  PROVE  LET b == WriteBpb(w, other)
         IN  /\ parse(b) = Layout(b, w.clusters, w.variant = "Fat32")
             /\ fats_end(b) = RootAt(w) /\ meta_sectors(b) = HeapAt(w)
<1> DEFINE b == WriteBpb(w, other)
           spc == w.sectors_per_cluster
<1>1. b \in Bpb /\ read_fields(b) /\ total_sectors(b) = TotalOf(w)
  BY WrittenBpb
<1>2. fats_end(b) = RootAt(w) /\ meta_sectors(b) = HeapAt(w)
  <2>1. /\ b.reserved_sectors = w.reserved_sectors /\ b.num_fats = w.num_fats
        /\ b.root_entry_count = w.root_entry_count
        /\ b.bytes_per_sector = w.bytes_per_sector
    BY DEF WriteBpb
  <2>2. fat_size_sectors(b) = FatSectors(w)
    BY WrittenBpb
  <2>3. w.gap = 0
    BY DEF Sound, SoundFat
  <2>4. HeapAt(w) \in Nat /\ RootAt(w) \in Nat
        /\ DivCeil(w.root_entry_count * 32, w.bytes_per_sector) \in Int
    BY WrittenNumbers, RootRegion
  <2> HIDE DEF b
  <2> QED
    BY <2>1, <2>2, <2>3, <2>4 DEF fats_end, meta_sectors, root_dir_sectors, RootAt, HeapAt
<1>3. /\ HeapAt(w) \in Nat /\ TotalOf(w) \in Nat /\ HeapAt(w) <= TotalOf(w)
      /\ TotalOf(w) - HeapAt(w) = w.clusters * spc + w.spare
  BY WrittenNumbers
<1>4. w.spare < spc /\ w.variant = variant_of(w.clusters) /\ b.sectors_per_cluster = spc
  BY DEF Sound, SoundFat, WriteBpb
<1>5. w.clusters \in Nat /\ w.clusters <= U32_MAX /\ w.spare \in Nat /\ spc \in ClusterSizes
  BY WrittenFields DEF U32, Sound, SoundFat
<1>6. (TotalOf(w) - HeapAt(w)) \div spc = w.clusters
  <2>1. (w.clusters * spc + w.spare) \div spc = w.clusters
    BY <1>4, <1>5, CountIsExact
  <2> QED
    BY <1>3, <2>1
<1>7. count_of_clusters(b) = w.clusters
  <2> HIDE DEF b, spc
  <2> QED
    BY <1>1, <1>2, <1>4, <1>5, <1>6 DEF count_of_clusters, LesserOf
<1>8. ~(meta_sectors(b) > total_sectors(b))
  <2> HIDE DEF b
  <2> QED
    BY <1>1, <1>2, <1>3
<1>9. parse(b) = Layout(b, w.clusters, w.variant = "Fat32")
  <2> HIDE DEF b
  <2> QED
    BY <1>1, <1>4, <1>7, <1>8 DEF parse
<1> QED
  BY <1>2, <1>9

\* exFAT: the shifts of the sizes, and a root in the heap.
LEMMA ExfatIsRead ==
  ASSUME NEW w \in Written, Sound(w), w.variant = "ExFat"
  PROVE  LET g == parse_boot(WriteMain(w))
         IN  /\ valid_main(WriteMain(w))
             /\ g.variant = "ExFat" /\ g.count_of_clusters = w.clusters
             /\ g.bytes_per_sector = w.bytes_per_sector
             /\ g.sectors_per_cluster = w.sectors_per_cluster
             /\ g.fat_size_sectors = FatSectors(w)
             /\ g.fat_start = w.reserved_sectors * w.bytes_per_sector
             /\ g.data_start = HeapAt(w) * w.bytes_per_sector
             /\ g.total_sectors = TotalOf(w) /\ g.root_cluster = w.root_cluster
<1> DEFINE b == WriteMain(w)
           bps_log == Log2(w.bytes_per_sector)
           spc_log == Log2(w.sectors_per_cluster)
<1>1. /\ bps_log \in 9 .. 12 /\ 2 ^ bps_log = w.bytes_per_sector
      /\ spc_log \in 0 .. 16 /\ 2 ^ spc_log = w.sectors_per_cluster
      /\ bps_log + spc_log <= 25
  <2>1. /\ w.bytes_per_sector \in SectorSizes
        /\ w.sectors_per_cluster \in { 2 ^ k : k \in 0 .. 16 }
        /\ w.bytes_per_sector * w.sectors_per_cluster <= MaxClusterBytes
    BY WrittenFields DEF Sound, SoundExfat
  <2> QED
    BY <2>1, SectorLog, LogIsShift, ShiftsFit
<1>2. /\ b.sig_ok = TRUE /\ b.bps_shift = bps_log /\ b.spc_shift = spc_log
      /\ b.num_fats = w.num_fats /\ b.root_cluster = w.root_cluster
      /\ b.count_of_clusters = w.clusters /\ b.fat_offset = w.reserved_sectors
      /\ b.fat_length = FatSectors(w) /\ b.cluster_heap_offset = HeapAt(w)
      /\ b.volume_length = TotalOf(w)
  BY DEF WriteMain
<1>3. /\ w.num_fats \in 1 .. 2
      /\ w.root_cluster \in 2 .. w.clusters + 1 /\ w.root_cluster <= U32_MAX
      /\ w.clusters \in Nat
  BY WrittenFields DEF Sound, SoundExfat, U32
<1>4. valid_main(b)
  <2>1. b.root_cluster \in 2 .. last_cluster(b)
    <3> HIDE DEF b
    <3> QED
      BY <1>2, <1>3, GeometryAssumption DEF last_cluster, LesserOf
  <2>2. b.bps_shift \in 9 .. 12 /\ b.bps_shift + b.spc_shift <= 25
    <3> HIDE DEF b, bps_log, spc_log
    <3> QED
      BY <1>1, <1>2
  <2> HIDE DEF b
  <2> QED
    BY <1>2, <1>3, <2>1, <2>2 DEF valid_main
<1>5. 2 ^ b.bps_shift = w.bytes_per_sector /\ 2 ^ b.spc_shift = w.sectors_per_cluster
  <2> HIDE DEF b, bps_log, spc_log
  <2> QED
    BY <1>1, <1>2, Zenon
<1>6. LET g == parse_boot(b)
      IN  /\ g.variant = "ExFat" /\ g.count_of_clusters = b.count_of_clusters
          /\ g.bytes_per_sector = 2 ^ b.bps_shift
          /\ g.sectors_per_cluster = 2 ^ b.spc_shift
          /\ g.fat_size_sectors = b.fat_length
          /\ g.fat_start = b.fat_offset * 2 ^ b.bps_shift
          /\ g.data_start = b.cluster_heap_offset * 2 ^ b.bps_shift
          /\ g.total_sectors = b.volume_length /\ g.root_cluster = b.root_cluster
  <2> HIDE DEF b
  <2> QED
    BY <1>4 DEF parse_boot
<1> HIDE DEF b
<1>7. LET g == parse_boot(b)
      IN  /\ valid_main(b)
          /\ g.variant = "ExFat" /\ g.count_of_clusters = w.clusters
          /\ g.bytes_per_sector = w.bytes_per_sector
          /\ g.sectors_per_cluster = w.sectors_per_cluster
          /\ g.fat_size_sectors = FatSectors(w)
          /\ g.fat_start = w.reserved_sectors * w.bytes_per_sector
          /\ g.data_start = HeapAt(w) * w.bytes_per_sector
          /\ g.total_sectors = TotalOf(w) /\ g.root_cluster = w.root_cluster
  BY <1>2, <1>4, <1>5, <1>6, Zenon
<1> QED
  BY <1>7 DEF b

\* A layout is no error.
LEMMA LayoutIsNoError ==
  \A b, count, is32 : Layout(b, count, is32) # BootError
<1>1. \A b, count, is32 : "variant" \in DOMAIN Layout(b, count, is32)
  BY DEF Layout
<1>2. "variant" \notin DOMAIN BootError
  BY DEF BootError
<1> QED
  BY <1>1, <1>2, Zenon

-----------------------------------------------------------------------------
\* The image carries a boot sector of Boots or one that was written.
BootIsOne ==
  \/ written = NotWritten /\ boot \in Boots
  \/ \E w \in Volumes, other \in {0, 41} : written = w /\ boot = WriteBoot(w, other)

\* What open has found is what the boot sector says, and the cache is what was
\* read from where that says.
IInv ==
  /\ BootIsOne
  /\ IsWritten => image_len \in Int
  /\ geom # None \/ pc \in {"fat", "ok"} => geom = parsed /\ parsed # BootError
  /\ pc = "ok" =>
       /\ fat = read_upto(geom.fat_start, LesserOf(fat_bytes(geom), MAX_FAT_BYTES))
       /\ max_clusters = geom.count_of_clusters + 2

LEMMA ExfatRootInHeap ==
  ASSUME NEW b, b.count_of_clusters \in Nat, parse_boot(b) # BootError
  PROVE  /\ ~IsFat(parse_boot(b))
         /\ parse_boot(b).root_cluster >= 2
         /\ parse_boot(b).root_cluster - 1 <= parse_boot(b).count_of_clusters
<1>1. b.root_cluster \in 2 .. last_cluster(b)
  BY DEF parse_boot, valid_main
<1>2. /\ parse_boot(b).variant = "ExFat"
      /\ parse_boot(b).root_cluster = b.root_cluster
      /\ parse_boot(b).count_of_clusters = b.count_of_clusters
  BY DEF parse_boot
<1>3. b.root_cluster \in Int /\ b.root_cluster >= 2
      /\ b.root_cluster - 1 <= b.count_of_clusters
  BY <1>1, GeometryAssumption DEF last_cluster, LesserOf
<1> QED
  BY <1>2, <1>3 DEF IsFat

\* Every boot sector an image carries is of its kind.
LEMMA BootIsSane ==
  ASSUME BootIsOne
  PROVE  \/ boot.exfat /\ boot.fields.count_of_clusters \in Nat
         \/ ~boot.exfat /\ boot.fields \in Bpb
<1>1. CASE boot \in Boots
  <2>1. CASE ~boot.exfat /\ boot.fields \in Bpb
    BY <2>1
  <2>2. CASE boot.exfat /\ boot.fields \in MainBoot
    BY <2>2 DEF MainBoot, U32
  <2> QED
    BY <1>1, <2>1, <2>2, OpenAssumption
<1>2. ASSUME NEW w \in Volumes, NEW other \in {0, 41}, boot = WriteBoot(w, other)
      PROVE  \/ boot.exfat /\ boot.fields.count_of_clusters \in Nat
             \/ ~boot.exfat /\ boot.fields \in Bpb
  <2>1. w \in Written /\ Sound(w)
    BY OpenAssumption
  <2>2. CASE w.variant = "ExFat"
    <3>1. boot.exfat /\ boot.fields.count_of_clusters = w.clusters
      BY <1>2, <2>2 DEF WriteBoot, WriteMain
    <3> QED
      BY <2>1, <3>1, WrittenFields
  <2>3. CASE w.variant # "ExFat"
    <3>1. ~boot.exfat /\ boot.fields = WriteBpb(w, other)
      BY <1>2, <2>3 DEF WriteBoot
    <3> QED
      BY <2>1, <2>3, <3>1, WrittenBpb
  <2> QED
    BY <2>2, <2>3
<1> QED
  BY <1>1, <1>2 DEF BootIsOne

LEMMA ParsedFits ==
  ASSUME BootIsOne, parsed # BootError
  PROVE  IF IsFat(parsed) THEN RegionsInOrder(parsed) /\ HeapInVolume(parsed)
         ELSE parsed.root_cluster >= 2 /\ parsed.root_cluster - 1 <= parsed.count_of_clusters
<1>1. CASE boot.exfat /\ boot.fields.count_of_clusters \in Nat
  <2>1. parsed = parse_boot(boot.fields)
    BY <1>1 DEF parsed
  <2> QED
    BY <1>1, <2>1, ExfatRootInHeap
<1>2. CASE ~boot.exfat /\ boot.fields \in Bpb
  <2>1. parsed = parse(boot.fields)
    BY <1>2 DEF parsed
  <2> QED
    BY <1>2, <2>1, FatLayoutFits
<1> QED
  BY <1>1, <1>2, BootIsSane

\* What the boot sector of a written volume is read as.
LEMMA WrittenIsParsed ==
  ASSUME BootIsOne, IsWritten
  PROVE  /\ written \in Written
         /\ parsed # BootError
         /\ parsed.variant = written.variant
         /\ parsed.count_of_clusters = written.clusters
         /\ parsed.bytes_per_sector = written.bytes_per_sector
         /\ parsed.sectors_per_cluster = written.sectors_per_cluster
         /\ parsed.fat_size_sectors = FatSectors(written)
         /\ parsed.fat_start = written.reserved_sectors * written.bytes_per_sector
         /\ parsed.data_start = HeapAt(written) * written.bytes_per_sector
         /\ parsed.total_sectors = TotalOf(written)
         /\ parsed.variant \in {"Fat32", "ExFat"} =>
              parsed.root_cluster = written.root_cluster
         /\ parsed.variant \in {"Fat12", "Fat16"} =>
              parsed.root_dir_start = RootAt(written) * written.bytes_per_sector
<1>1. PICK other \in {0, 41} : written \in Volumes /\ boot = WriteBoot(written, other)
  BY DEF BootIsOne, IsWritten
<1>2. written \in Written /\ Sound(written)
  BY <1>1, OpenAssumption
<1>3. CASE written.variant = "ExFat"
  <2>1. boot = [exfat |-> TRUE, fields |-> WriteMain(written)]
    BY <1>1, <1>3 DEF WriteBoot
  <2>2. parsed = parse_boot(WriteMain(written))
    BY <2>1 DEF parsed
  <2>3. parsed # BootError
    <3>1. valid_main(WriteMain(written))
      BY <1>2, <1>3, ExfatIsRead
    <3>2. "variant" \in DOMAIN parsed
      BY <2>2, <3>1 DEF parse_boot
    <3>3. "variant" \notin DOMAIN BootError
      BY DEF BootError
    <3> QED
      BY <3>2, <3>3, Zenon
  <2>4. LET g == parse_boot(WriteMain(written))
        IN  /\ g.variant = "ExFat" /\ g.count_of_clusters = written.clusters
            /\ g.bytes_per_sector = written.bytes_per_sector
            /\ g.sectors_per_cluster = written.sectors_per_cluster
            /\ g.fat_size_sectors = FatSectors(written)
            /\ g.fat_start = written.reserved_sectors * written.bytes_per_sector
            /\ g.data_start = HeapAt(written) * written.bytes_per_sector
            /\ g.total_sectors = TotalOf(written) /\ g.root_cluster = written.root_cluster
    BY <1>2, <1>3, ExfatIsRead
  <2> QED
    BY <1>2, <1>3, <2>2, <2>3, <2>4
<1>4. CASE written.variant # "ExFat"
  <2> DEFINE b == WriteBpb(written, other)
             is32 == written.variant = "Fat32"
             g == Layout(b, written.clusters, is32)
  <2>1. boot = [exfat |-> FALSE, fields |-> b]
    BY <1>1, <1>4 DEF WriteBoot
  <2>2. parse(b) = g /\ fats_end(b) = RootAt(written) /\ meta_sectors(b) = HeapAt(written)
    BY <1>2, <1>4, FatIsRead
  <2>3. parsed = g
    BY <2>1, <2>2 DEF parsed
  <2>4. parsed # BootError
    BY <2>3, LayoutIsNoError
  <2>5. /\ b.bytes_per_sector = written.bytes_per_sector
        /\ b.sectors_per_cluster = written.sectors_per_cluster
        /\ b.reserved_sectors = written.reserved_sectors
        /\ is32 => b.root_cluster = written.root_cluster
    BY DEF WriteBpb
  <2>6. fat_size_sectors(b) = FatSectors(written) /\ total_sectors(b) = TotalOf(written)
    BY <1>2, <1>4, WrittenBpb
  <2>7. variant_of(written.clusters) = written.variant
    BY <1>2, <1>4 DEF Sound, SoundFat
  <2> HIDE DEF b
  <2>8. /\ g.variant = written.variant
        /\ g.count_of_clusters = written.clusters
        /\ g.bytes_per_sector = written.bytes_per_sector
        /\ g.sectors_per_cluster = written.sectors_per_cluster
        /\ g.fat_size_sectors = FatSectors(written)
        /\ g.fat_start = written.reserved_sectors * written.bytes_per_sector
        /\ g.data_start = HeapAt(written) * written.bytes_per_sector
        /\ ~is32 => g.root_dir_start = RootAt(written) * written.bytes_per_sector
        /\ g.total_sectors = TotalOf(written)
        /\ is32 => g.root_cluster = written.root_cluster
    BY <2>2, <2>5, <2>6, <2>7 DEF Layout
  <2>9. /\ g.variant \in {"Fat32", "ExFat"} => is32
        /\ g.variant \in {"Fat12", "Fat16"} => ~is32
    <3> HIDE DEF g
    <3> QED
      BY <1>4, <2>8
  <2> HIDE DEF g, is32
  <2> QED
    BY <1>2, <2>3, <2>4, <2>8, <2>9
<1> QED
  BY <1>3, <1>4

\* The cache holds the entries up to the last, or what the cap and the image
\* leave of them.
LEMMA CacheHoldsEntries ==
  ASSUME BootIsOne, IsWritten, image_len \in Int, NEW g, g = parsed,
         fat = read_upto(g.fat_start, LesserOf(fat_bytes(g), MAX_FAT_BYTES)),
         max_clusters = g.count_of_clusters + 2
  PROVE  /\ fat.from = written.reserved_sectors * written.bytes_per_sector
         /\ \/ fat.len >= EntryEnd(written.variant, max_clusters - 1)
            \/ fat.len >= MAX_FAT_BYTES
            \/ fat.from + fat.len >= image_len
<1> DEFINE start == written.reserved_sectors * written.bytes_per_sector
           size == FatSectors(written) * written.bytes_per_sector
           need == EntryEnd(written.variant, max_clusters - 1)
<1>1. written \in Written
  BY WrittenIsParsed
<1>2. g.fat_start = start /\ fat_bytes(g) = size
  BY WrittenIsParsed DEF fat_bytes
<1>3. max_clusters - 1 = written.clusters + 1 /\ written.clusters \in Nat
  BY <1>1, WrittenIsParsed, WrittenFields
<1>4. TableBytes(written.variant, written.clusters) <= size
  BY <1>1, FatSectorsHoldTable
<1>5. /\ EntryEnd(written.variant, written.clusters + 1)
           <= TableBytes(written.variant, written.clusters)
      /\ TableBytes(written.variant, written.clusters) \in Nat
      /\ EntryEnd(written.variant, written.clusters + 1) \in Nat
  <2>1. written.variant \in {"Fat12", "Fat16", "Fat32", "ExFat"}
    BY <1>1, WrittenFields
  <2> QED
    BY <1>3, <2>1, TableHoldsEntries DEF EntryEnd
<1>6. start \in Nat /\ size \in Nat
  BY <1>1, WrittenFields, FatSectorsHoldTable, SectorsToBytes
<1>7. need \in Nat /\ need <= size
  <2> HIDE DEF size
  <2> QED
    BY <1>3, <1>4, <1>5, <1>6
<1>8. /\ fat.from = start
      /\ fat.len = (IF image_len <= start THEN 0
                    ELSE LesserOf(LesserOf(size, MAX_FAT_BYTES), image_len - start))
  <2> HIDE DEF start, size
  <2> QED
    BY <1>2 DEF read_upto
<1> HIDE DEF start, size, need
<1>9. \/ fat.len >= need \/ fat.len >= MAX_FAT_BYTES \/ fat.from + fat.len >= image_len
  BY <1>6, <1>7, <1>8, OpenAssumption DEF LesserOf
<1> QED
  BY <1>8, <1>9 DEF start, need

LEMMA InitImage == Init => IInv
<1> SUFFICES ASSUME Init
             PROVE  IInv
  OBVIOUS
<1>1. BootIsOne
  BY DEF Init, BootIsOne
<1>2. IsWritten => image_len \in Int
  <2> SUFFICES ASSUME IsWritten
               PROVE  image_len \in Int
    OBVIOUS
  <2> DEFINE start == parsed.fat_start
             size == fat_bytes(parsed)
  <2>1. start \in Nat /\ size \in Nat
    <3>1. /\ written \in Written
          /\ start = written.reserved_sectors * written.bytes_per_sector
          /\ size = FatSectors(written) * written.bytes_per_sector
      BY <1>1, WrittenIsParsed DEF fat_bytes
    <3> QED
      BY <3>1, WrittenFields, FatSectorsHoldTable, SectorsToBytes
  <2>2. image_len \in {0, BootLen - 1}
          \cup (IF parsed = BootError THEN {BootLen}
                ELSE { l \in { start + size + cut : cut \in Cuts } : l >= BootLen })
    BY DEF Init
  <2> HIDE DEF start, size
  <2> QED
    BY <2>1, <2>2, OpenAssumption
<1>3. geom = None /\ pc = "boot"
  BY DEF Init
<1> QED
  BY <1>1, <1>2, <1>3 DEF IInv

LEMMA StepKeepsImage == IInv /\ [Next]_vars => IInv'
<1> SUFFICES ASSUME IInv, [Next]_vars
             PROVE  IInv'
  OBVIOUS
<1>1. boot' = boot /\ written' = written /\ image_len' = image_len
  BY DEF Next, vars, ReadBoot, ReadBootFails, Parse, ParseFails, CacheFat, CacheFatFails
<1>2. parsed' = parsed
  BY <1>1 DEF parsed
<1>3. BootIsOne' /\ (IsWritten' => image_len' \in Int)
  BY <1>1 DEF IInv, BootIsOne, IsWritten
<1>4. CASE ReadBoot \/ ReadBootFails \/ ParseFails
  BY <1>2, <1>3, <1>4 DEF IInv, ReadBoot, ReadBootFails, ParseFails
<1>5. CASE Parse
  BY <1>2, <1>3, <1>5 DEF IInv, Parse
<1>6. CASE CacheFat
  <2>1. /\ fat' = read_upto(geom.fat_start, LesserOf(fat_bytes(geom), MAX_FAT_BYTES))
        /\ max_clusters' = geom.count_of_clusters + 2
        /\ geom' = geom /\ pc = "fat"
    BY <1>6 DEF CacheFat
  <2>2. fat' = read_upto(geom.fat_start, LesserOf(fat_bytes(geom), MAX_FAT_BYTES))'
    BY <1>1, <2>1 DEF read_upto, fat_bytes
  <2> QED
    BY <1>2, <1>3, <2>1, <2>2 DEF IInv
<1>7. CASE CacheFatFails
  BY <1>2, <1>3, <1>7 DEF IInv, CacheFatFails
<1>8. CASE UNCHANGED vars
  BY <1>2, <1>3, <1>8 DEF IInv, vars, read_upto, fat_bytes
<1> QED
  BY <1>4, <1>5, <1>6, <1>7, <1>8 DEF Next

LEMMA ImageInvariant == Spec => []IInv
BY InitImage, StepKeepsImage, PTL DEF Spec

\* Whatever the boot sector says, an accepted layout fits its volume (boot.rs,
\* Geometry::parse; exfat.rs, parse_boot).
THEOREM LayoutFits == Spec => []LayoutFitsVolume
<1>1. IInv => LayoutFitsVolume
  BY ParsedFits DEF IInv, LayoutFitsVolume
<1> QED
  BY <1>1, ImageInvariant, PTL

\* Every layout that is Sound is what open finds: FAT12/16/32 of any cluster
\* count their fields hold, and exFAT of any cluster size up to 32 MiB, any number
\* of clusters and any place of the heap behind the FATs (boot.rs,
\* Geometry::parse and read_fields; exfat.rs, parse_boot).
THEOREM WrittenIsRead == Spec => []WrittenVolumeIsRead
<1>1. IInv => WrittenVolumeIsRead
  BY WrittenIsParsed DEF IInv, WrittenVolumeIsRead
<1> QED
  BY <1>1, ImageInvariant, PTL

\* Every entry of a written volume's FAT is in the cache, but for the cap and
\* the end of the image (fs.rs, open).
THEOREM EntriesAreCached == Spec => []EntriesCached
<1>1. IInv => EntriesCached
  <2> SUFFICES ASSUME IInv, pc = "ok", IsWritten
               PROVE  /\ fat.from = written.reserved_sectors * written.bytes_per_sector
                      /\ \/ fat.len >= EntryEnd(written.variant, max_clusters - 1)
                         \/ fat.len >= MAX_FAT_BYTES
                         \/ fat.from + fat.len >= image_len
    BY DEF EntriesCached
  <2> QED
    BY CacheHoldsEntries DEF IInv
<1> QED
  BY <1>1, ImageInvariant, PTL

-----------------------------------------------------------------------------
\* A step of the sum loses nothing: with the same byte, different sums stay
\* different and equal sums equal; from the same sum, different bytes differ.
LEMMA RotateIsWord ==
  ASSUME NEW x \in Word
  PROVE  rotate_right(x) \in Word
BY ChecksumAssumption DEF rotate_right, Word

LEMMA RotateIsInjective ==
  ASSUME NEW x \in Word, NEW y \in Word, rotate_right(x) = rotate_right(y)
  PROVE  x = y
BY ChecksumAssumption DEF rotate_right, Word

LEMMA AddIsWord ==
  ASSUME NEW x \in Word, NEW y \in Word
  PROVE  wrapping_add(x, y) \in Word
BY ChecksumAssumption DEF wrapping_add, Word

LEMMA AddIsInjective ==
  ASSUME NEW x \in Word, NEW y \in Word, NEW b \in Word
  PROVE  /\ wrapping_add(x, b) = wrapping_add(y, b) => x = y
         /\ wrapping_add(b, x) = wrapping_add(b, y) => x = y
BY ChecksumAssumption DEF wrapping_add, Word

LEMMA StepKeepsApart ==
  ASSUME NEW x \in Word, NEW y \in Word, NEW a \in Word, NEW b \in Word
  PROVE  /\ add_byte(x, a) \in Word
         /\ x # y => add_byte(x, a) # add_byte(y, a)
         /\ a # b => add_byte(x, a) # add_byte(x, b)
<1>1. rotate_right(x) \in Word /\ rotate_right(y) \in Word
  BY RotateIsWord
<1>2. x # y => rotate_right(x) # rotate_right(y)
  BY RotateIsInjective
<1>3. add_byte(x, a) \in Word
  BY <1>1, AddIsWord DEF add_byte
<1>4. x # y => add_byte(x, a) # add_byte(y, a)
  BY <1>1, <1>2, AddIsInjective DEF add_byte
<1>5. a # b => add_byte(x, a) # add_byte(x, b)
  BY <1>1, AddIsInjective DEF add_byte
<1> QED
  BY <1>3, <1>4, <1>5

-----------------------------------------------------------------------------
\* The sums agree up to the first change, and differ behind it if it is the
\* only one: what TellsOneByte says, at every offset and not at the last alone.
SumIInv ==
  /\ SumTypeOK
  /\ (\A k \in Changed : i <= k) => computed = stored
  /\ \A k \in Changed : Changed = {k} /\ k < i => computed # stored

\* The offsets the code names are the places of the fields.
LEMMA ExcludedAreFields ==
  ASSUME NEW k \in Nat
  PROVE  Excluded(k) <=> k \in MountState
BY DEF Excluded, MountState, VolumeFlags, PercentInUse

LEMMA LengthIsNat ==
  ASSUME len \in Nat
  PROVE  n \in Nat /\ n <= len
BY ChecksumAssumption DEF n

LEMMA SumInitIInv == SumInit => SumIInv
<1> SUFFICES ASSUME SumInit PROVE SumIInv
  OBVIOUS
<1>1. PICK r \in Regions : len = r.len /\ sealed = r.sealed /\ sectors = r.sectors
  BY DEF SumInit
<1>2. /\ len \in Nat
      /\ sealed \in [0 .. len - 1 -> Bytes]
      /\ sectors \in [0 .. len - 1 -> Bytes]
  BY <1>1, ChecksumAssumption
<1>3. i \in 0 .. n /\ stored \in Word /\ computed \in Word
  BY <1>2, LengthIsNat, ChecksumAssumption DEF SumInit, Word
<1>4. Changed \subseteq Nat
  BY <1>2, LengthIsNat DEF Changed
<1> QED
  BY <1>2, <1>3, <1>4 DEF SumIInv, SumTypeOK, SumInit

LEMMA SumStepKeepsIInv == SumIInv /\ [SumNext]_sum_vars => SumIInv'
<1> SUFFICES ASSUME SumIInv, [SumNext]_sum_vars PROVE SumIInv'
  OBVIOUS
<1> USE DEF SumIInv, SumTypeOK
<1>0. n \in Nat /\ n <= len /\ i \in Nat
  BY LengthIsNat
<1>1. CASE Skipped
  <2>0. i \in MountState /\ stored' = stored
    BY <1>0, <1>1, ExcludedAreFields DEF Skipped, Seal
  <2>1. n' = n /\ Changed' = Changed
    BY <1>1 DEF Skipped, n, Changed
  <2>2. i' \in 0 .. n' /\ \A k \in Changed : k \in Nat /\ k # i
    BY <1>0, <1>1, <2>0, <2>1 DEF Skipped, Changed
  <2> QED
    BY <1>0, <1>1, <2>0, <2>1, <2>2 DEF Skipped
<1>2. CASE Added
  <2>0. i \notin MountState /\ stored' = add_byte(stored, sealed[i])
    BY <1>0, <1>2, ExcludedAreFields DEF Added, Seal
  <2>1. n' = n /\ Changed' = Changed
    BY <1>2 DEF Added, n, Changed
  <2>2. /\ i' \in 0 .. n'
        /\ sealed[i] \in Word /\ sectors[i] \in Word
    BY <1>0, <1>2, <2>1, ChecksumAssumption DEF Added
  <2>3. SumTypeOK'
    BY <1>2, <2>0, <2>2, StepKeepsApart DEF Added
  <2>4. \A k \in Changed : k \in Nat
    BY <1>0 DEF Changed
  <2>5. i \in Changed <=> sectors[i] # sealed[i]
    BY <1>0, <1>2, <2>0 DEF Added, Changed
  <2>6. ASSUME \A k \in Changed : i + 1 <= k
        PROVE  computed' = stored'
    <3>1. i \notin Changed /\ \A k \in Changed : i <= k
      BY <1>0, <2>4, <2>6
    <3> QED
      BY <1>2, <2>0, <2>5, <3>1 DEF Added
  <2>7. ASSUME NEW k \in Changed, Changed = {k}, k < i + 1
        PROVE  computed' # stored'
    <3>1. CASE k = i
      <4>1. computed = stored /\ sectors[i] # sealed[i]
        BY <1>0, <2>5, <2>7, <3>1
      <4> QED
        BY <1>2, <2>0, <2>2, <4>1, StepKeepsApart DEF Added
    <3>2. CASE k # i
      <4>1. k < i /\ computed # stored /\ sectors[i] = sealed[i]
        BY <1>0, <2>4, <2>5, <2>7, <3>2
      <4> QED
        BY <1>2, <2>0, <2>2, <4>1, StepKeepsApart DEF Added
    <3> QED
      BY <3>1, <3>2
  <2> QED
    BY <1>2, <2>1, <2>3, <2>6, <2>7 DEF Added
<1>3. CASE UNCHANGED sum_vars
  BY <1>3 DEF sum_vars, n, Changed
<1> QED
  BY <1>1, <1>2, <1>3 DEF SumNext

\* The sums stay words and the loop inside the region, for every region
\* (exfat.rs, boot_checksum).
THEOREM SumsAreWords == SumSpec => []SumTypeOK
<1>1. SumIInv => SumTypeOK
  BY DEF SumIInv
<1> QED
  BY <1>1, SumInitIInv, SumStepKeepsIInv, PTL DEF SumSpec

\* For every word size and region, one changed byte sets the sum apart from the
\* stored one, and a change of the fields that exFAT leaves out never does
\* (exfat.rs, boot_checksum).
THEOREM OneByteIsTold == SumSpec => []TellsOneByte
<1>1. SumIInv => TellsOneByte
  <2> SUFFICES ASSUME SumIInv, i = n PROVE TellsOneByte
    BY DEF TellsOneByte
  <2>1. \A k \in Changed : k \in Nat /\ k < i
    BY LengthIsNat DEF SumIInv, SumTypeOK, Changed
  <2> QED
    BY <2>1 DEF SumIInv, TellsOneByte
<1> QED
  BY <1>1, SumInitIInv, SumStepKeepsIInv, PTL DEF SumSpec
=============================================================================

------------------------------ MODULE MCFatOpen ------------------------------
(***************************************************************************)
(* Layouts on both sides of every number that decides something, and boot  *)
(* sectors with each field right, at its limits and wrong.                 *)
(***************************************************************************)
EXTENDS FatOpen

FatLay(variant, bps, spc, reserved, fats, entries, clusters, slack, spare, wide) ==
  [variant |-> variant, bytes_per_sector |-> bps, sectors_per_cluster |-> spc,
   reserved_sectors |-> reserved, num_fats |-> fats, root_entry_count |-> entries,
   root_cluster |-> 2, clusters |-> clusters, fat_slack |-> slack, gap |-> 0,
   spare |-> spare, wide |-> wide]

\* 340 and 341 clusters are where a FAT12 table fills a sector of 512 bytes.
FatLayouts ==
  { FatLay("Fat12", bps, spc, reserved, fats, entries, clusters, slack, spare, wide) :
      bps \in {512, 4096}, spc \in {2}, reserved \in {1, 2}, fats \in {1, 2},
      entries \in {16, 17}, clusters \in {1, 339, 340, 4084}, slack \in {0, 1},
      spare \in {0, 1}, wide \in BOOLEAN }
  \cup
  { FatLay("Fat16", bps, spc, 1, fats, entries, clusters, 0, spare, FALSE) :
      bps \in {512, 2048}, spc \in {1, 8}, fats \in {1, 2}, entries \in {16, 512},
      clusters \in {4085, 32766, 65524}, spare \in {0} }
  \cup
  { [FatLay("Fat32", bps, spc, 32, fats, 0, clusters, slack, spare, TRUE)
       EXCEPT !.root_cluster = root] :
      bps \in {512, 4096}, spc \in {2}, fats \in {1, 2},
      clusters \in {65525, 65534, 70001}, slack \in {0, 1}, spare \in {0, 1},
      root \in {2, 65526} }

ExfatLay(bps, spc, fats, clusters, root, gap, spare) ==
  [FatLay("ExFat", bps, spc, 24, fats, 0, clusters, 0, spare, FALSE)
     EXCEPT !.root_cluster = root, !.gap = gap]

\* Clusters from a sector to 32 MiB; 126 and 127 clusters are where the table
\* fills a sector of 512 bytes.
ExfatLayouts ==
  { ExfatLay(size[1], size[2], fats, clusters, root, gap, spare) :
      size \in {<<512, 1>>, <<512, 256>>, <<512, 65536>>, <<4096, 8>>, <<4096, 8192>>},
      fats \in {1, 2}, clusters \in {4, 126, 127, 4095}, root \in {2, 5},
      gap \in {0, 70000}, spare \in {0, 9} }
  \cup
  { ExfatLay(512, 8, fats, 70001, 70002, 0, 0) : fats \in {1, 2} }

\* FAT32 and exFAT volumes of 2^26 clusters: their FATs pass 256 MiB.
LargeLayouts ==
  { FatLay("Fat32", 512, 1, 32, 1, 0, 67108863, 0, 0, TRUE),
    ExfatLay(512, 1, 1, 67108863, 2, 0, 0) }

AllLayouts == FatLayouts \cup ExfatLayouts \cup LargeLayouts

Good ==
  [sig_ok |-> TRUE, bytes_per_sector |-> 512, sectors_per_cluster |-> 1,
   reserved_sectors |-> 1, num_fats |-> 2, root_entry_count |-> 17,
   total_sectors_16 |-> 30, fat_size_16 |-> 3, total_sectors_32 |-> 0,
   fat_size_32 |-> 0, root_cluster |-> 0]

\* Fields that fit together badly, and each field out of its range.
Bpbs ==
  { [Good EXCEPT !.bytes_per_sector = bps, !.sectors_per_cluster = spc,
                 !.reserved_sectors = reserved, !.num_fats = fats,
                 !.root_entry_count = entries, !.total_sectors_16 = total,
                 !.total_sectors_32 = total32] :
      bps \in {512, 1024}, spc \in {1, 4, 128}, reserved \in {1, 3}, fats \in {1, 3},
      entries \in {0, 1, 65}, total \in {0, 3, 7, 13, 14, 40},
      total32 \in {0, 20, 2147483647} }
  \cup
  { [Good EXCEPT !.bytes_per_sector = n] : n \in {0, 1, 256, 513, 8192} }
  \cup
  { [Good EXCEPT !.sectors_per_cluster = n] : n \in {0, 3, 255} }
  \cup
  { [Good EXCEPT !.fat_size_16 = n, !.fat_size_32 = m] : n \in {0, 15}, m \in {0, 2, 15} }
  \cup
  { [Good EXCEPT !.reserved_sectors = 0], [Good EXCEPT !.num_fats = 0],
    [Good EXCEPT !.sig_ok = FALSE] }

GoodMain ==
  [sig_ok |-> TRUE, volume_length |-> 1000, fat_offset |-> 24, fat_length |-> 1,
   cluster_heap_offset |-> 32, count_of_clusters |-> 100, root_cluster |-> 5,
   bps_shift |-> 9, spc_shift |-> 0, num_fats |-> 1]

Mains ==
  { [GoodMain EXCEPT !.count_of_clusters = count, !.root_cluster = root, !.sig_ok = sig] :
      count \in {0, 1, 100, 2147483645}, root \in {0, 1, 2, 3, 101, 102, 2147483646,
                                                  2147483647},
      sig \in BOOLEAN }
  \cup
  { [GoodMain EXCEPT !.bps_shift = b, !.spc_shift = s, !.num_fats = n, !.fat_length = len] :
      b \in {8, 9, 12, 13, 25}, s \in {0, 13, 14, 16, 17}, n \in {0, 1, 2, 3},
      len \in {0, 3} }

AllBoots ==
  { [exfat |-> FALSE, fields |-> b] : b \in Bpbs }
    \cup { [exfat |-> TRUE, fields |-> b] : b \in Mains }

\* Images that end inside FAT1, with it and behind it.
AllCuts == {-512, -1, 0, 2000}
=============================================================================

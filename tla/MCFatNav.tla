------------------------------ MODULE MCFatNav ------------------------------
(***************************************************************************)
(* Volumes of four clusters of two slots, with FATs that link the clusters *)
(* in order, out of order, in rings and across.  FAT12 volumes have a root *)
(* region of two slots; FAT32 and exFAT volumes a root in the heap.  An    *)
(* exFAT set takes three slots, so that it lies across clusters.           *)
(***************************************************************************)
EXTENDS FatNav

Blank ==
  [kind |-> "end", span |-> 0, name |-> "a", is_dir |-> FALSE, deleted |-> FALSE,
   is_volume_label |-> FALSE, first_cluster |-> 0, size |-> 0, contiguous |-> FALSE]
Other == [Blank EXCEPT !.kind = "other"]
File(name, cluster, size) ==
  [Blank EXCEPT !.kind = "entry", !.name = name, !.first_cluster = cluster, !.size = size]
Dir(name, cluster) == [File(name, cluster, 0) EXCEPT !.is_dir = TRUE]
Deleted(s) == [s EXCEPT !.deleted = TRUE]
Label == [File("a", 0, 0) EXCEPT !.is_volume_label = TRUE]
Set(s, contiguous) == [s EXCEPT !.span = 2, !.contiguous = contiguous]

Image(s) == [o \in 0 .. ImageLen - 1 |-> IF o < Len(s) THEN s[o + 1] ELSE Blank]

\* Directories among files and deleted entries; their clusters overlap.
FatImages ==
  { Image(<<x, Deleted(Dir("a", 4)), Dir("d", 2), y, File("a", 4, 3),
            Deleted(File("a", 5, 2)), Dir("d", 5), File("d", 0, 2), Dir("a", 3),
            File("a", 3, 4)>>) :
      x \in {Dir("d", 2), Dir("a", FIXED_ROOT)},
      y \in {Blank, Other, Label, [File("d", 4, 4) EXCEPT !.contiguous = TRUE], Dir("..", 0)} }

\* The directory d takes one or two clusters from cluster 4, by a chain or in
\* one piece.
ExfatImages ==
  { Image(<<Other, Other, Set([Dir("d", 4) EXCEPT !.size = n], flag), Other, Other, z,
            Set(File("a", 2, 3), ~flag), Other, Other, Set(Deleted(File("a", 3, 2)), FALSE)>>) :
      n \in {2, 4}, flag \in BOOLEAN, z \in {Blank, Other} }

Vol(variant, root, link, image) ==
  [variant |-> variant, root_cluster |-> root, root_dir_start |-> 0,
   root_dir_bytes |-> IF variant = "Fat12" THEN 2 ELSE 0, max_clusters |-> 6,
   link |-> link, image |-> image]

FATs ==
  { link \in [Heap -> {0} \cup Heap] :
      /\ link[2] \in {0, 2, 3} /\ link[3] \in {0, 2, 4}
      /\ link[4] \in {0, 3, 5} /\ link[5] \in {0, 2} }

FatVolumes ==
  { Vol("Fat12", 0, link, image) : link \in FATs, image \in FatImages }
    \cup { Vol("Fat32", 2, link, image) : link \in FATs, image \in FatImages }
    \cup { Vol("Fat32", 5, link, image) :
             link \in { l \in FATs : l[5] = 2 /\ l[4] = 3 }, image \in FatImages }

ExfatVolumes ==
  { Vol("ExFat", 2, link, image) : link \in FATs, image \in ExfatImages }

AllVolumes == FatVolumes \cup ExfatVolumes

\* Volumes with a root of two clusters, for the claims of the comments.
FewVolumes == { v \in AllVolumes : v.link = [c \in Heap |-> IF c = 2 THEN 3 ELSE 0] }
=============================================================================

------------------------------ MODULE MCAudit ------------------------------
(***************************************************************************)
(* Directories of one cluster of two slots each, with every way to link    *)
(* three of them into trees, rings and cross links; and every outcome of   *)
(* the checks before the walk.                                             *)
(***************************************************************************)
EXTENDS Audit

Blank ==
  [kind |-> "end", span |-> 0, name |-> "a", is_dir |-> FALSE, deleted |-> FALSE,
   is_volume_label |-> FALSE, first_cluster |-> 0, size |-> 0, contiguous |-> FALSE]
File == [Blank EXCEPT !.kind = "entry"]
Label == [File EXCEPT !.is_volume_label = TRUE]
Dir(cluster) == [File EXCEPT !.is_dir = TRUE, !.first_cluster = cluster]
Dot(name, cluster) == [Dir(cluster) EXCEPT !.name = name]
Deleted1 == [File EXCEPT !.deleted = TRUE]
DeletedDir(cluster) == [Dir(cluster) EXCEPT !.deleted = TRUE]
Set(s, size, contiguous) ==
  [s EXCEPT !.span = 1, !.size = size, !.contiguous = contiguous]

Volume4(variant, link, image) ==
  [variant |-> variant, root_cluster |-> IF variant = "Fat12" THEN 0 ELSE 2,
   root_dir_start |-> 0, root_dir_bytes |-> IF variant = "Fat12" THEN 2 ELSE 0,
   max_clusters |-> 6, link |-> link, image |-> image]

Image_(s) == [o \in 0 .. ImageLen - 1 |-> s[o + 1]]
NoLinks == [c \in Heap |-> 0]

\* The root is the fixed region or cluster 2; the directories have two slots.
Trees ==
  { Volume4(variant, NoLinks, Image_(<<Dir(2), Deleted1, u, x, v, y, w, z>>)) :
      variant \in {"Fat12", "Fat32"},
      u \in {Dir(3), Dir(4), DeletedDir(4)}, x \in {Deleted1, Dir(4), Label},
      v \in {Dir(2), Dir(4), Dot("..", 2)}, y \in {Deleted1, Dir(4), Dir(0)},
      w \in {Dir(2), Dir(3), Dot(".", 4), Blank}, z \in {Deleted1, Dir(FIXED_ROOT), File} }

Other == [Blank EXCEPT !.kind = "other"]

\* A directory of two clusters in the root of an exFAT volume.  It lies in one
\* piece or is chained, and holds another directory in its second cluster.
ExfatTrees ==
  { Volume4("ExFat", [c \in Heap |-> IF c = 3 THEN next ELSE 0],
            Image_(<<Other, Other, Set(Dir(3), 4, flag), Other,
                     Set(Deleted1, 0, FALSE), Other, Set(Dir(2), 2, FALSE), Other>>)) :
      next \in {0, 4}, flag \in BOOLEAN }

Clean(v) ==
  [sig_ok |-> TRUE, bpb_ok |-> TRUE, num_fats |-> 2, fat_bytes |-> 2,
   fat1 |-> <<1, 2>>, fat2 |-> <<1, 2>>, region_whole |-> TRUE,
   computed |-> 1, stored |-> 1, vol |-> v]

Stub(variant) == Volume4(variant, NoLinks, Image_([k \in 1 .. ImageLen |-> Blank]))

\* What the checks can find.
Checks ==
  { [sig_ok |-> sig, bpb_ok |-> bpb, num_fats |-> n, fat_bytes |-> 2,
     fat1 |-> <<1, 2>>, fat2 |-> copy, region_whole |-> whole,
     computed |-> 1, stored |-> sum, vol |-> Stub(variant)] :
       sig \in BOOLEAN, bpb \in BOOLEAN, n \in 1 .. 3,
       copy \in {<<1, 2>>, <<1>>, <<1, 3>>, <<2, 1>>}, whole \in BOOLEAN,
       sum \in {1, 2}, variant \in {"Fat12", "ExFat"} }

MCImages == { Clean(v) : v \in Trees \cup ExfatTrees } \cup Checks
=============================================================================

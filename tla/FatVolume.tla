----------------------------- MODULE FatVolume ------------------------------
(***************************************************************************)
(* What FatFs (core/src/fs.rs) computes from a volume that does not        *)
(* change: from a FileId to the directory entry it names, to the clusters  *)
(* of its data, to the entries under it.  How the bytes come in through    *)
(* the shared reader is FatRead's; here reads are whole.                   *)
(*                                                                         *)
(* A byte is 32 of the code's, one directory slot.  Names, decoded links   *)
(* and decoded slots are data: FatDir and ExfatDir decode slots, FatChain  *)
(* decodes links.                                                          *)
(***************************************************************************)
EXTENDS FatReadCalls

CONSTANTS
  FIXED_ROOT,   \* u32::MAX, the marker of the FAT12/16 root region
  MaxIndex,     \* u16::MAX, where slot indices saturate
  Heap,         \* the clusters whose entries the cached FAT holds
  Names

\* No cached FAT has an entry for u32::MAX, and no volume reaches that cluster:
\* of 512 bytes, the least a cluster can have, it would lie at 2 TiB.
ASSUME MarkerAssumption ==
  /\ FIXED_ROOT \in Cluster \ Heap
  /\ cluster_offset(FIXED_ROOT) >= ImageLen
  /\ MaxIndex \in Nat
  /\ Heap \subseteq Cluster

NoName == ""
Dots == {".", ".."}

\* "other" is an LFN slot, a label set, a stray secondary.  `span` counts the
\* secondary slots of an exFAT set: the extent is in the first of them, the
\* name in the second (longer sets and lying counts are ExfatDir's).
Slot ==
  [kind : {"end", "other", "entry"}, span : 0 .. 2, name : Names,
   is_dir : BOOLEAN, deleted : BOOLEAN, is_volume_label : BOOLEAN,
   first_cluster : 0 .. FIXED_ROOT, size : Nat, contiguous : BOOLEAN]

\* A root in the heap has no region (boot.rs, parse: root_dir_sectors is 0).
\* `link` is the FAT by what the walk does next: 0 where it stops.
Volume ==
  { v \in [variant : {"Fat12", "Fat16", "Fat32", "ExFat"},
           root_cluster : 0 .. FIXED_ROOT,
           root_dir_start : Nat, root_dir_bytes : Nat, max_clusters : Nat,
           link : [Heap -> Nat], image : [0 .. ImageLen - 1 -> Slot]] :
      v.variant \in {"Fat32", "ExFat"} => v.root_dir_bytes = 0 }

-----------------------------------------------------------------------------
\* FileId and Node.
Root == [root |-> TRUE]
Entry(dir_cluster, index) == [dir_cluster |-> dir_cluster, index |-> index]

EntryId == [dir_cluster : 0 .. FIXED_ROOT, index : 0 .. MaxIndex]
FileId == {Root} \cup EntryId

Node ==
  [id : FileId,
   name : Names \cup {NoName}, is_dir : BOOLEAN, is_deleted : BOOLEAN,
   is_volume_label : BOOLEAN, size : Nat, first_cluster : 0 .. FIXED_ROOT,
   contiguous : BOOLEAN]

root_node ==
  [id |-> Root, name |-> NoName, is_dir |-> TRUE, is_deleted |-> FALSE,
   is_volume_label |-> FALSE, size |-> 0, first_cluster |-> 0,
   contiguous |-> FALSE]

\* FatError::Corrupt.
Err == [err |-> TRUE]

\* `find`: the first of the nodes at these places, if there is one.
FirstOf(nodes, places) == IF places = {} THEN Err ELSE nodes[Min(places)]

\* The numbers of a set, in order.
Ascending(S) ==
  [n \in 1 .. Cardinality(S) |->
     CHOOSE k \in S : Cardinality({ j \in S : j < k }) = n - 1]

-----------------------------------------------------------------------------
\* follow_chain, as FatChain has it: up to the first that is below 2 (0 for
\* the end), at most max_clusters.
follow_chain(v, start) ==
  LET next(c) == IF c \in Heap THEN v.link[c] ELSE 0
      at[n \in 1 .. v.max_clusters] == IF n = 1 THEN start ELSE next(at[n - 1])
  IN  [n \in { m \in 1 .. v.max_clusters : at[m] \in Cluster } |-> at[n]]

\* ceil(n / ClusterSize).
ClustersFor(n) == (n + ClusterSize - 1) \div ClusterSize

\* The numbers that fit a u32 of a contiguous extent, else the chain.
clusters(v, first_cluster, size, contiguous) ==
  IF first_cluster < 2 THEN <<>>
  ELSE IF contiguous /\ size > 0
       THEN [k \in 1 .. LesserOf(LesserOf(ClustersFor(size), v.max_clusters),
                                 FIXED_ROOT + 1 - first_cluster) |->
               first_cluster + k - 1]
       ELSE follow_chain(v, first_cluster)

extent_of(v, first_cluster, size, contiguous) ==
  LET chain == clusters(v, first_cluster, size, contiguous)
  IN  [chain |-> chain,
       total |-> IF size > 0 THEN size ELSE Len(chain) * ClusterSize]

\* DirSource.
FixedRoot == [fixed |-> TRUE]
Chain(first_cluster, size, contiguous) ==
  [fixed |-> FALSE, first_cluster |-> first_cluster, size |-> size,
   contiguous |-> contiguous]

\* Mutant: the fixed root marked like the volume root.
source_marker_zero(source) == IF source.fixed THEN 0 ELSE source.first_cluster

source_marker(source) ==
  IF source.fixed THEN FIXED_ROOT ELSE source.first_cluster

\* The slots of a directory.
read_dir_bytes(v, source) ==
  LET offsets ==
        IF source.fixed THEN Slice(v.root_dir_start, v.root_dir_bytes)
        ELSE ReadDirResult([chain |-> clusters(v, source.first_cluster,
                                               source.size, source.contiguous)])
      at(os) == [k \in 1 .. Len(os) |-> v.image[os[k]]]
  IN  at(offsets)

-----------------------------------------------------------------------------
\* The slots the scan stands on: the first one and, from each that is no end
\* marker, the next past the secondaries of its set.
Visited(slots) ==
  FoldLeft(LAMBDA seen, k :
             IF k \in seen /\ slots[k].kind # "end"
             THEN seen \cup {k + 1 + (IF slots[k].kind = "entry" THEN slots[k].span ELSE 0)}
             ELSE seen,
           {1}, [k \in 1 .. Len(slots) |-> k])

\* Mutant: an index that wraps.
SlotIndexWraps(k) == (k - 1) % (MaxIndex + 1)

SlotIndex(k) == LesserOf(k - 1, MaxIndex)

\* Mutant: the flag of an exFAT Stream Extension read from any slot.
node_at_flag(v, slots, k, marker) ==
  LET s == slots[k]
      exfat == v.variant = "ExFat"
      has_extent == exfat => s.span >= 1 /\ k + 1 <= Len(slots)
      has_name == exfat => s.span >= 2 /\ k + s.span <= Len(slots)
  IN  [id |-> Entry(marker, SlotIndex(k)),
       name |-> IF has_name THEN s.name ELSE NoName,
       is_dir |-> s.is_dir,
       is_deleted |-> s.deleted,
       is_volume_label |-> ~exfat /\ s.is_volume_label,
       size |-> IF has_extent THEN s.size ELSE 0,
       first_cluster |-> IF has_extent THEN s.first_cluster ELSE 0,
       contiguous |-> s.contiguous]

\* The node of the entry at slot k, node_from or node_from_exfat: of an exFAT
\* set only what lies in slots the directory has.
node_at(v, slots, k, marker) ==
  LET s == slots[k]
      exfat == v.variant = "ExFat"
      has_extent == exfat => s.span >= 1 /\ k + 1 <= Len(slots)
      has_name == exfat => s.span >= 2 /\ k + s.span <= Len(slots)
  IN  [id |-> Entry(marker, SlotIndex(k)),
       name |-> IF has_name THEN s.name ELSE NoName,
       is_dir |-> s.is_dir,
       is_deleted |-> s.deleted,
       is_volume_label |-> ~exfat /\ s.is_volume_label,
       size |-> IF has_extent THEN s.size ELSE 0,
       first_cluster |-> IF has_extent THEN s.first_cluster ELSE 0,
       contiguous |-> exfat /\ has_extent /\ s.contiguous]

list_nodes(v, slots, marker) ==
  LET visited == Visited(slots)
      heads == Ascending({ k \in 1 .. Len(slots) :
                             k \in visited /\ slots[k].kind = "entry" })
  IN  [n \in 1 .. Len(heads) |-> node_at(v, slots, heads[n], marker)]

\* A directory as resolve_entry reads it: by its FAT chain, whatever its own
\* entry says.
entries_under(v, dir_cluster) ==
  LET source == IF dir_cluster = FIXED_ROOT THEN FixedRoot
                ELSE Chain(dir_cluster, 0, FALSE)
  IN  list_nodes(v, read_dir_bytes(v, source), dir_cluster)

resolve_entry(v, id) ==
  LET nodes == entries_under(v, id.dir_cluster)
  IN  FirstOf(nodes, { k \in DOMAIN nodes : nodes[k].id.index = id.index })

meta(v, id) == IF id = Root THEN root_node ELSE resolve_entry(v, id)

root_is_clustered(v) == v.variant \in {"Fat32", "ExFat"}

\* Err for an entry that is not there, and for one that is not a directory.
SourceOf(node) ==
  IF node = Err \/ ~node.is_dir THEN Err
  ELSE Chain(node.first_cluster, node.size, node.contiguous)

dir_source(v, id) ==
  IF id # Root THEN SourceOf(resolve_entry(v, id))
  ELSE IF root_is_clustered(v) THEN Chain(v.root_cluster, 0, FALSE) ELSE FixedRoot

Listing(v, source) ==
  IF source = Err THEN Err
  ELSE [nodes |-> list_nodes(v, read_dir_bytes(v, source), source_marker(source))]

read_dir(v, id) == Listing(v, dir_source(v, id))

\* Mutant: a label taken for an entry.
NamedInLabels(listed, name) ==
  IF listed = Err THEN Err
  ELSE FirstOf(listed.nodes,
               { k \in DOMAIN listed.nodes :
                   ~listed.nodes[k].is_deleted /\ listed.nodes[k].name = name })

\* Allocated entries only; the first of that name.
NamedIn(listed, name) ==
  IF listed = Err THEN Err
  ELSE FirstOf(listed.nodes,
               { k \in DOMAIN listed.nodes :
                   /\ ~listed.nodes[k].is_deleted
                   /\ ~listed.nodes[k].is_volume_label
                   /\ listed.nodes[k].name = name })

IdOf(node) == IF node = Err THEN Err ELSE node.id

lookup(v, dir, name) == IdOf(NamedIn(read_dir(v, dir), name))

\* A directory is read from the same clusters through its own entry and
\* through the id of one of its children, which knows its first cluster only.
ReadAlike(v, dir) ==
  clusters(v, dir.first_cluster, dir.size, dir.contiguous)
    = clusters(v, dir.first_cluster, 0, FALSE)

-----------------------------------------------------------------------------
ExtentOf(v, found) ==
  IF found = Err THEN Err
  ELSE extent_of(v, found.first_cluster, found.size, found.contiguous)

data_extent(v, id) ==
  IF id = Root /\ ~root_is_clustered(v)
  THEN [chain |-> <<>>, total |-> v.root_dir_bytes]
  ELSE ExtentOf(v, IF id = Root THEN dir_source(v, Root) ELSE resolve_entry(v, id))

\* Mutant: a run that grows by a cluster, however little of it is data.
AddClusterWhole(acc, cluster) ==
  IF acc.remaining = 0 THEN acc
  ELSE LET len == ClusterSize
           off == cluster_offset(cluster)
           last == IF acc.runs = <<>> THEN <<0, 0>> ELSE acc.runs[Len(acc.runs)]
       IN  [remaining |-> IF acc.remaining > len THEN acc.remaining - len ELSE 0,
            runs |-> IF acc.runs # <<>> /\ last[1] + last[2] = off
                     THEN [acc.runs EXCEPT ![Len(acc.runs)] = <<last[1], last[2] + len>>]
                     ELSE Append(acc.runs, <<off, len>>)]

\* One turn of the loop of runs: the cluster joins the last run or starts one.
AddCluster(acc, cluster) ==
  IF acc.remaining = 0 THEN acc
  ELSE LET len == LesserOf(ClusterSize, acc.remaining)
           off == cluster_offset(cluster)
           last == IF acc.runs = <<>> THEN <<0, 0>> ELSE acc.runs[Len(acc.runs)]
       IN  [remaining |-> acc.remaining - len,
            runs |-> IF acc.runs # <<>> /\ last[1] + last[2] = off
                     THEN [acc.runs EXCEPT ![Len(acc.runs)] = <<last[1], last[2] + len>>]
                     ELSE Append(acc.runs, <<off, len>>)]

\* The (offset, len) runs of an extent.
runs(v, extent) ==
  IF extent.chain = <<>>
  THEN IF extent.total = 0 THEN <<>> ELSE << <<v.root_dir_start, extent.total>> >>
  ELSE FoldLeft(AddCluster, [remaining |-> extent.total, runs |-> <<>>],
                extent.chain).runs

\* The offsets read_at(off, len) hands over: up to the end of what is asked
\* for, of the chain or of the image.
read_at(extent, off, len) ==
  LET c == [op |-> "read_at", chain |-> extent.chain, total |-> extent.total,
            off |-> off, len |-> len]
      there(p) == /\ p < End(c) /\ p \div ClusterSize < Len(c.chain)
                  /\ Loc(c, p) < ImageLen
      n == CHOOSE m \in 0 .. len :
             /\ \A k \in 0 .. m - 1 : there(off + k)
             /\ m < len => ~there(off + m)
  IN  [k \in 1 .. n |-> Loc(c, off + k - 1)]
=============================================================================

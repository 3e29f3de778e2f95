------------------------------- MODULE FatNav -------------------------------
(***************************************************************************)
(* A caller that goes through a volume from node to node, through FatFs    *)
(* (core/src/fs.rs) or the forensic-vfs adapter (core/src/vfs.rs): it      *)
(* holds a node it was given and the directory it was given it from, and   *)
(* comes back with the node's FileId.  Every call reads the structure      *)
(* anew, so what the caller asked for before makes no difference.          *)
(***************************************************************************)
EXTENDS FatVolume

CONSTANT Volumes
ASSUME VolumesAssumption == Volumes \subseteq Volume

VARIABLES
  vol,          \* the volume: fixed
  parent,       \* the directory `node` was found in
  node

nav_vars == <<vol, parent, node>>

NavInit ==
  /\ vol \in Volumes
  /\ parent = root_node
  /\ node = root_node

\* One of the nodes read_dir lists under the node at hand.
ReadDir ==
  \E listed \in {read_dir(vol, node.id)} \ {Err} :
    /\ node' \in Range(listed.nodes)
    /\ parent' = node
    /\ UNCHANGED vol

\* A name resolved to an id, and the id to its node.
Lookup(name) ==
  \E id \in {lookup(vol, node.id, name)} \ {Err} :
    /\ node' \in {meta(vol, id)} \ {Err}
    /\ parent' = node
    /\ UNCHANGED vol

NavNext == ReadDir \/ \E name \in Names : Lookup(name)

NavSpec == NavInit /\ [][NavNext]_nav_vars

-----------------------------------------------------------------------------
\* The VFS address of a node: the root is cluster 0, index 0.
to_vfs_id(id) ==
  IF id = Root THEN [cluster |-> 0, index |-> 0]
  ELSE [cluster |-> id.dir_cluster, index |-> id.index]

\* Mutant: any slot 0 taken for the root.
from_vfs_id_slot_0(id) ==
  IF id.index = 0 THEN Root ELSE Entry(id.cluster, id.index)

from_vfs_id(id) ==
  IF id.cluster = 0 /\ id.index = 0 THEN Root ELSE Entry(id.cluster, id.index)

\* The metadata address: the place of the entry, the index in the low 16 bits.
ino_of(id) ==
  IF id = Root THEN 0 ELSE id.dir_cluster * (MaxIndex + 1) + id.index

node_kind(n) == IF n.is_dir THEN "Dir" ELSE "File"

VfsError == [vfs_err |-> TRUE]

\* read_dir of the adapter: allocated entries, no labels, no dot entries.
vfs_read_dir(v, ino) ==
  LET listed == read_dir(v, from_vfs_id(ino))
      shown(n) == /\ ~n.is_deleted /\ ~n.is_volume_label
                  /\ n.name \notin Dots
      entry(n) == [name |-> n.name, id |-> to_vfs_id(n.id), kind |-> node_kind(n)]
      places == Ascending({ k \in DOMAIN listed.nodes : shown(listed.nodes[k]) })
  IN  IF listed = Err THEN VfsError
      ELSE [entries |-> [k \in 1 .. Len(places) |-> entry(listed.nodes[places[k]])]]

\* lookup of the adapter: Err stands for both its error and its None.
vfs_lookup(v, ino, name) ==
  LET found == lookup(v, from_vfs_id(ino), name)
  IN  IF found = Err THEN VfsError ELSE to_vfs_id(found)

\* build_meta of what meta finds.
vfs_meta(v, ino) ==
  LET node_at_ino == meta(v, from_vfs_id(ino))
  IN  IF node_at_ino = Err THEN VfsError
      ELSE [ino |-> ino_of(from_vfs_id(ino)), kind |-> node_kind(node_at_ino),
            allocated |-> ~node_at_ino.is_deleted, size |-> node_at_ino.size]

\* extents and read_at of the adapter, of the default stream: the only one.
vfs_extents(v, ino) ==
  LET extent == data_extent(v, from_vfs_id(ino))
  IN  IF extent = Err THEN VfsError ELSE [runs |-> runs(v, extent)]

vfs_read_at(v, ino, off, len) ==
  LET extent == data_extent(v, from_vfs_id(ino))
  IN  IF extent = Err THEN VfsError ELSE [bytes |-> read_at(extent, off, len)]

-----------------------------------------------------------------------------
\* The caller holds nodes; a FAT node is never contiguous.
NavTypeOK ==
  /\ {parent, node} \subseteq Node
  /\ vol.variant # "ExFat" => ~node.contiguous

\* Slots from u16::MAX on share the index where indices saturate.
Addressable(n) == n.id = Root \/ n.id.index < MaxIndex

\* The id of a node, deleted or not, names the entry it was given for, as long
\* as the slot has an index of its own and the directory that the id of the
\* parent leads to is read alike from above and from below: always on FAT; on
\* exFAT unless it is a NoFatChain directory whose FAT entries say otherwise
\* (fs.rs, FileId: "the entry (including a deleted one) can always be re-read").
HandlesAreStable ==
  ReadAlike(vol, meta(vol, parent.id)) /\ Addressable(node) =>
    meta(vol, node.id) = node

\* A VFS address comes back as the id it was made from, that of an entry is
\* never taken for the root's, and two nodes have one metadata address only if
\* they are one (vfs.rs, to_vfs_id: "cluster 0 is never a valid parent, so the
\* mapping is unambiguous"; ino_of).
VfsIdsAreExact ==
  /\ from_vfs_id(to_vfs_id(node.id)) = node.id
  /\ ino_of(node.id) = ino_of(parent.id) => node.id = parent.id

\* What the adapter lists, it finds: a name it hands out resolves to the first
\* entry it lists under that name, and the address it hands out has metadata of
\* the kind it was listed with, of an allocated entry, as long as the directory
\* its id leads to is read alike from above and from below (vfs.rs: read_dir,
\* lookup and meta filter and resolve separately).
VfsListedIsFound ==
  LET ino == to_vfs_id(node.id)
      listed == vfs_read_dir(vol, ino)
      FirstOfName(name) ==
        FirstOf(listed.entries,
                { k \in DOMAIN listed.entries : listed.entries[k].name = name })
  IN  listed # VfsError =>
        /\ \A name \in { e.name : e \in Range(listed.entries) } :
             vfs_lookup(vol, ino, name) = FirstOfName(name).id
        /\ ReadAlike(vol, meta(vol, node.id)) =>
             \A e \in Range(listed.entries) : e.id.index < MaxIndex =>
               \E found \in {vfs_meta(vol, e.id)} :
                 found # VfsError /\ found.kind = e.kind /\ found.allocated

\* The offsets a list of runs covers, in order.
RunBytes(rs) ==
  FlattenSeq([n \in 1 .. Len(rs) |-> [k \in 1 .. rs[n][2] |-> rs[n][1] + k - 1]])

\* extents and read_at agree about where the data of a node is: a read of the
\* whole hands over the bytes of the runs, in order, and stops short of what the
\* runs cover only where the image ends (fs.rs, runs and read_at, which compute
\* it separately; vfs.rs, extents and read_at).
RunsAreWhatIsRead ==
  LET extent == data_extent(vol, node.id)
      ino == to_vfs_id(node.id)
      bytes == RunBytes(vfs_extents(vol, ino).runs)
      read == vfs_read_at(vol, ino, 0, extent.total).bytes
  IN  extent # Err /\ extent.chain # <<>> =>
        /\ IsPrefix(read, bytes)
        /\ Len(read) < Len(bytes) => bytes[Len(read) + 1] >= ImageLen

\* The runs of an extent begin at clusters of its chain.
RunsInChain(extent) ==
  extent # Err =>
    \A r \in Range(runs(vol, extent)) : \E c \in Range(extent.chain) :
      cluster_offset(c) = r[1]

\* What the doc comment of runs says: the runs of a node are "backing node
\* `id`'s data"; for one that is not the root they lie in its clusters.
RunsBackData == node.id # Root => RunsInChain(data_extent(vol, node.id))
=============================================================================

----------------------------- MODULE MCFatRead ------------------------------
(***************************************************************************)
(* Two threads over an image of eight bytes: one before the data region,   *)
(* clusters 2, 3 and 4 whole, cluster 5 with its second byte missing, and  *)
(* cluster 6 beyond the end.                                               *)
(***************************************************************************)
EXTENDS FatRead

\* Fragmented, out of order, ending in the truncated cluster; empty.
File(chain, total, off, len) ==
  [op |-> "read_at", chain |-> chain, total |-> total, off |-> off, len |-> len]
Dir(chain) ==
  [op |-> "read_dir", chain |-> chain, total |-> 0, off |-> 0, len |-> 0]

MCCalls ==
  { File(<<4, 2>>, 4, 0, 4),      \* whole
    File(<<4, 2>>, 4, 1, 2),      \* across the cluster boundary
    File(<<3>>, 5, 1, 4),         \* size beyond the chain
    File(<<3, 4>>, 3, 0, 9),      \* buffer beyond the size
    File(<<5, 3>>, 4, 0, 4),      \* truncated image in the middle
    File(<<2>>, 2, 3, 1),         \* offset beyond the size
    Dir(<<3, 2>>),
    Dir(<<5, 3>>),                \* a truncated cluster, then a whole one
    Dir(<<6, 4, 2, 3>>),          \* a missing cluster; stopped by the cap
    Dir(<<>>) }
=============================================================================

---------------------------- MODULE FatReadCalls ----------------------------
(***************************************************************************)
(* The two calls of fs.rs that bring data in through the shared reader:    *)
(* the loop of read_at over a file's clusters and the loop of              *)
(* read_dir_bytes over a directory's.  A byte is identified by its offset  *)
(* in the image, so a result is a sequence of offsets.                     *)
(***************************************************************************)
EXTENDS Integers, Sequences, SequencesExt

CONSTANTS
  ClusterSize,  \* geom.cluster_size
  DataStart,    \* geom.data_start: offset of cluster 2
  ImageLen,     \* bytes the image really has: truncation is ordinary here
  MaxDirBytes   \* MAX_DIR_BYTES

ASSUME ReadAssumption ==
  /\ ClusterSize \in Nat \ {0}
  /\ DataStart \in Nat
  /\ ImageLen \in Nat
  /\ MaxDirBytes \in Nat

\* Clusters 0 and 1 are reserved; no chain holds them (FatChain, ChainLinked).
Cluster == { c \in Nat : c >= 2 }

\* The cluster chain of the node, and for read_at the total, offset and buffer
\* length (a directory is always read whole).
Call ==
  [op : {"read_at", "read_dir"}, chain : Seq(Cluster), total : Nat,
   off : Nat, len : Nat]

\* Mutant: the first data cluster taken for number 3.
cluster_offset_from_3(cluster) == DataStart + (cluster - 3) * ClusterSize

cluster_offset(cluster) == DataStart + (cluster - 2) * ClusterSize

LesserOf(a, b) == IF a <= b THEN a ELSE b

\* Where position p of the node's data lies in the image.
Loc(c, p) ==
  cluster_offset(c.chain[(p \div ClusterSize) + 1]) + (p % ClusterSize)

\* First position past what the call asks for: read_at's `end`.
End(c) ==
  IF c.op = "read_at" THEN LesserOf(c.off + c.len, c.total)
                      ELSE Len(c.chain) * ClusterSize

\* The bytes [o, o + n) of the image, as far as they exist.
Slice(o, n) ==
  [k \in 1 .. LesserOf(n, IF ImageLen > o THEN ImageLen - o ELSE 0) |-> o + k - 1]

-----------------------------------------------------------------------------
\* What the calls promise: the bytes that follow `off`, from the right places,
\* until the buffer, the size, the chain or the image ends...
IsReadAtResult(c, s) ==
  LET stop == c.off + Len(s)
  IN  /\ \A k \in 1 .. Len(s) : s[k] = Loc(c, c.off + k - 1)
      /\ \/ stop >= End(c) /\ (Len(s) = 0 \/ stop = End(c))
         \/ stop >= Len(c.chain) * ClusterSize
         \/ Loc(c, stop) >= ImageLen

\* ...and the bytes of the directory's clusters, in chain order, each as far as
\* the image goes, until MAX_DIR_BYTES are there.
ReadDirResult(c) ==
  FoldLeft(LAMBDA bytes, cluster :
             IF Len(bytes) >= MaxDirBytes THEN bytes
             ELSE bytes \o Slice(cluster_offset(cluster), ClusterSize),
           <<>>, c.chain)

IsResult(c, s) ==
  IF c.op = "read_at" THEN IsReadAtResult(c, s) ELSE s = ReadDirResult(c)
=============================================================================

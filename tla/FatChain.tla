------------------------------ MODULE FatChain ------------------------------
(***************************************************************************)
(* follow_chain (core/src/fat.rs): the loop that turns a first cluster     *)
(* into the list of clusters that back a file or a directory.  One action  *)
(* per way an iteration can go.  The FAT is arbitrary bytes read from the  *)
(* image: nothing is assumed of it, it may be cyclic, cross-linked,        *)
(* truncated, or point anywhere.                                           *)
(***************************************************************************)
EXTENDS FatTable

CONSTANTS
  Volumes,      \* records [variant, fat, count] the loop may run over: the
                \* cached FAT1 and geom.count_of_clusters
  Starts        \* first clusters it may be called with

Volume == [variant : FatVariant, fat : Seq(Byte), count : Nat]

ASSUME VolumesAssumption == Volumes \subseteq Volume
ASSUME StartsAssumption == Starts \subseteq Nat

VARIABLES
  vol,          \* the volume: fixed through a call
  start,        \* the argument of the call
  cluster,      \* local `cluster`
  chain,        \* local `chain`
  pc            \* "loop" or "done"

vars == <<vol, start, cluster, chain, pc>>

Entry(c) == fat_entry(vol.fat, vol.variant, c)

\* Mutant: the two reserved entries subtracted, not added.
max_clusters_short(v) == v.count - 2

\* The cap every caller in fs.rs passes.
max_clusters(v) == v.count + 2

-----------------------------------------------------------------------------
\* Mutant: the start taken as a zero-based heap index.
InitShifted ==
  /\ vol \in Volumes
  /\ start \in Starts
  /\ cluster = start - 1
  /\ chain = <<>>
  /\ pc = "loop"

Init ==
  /\ vol \in Volumes
  /\ start \in Starts
  /\ cluster = start
  /\ chain = <<>>
  /\ pc = "loop"

\* Mutant: the cap reached one cluster early.
CapReachedEarly ==
  /\ pc = "loop"
  /\ Len(chain) >= max_clusters(vol) - 1
  /\ pc' = "done"
  /\ UNCHANGED <<vol, start, cluster, chain>>

\* Mutant: `==` for `>=` and one too far, so the loop never sees it.
CapReachedNever ==
  /\ pc = "loop"
  /\ Len(chain) = max_clusters(vol) + 1
  /\ pc' = "done"
  /\ UNCHANGED <<vol, start, cluster, chain>>

\* The `while` condition fails: the hard cap is reached.
CapReached ==
  /\ pc = "loop"
  /\ Len(chain) >= max_clusters(vol)
  /\ pc' = "done"
  /\ UNCHANGED <<vol, start, cluster, chain>>

\* `if cluster < 2 { break; }`
ReservedCluster ==
  /\ pc = "loop"
  /\ Len(chain) < max_clusters(vol)
  /\ cluster < 2
  /\ pc' = "done"
  /\ UNCHANGED <<vol, start, cluster, chain>>

Push ==
  /\ pc = "loop"
  /\ Len(chain) < max_clusters(vol)
  /\ cluster >= 2
  /\ chain' = Append(chain, cluster)

\* Mutant: the test before the push, so the last cluster is lost.
LastClusterLost ==
  /\ pc = "loop"
  /\ Len(chain) < max_clusters(vol)
  /\ cluster >= 2
  /\ EndsChain(vol.variant, Entry(cluster))
  /\ pc' = "done"
  /\ UNCHANGED <<vol, start, cluster, chain>>

\* Push the cluster, whose entry ends the chain: break.
LastCluster ==
  /\ Push
  /\ EndsChain(vol.variant, Entry(cluster))
  /\ pc' = "done"
  /\ UNCHANGED <<vol, start, cluster>>

\* Mutant: the bad-cluster marker followed as if it were a pointer.
NextClusterThroughBad ==
  /\ Push
  /\ Entry(cluster) >= 2
  /\ ~is_eoc(vol.variant, Entry(cluster))
  /\ cluster' = Entry(cluster)
  /\ UNCHANGED <<vol, start, pc>>

\* Push the cluster and go on with the one its entry names.
NextCluster ==
  /\ Push
  /\ ~EndsChain(vol.variant, Entry(cluster))
  /\ cluster' = Entry(cluster)
  /\ UNCHANGED <<vol, start, pc>>

Next == CapReached \/ ReservedCluster \/ LastCluster \/ NextCluster

\* The loop is straight-line code of one thread: it keeps running.
Spec == Init /\ [][Next]_vars /\ WF_vars(Next)

-----------------------------------------------------------------------------
\* The locals of the loop keep their types: no FAT bytes make `cluster` other
\* than a number (fat.rs, follow_chain).
TypeOK ==
  /\ vol \in Volume
  /\ start \in Nat
  /\ cluster \in Nat
  /\ chain \in Seq(Nat)
  /\ pc \in {"loop", "done"}

\* A file's clusters are its start and then, one after the other, what the
\* FAT entry of the previous one names; no marker is ever taken for a cluster
\* (fat.rs, follow_chain), and the list is never longer than the cap.
ChainLinked ==
  /\ Len(chain) <= max_clusters(vol)
  /\ Len(chain) > 0 => chain[1] = start
  /\ \A i \in 1 .. Len(chain) : chain[i] >= 2
  /\ \A i \in 1 .. Len(chain) - 1 :
       /\ chain[i + 1] = Entry(chain[i])
       /\ ~EndsChain(vol.variant, Entry(chain[i]))

\* No cluster is in the list twice.
Distinct == \A i, j \in 1 .. Len(chain) : chain[i] = chain[j] => i = j

\* "max_clusters hard-caps the length so a cyclic chain can never hang": only
\* the cap ends a walk that came round, so a cycle always shows as a list of
\* exactly max_clusters clusters and never as a shorter, plausible one.
CycleHitsCap ==
  pc = "done" /\ ~Distinct => Len(chain) = max_clusters(vol)

\* The clusters a sane file can use: the heap, 2 .. count + 1.
InHeap(c) == c \in 2 .. vol.count + 1

\* The cap never cuts a sane file: a walk that stays in the heap and does not
\* come round is returned whole, up to the entry that ends it (fs.rs sets the
\* cap from count_of_clusters, fat.rs compares the length with it).
SaneChainIsWhole ==
  /\ pc = "done"
  /\ Len(chain) > 0
  /\ Distinct
  /\ \A i \in 1 .. Len(chain) : InHeap(chain[i])
  => EndsChain(vol.variant, Entry(chain[Len(chain)]))

\* Bits an entry of the table takes, and those of them that are the pointer.
Width(variant) ==
  CASE variant = "Fat12" -> 12
    [] variant = "Fat16" -> 16
    [] variant \in {"Fat32", "ExFat"} -> 32
PointerBits(variant) == IF Width(variant) = 32 THEN 28 ELSE Width(variant)

\* Bit b of the table, read as one little-endian number.
TableBit(b) == (vol.fat[(b \div 8) + 1] \div 2 ^ (b % 8)) % 2

\* Entry c is bits Width*c .. of the table whatever byte they straddle, and
\* reads as free exactly when the slice does not hold all of them (fat_entry's
\* offset arithmetic and nibble selection over the readers of bytes.rs).
EntryIsItsBits ==
  \A c \in 0 .. vol.count + 3 :
    LET w == Width(vol.variant)
    IN  IF w * c + w <= 8 * Len(vol.fat)
        THEN /\ Entry(c) < 2 ^ PointerBits(vol.variant)
             /\ \A k \in 0 .. PointerBits(vol.variant) - 1 :
                  (Entry(c) \div 2 ^ k) % 2 = TableBit(w * c + k)
        ELSE Entry(c) = 0

\* Whatever the FAT holds, the call returns.
Returns == <>(pc = "done")

-----------------------------------------------------------------------------
\* The one-step promise of FatChainAbs: the result exists once it is returned.
Abs == INSTANCE FatChainAbs
         WITH returned <- (pc = "done"),
              result <- IF pc = "done" THEN chain ELSE <<>>

\* The loop implements it: however many iterations it takes, its callers see
\* one step that hands them the longest walk the FAT and the cap allow
\* (fat.rs, follow_chain).
ImplementsAbs == Abs!Init /\ [][Abs!Next]_(Abs!vars)
=============================================================================
